---------------------------- MODULE Bls12381Hint ----------------------------
(***************************************************************************)
(* HintFinalExp for BLS12-381 (bls12_381_hint.rs): c and s with             *)
(* c^lambda = f s.  The group order is R * 27 * poly * p: s removes from f  *)
(* what lies in the subgroups of order 27 and poly, and the lambda-th root  *)
(* of the rest is a power, lambda having an inverse modulo p.               *)
(***************************************************************************)
EXTENDS PairingInput

CONSTANTS poly_factor, final_exp_factor, lambda

\* What the literals of bls12_381_hint.rs satisfy.
Bls12381Assumption ==
    /\ {poly_factor, final_exp_factor, lambda} \subseteq Nat
    /\ GroupOrder = R * 27 * poly_factor * final_exp_factor
    /\ final_exp_factor % 3 # 0 /\ poly_factor % 3 # 0 /\ final_exp_factor % R # 0
    /\ (10 * final_exp_factor * poly_factor) % 27 = 1
    /\ \E k \in 1 .. poly_factor : (27 * final_exp_factor * k) % poly_factor = 1
    /\ \E k \in 1 .. final_exp_factor : (lambda * k) % final_exp_factor = 1
    /\ lambda % R = 0

VARIABLES
    ps, qs,     \* the scalars of the points
    f,          \* the value of the Miller loops
    c, s,       \* the witness
    stage

vars == <<ps, qs, f, c, s, stage>>

times27_mod_poly == inv_mod(27 * final_exp_factor, poly_factor)
lambda_inv       == inv_mod(lambda, final_exp_factor)

Init ==
    /\ ps \in PointLists(ScalarsP) /\ qs \in PointLists(ScalarsQ)
    /\ f = One /\ c = One /\ s = One
    /\ stage = "call"

\* hint_final_exp, as for BN254.
Lengths ==
    /\ stage = "call"
    /\ \/ Len(ps) # Len(qs) /\ stage' = "CustomOp" /\ f' = f
       \/ ps = <<>> /\ qs = <<>> /\ stage' = "done" /\ f' = f
       \/ /\ Len(ps) = Len(qs) /\ ps # <<>>
          /\ \E product \in {PairingProduct(ps, qs)} : f' \in multi_miller_loop(product) \cup {Zero}
          /\ stage' = "witness"
    /\ UNCHANGED <<ps, qs, c, s>>

inv_pow(base, exponent) == pow(inverse(base), exponent)

f_final_exp == pow(f, final_exp_factor)

root_pth_inv ==
    LET root == pow(f_final_exp, 27)
    IN  IF root = One THEN One ELSE inv_pow(root, times27_mod_poly)

\* Mutant of root_27th_inv: the test for the subgroup is turned around.
root_27th_inv_flipped ==
    LET root == pow(f_final_exp, poly_factor)
    IN  IF pow(root, 27) # One THEN inv_pow(root, 10) ELSE One

root_27th_inv ==
    LET root == pow(f_final_exp, poly_factor)
    IN  IF pow(root, 27) = One THEN inv_pow(root, 10) ELSE One

\* final_exp_hint: the inverse of a zero, met in the first root, panics.
Witness ==
    /\ stage = "witness"
    /\ IF f = Zero THEN stage' = "panic" /\ UNCHANGED <<c, s>>
       ELSE /\ s' = mul(root_pth_inv, root_27th_inv)
            /\ c' = pow(mul(f, s'), lambda_inv)
            /\ stage' = "done"
    /\ UNCHANGED <<ps, qs, f>>

Next == Lengths \/ Witness

Spec == Init /\ [][Next]_vars

-----------------------------------------------------------------------------
\* The hint convinces the guest exactly when it should: c^lambda = f s, with s
\* in the subgroup that the final exponentiation sends to one, if and only if
\* the product of the pairings is one.  Only a Miller value of zero panics.
WitnessIffOne ==
    /\ stage = "done" =>
          (PairingProduct(ps, qs) = 0)
            <=> (pow(c, lambda) = mul(f, s) /\ pow(s, 27 * poly_factor) = One)
    /\ stage = "panic" => f = Zero
=============================================================================
