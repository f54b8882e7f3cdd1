----------------------------- MODULE Bn254Hint -----------------------------
(***************************************************************************)
(* HintFinalExp for BN254 (bn254_hint.rs): from the value f of the Miller   *)
(* loops the residue witness c, u with c^lambda = f u, which shows the      *)
(* guest that the product of the pairings is one.  lambda = 3 R M; the      *)
(* R-th and the M-th root are powers, the cube root is searched for.  One   *)
(* step is one round of the search.                                         *)
(***************************************************************************)
EXTENDS PairingInput

CONSTANTS
    S,          \* p^12 - 1 = 27 S
    M,          \* lambda / (3 R)
    M_INV,      \* the literals of m_inv and
    unity_root_27

\* What the literals of bn254_hint.rs satisfy (r^-1 and (S+1)/3 are computed).
Bn254Assumption ==
    /\ {S, M, M_INV, unity_root_27} \subseteq Nat
    /\ GroupOrder = 27 * S /\ S % 3 = 2 /\ (S + 1) % 9 # 0
    /\ R % 3 # 0 /\ S % R = 0
    /\ (M * M_INV) % (GroupOrder \div R) = 1
    /\ unity_root_27 % S = 0 /\ unity_root_27 % (3 * S) # 0

VARIABLES
    ps, qs,             \* the scalars of the points
    f,                  \* the value of the Miller loops
    root,               \* f u and its roots, whose cube root is searched for
    c, u,               \* the witness
    x, x3, t,           \* the variables of the search
    stage

vars == <<ps, qs, f, root, c, u, x, x3, t, stage>>

lambda == 3 * R * M
EXP1   == GroupOrder \div 3
EXP2   == (S + 1) \div 3
R_INV  == inv_mod(R, GroupOrder \div R)

Init ==
    /\ ps \in PointLists(ScalarsP) /\ qs \in PointLists(ScalarsQ)
    /\ f = One /\ root = One /\ c = One /\ u = One
    /\ x = One /\ x3 = One /\ t = 0
    /\ stage = "call"

\* hint_final_exp: lists of two lengths are an error, empty ones have the
\* witness of ones; points are not checked, and those off the curve may bring
\* the loops to zero.
Lengths ==
    /\ stage = "call"
    /\ \/ Len(ps) # Len(qs) /\ stage' = "CustomOp" /\ f' = f
       \/ ps = <<>> /\ qs = <<>> /\ stage' = "done" /\ f' = f
       \/ /\ Len(ps) = Len(qs) /\ ps # <<>>
          /\ \E product \in {PairingProduct(ps, qs)} : f' \in multi_miller_loop(product) \cup {Zero}
          /\ stage' = "shift"
    /\ UNCHANGED <<ps, qs, root, c, u, x, x3, t>>

\* Mutant of Shift: the second factor is thought to make a cube always.
Shift_twice_at_most ==
    /\ stage = "shift"
    /\ LET k == IF pow(f, EXP1) = One THEN 0 ELSE 1
       IN  /\ u' = pow(unity_root_27, k)
           /\ root' = mul(f, pow(unity_root_27, k))
    /\ stage' = "r-th root"
    /\ UNCHANGED <<ps, qs, f, c, x, x3, t>>

\* f times the power of the 27-th root of unity that makes it a cube.
Shift ==
    /\ stage = "shift"
    /\ LET k == IF pow(f, EXP1) = One THEN 0
                ELSE IF pow(mul(f, unity_root_27), EXP1) = One THEN 1 ELSE 2
       IN  /\ u' = pow(unity_root_27, k)
           /\ root' = mul(f, pow(unity_root_27, k))
    /\ stage' = "r-th root"
    /\ UNCHANGED <<ps, qs, f, c, x, x3, t>>

RthRoot ==
    /\ stage = "r-th root"
    /\ root' = pow(root, R_INV)
    /\ stage' = "m-th root"
    /\ UNCHANGED <<ps, qs, f, c, u, x, x3, t>>

MthRoot ==
    /\ stage = "m-th root"
    /\ root' = pow(root, M_INV)
    /\ stage' = "start"
    /\ UNCHANGED <<ps, qs, f, c, u, x, x3, t>>

\* x as a guess of the cube root, x3 what its cube is off by.
Guess(guess) ==
    /\ x' = guess
    /\ x3' = mul(pow(guess, 3), inverse(root))
    /\ t' = 0
    /\ UNCHANGED <<ps, qs, f, root, c, u>>

Start ==
    /\ stage = "start"
    /\ IF root = Zero THEN stage' = "panic" /\ UNCHANGED <<ps, qs, f, root, c, u, x, x3, t>>
       ELSE stage' = "search" /\ Guess(pow(root, EXP2))

\* ts_loop: cube the error until it is one, counting.
CubeError ==
    /\ stage = "search" /\ x3 # One
    /\ x3' = pow(x3, 3)
    /\ t' = t + 1
    /\ UNCHANGED <<ps, qs, f, root, c, u, x, stage>>

NextGuess ==
    /\ stage = "search" /\ x3 = One /\ t # 0
    /\ Guess(mul(x, pow(unity_root_27, EXP2)))
    /\ UNCHANGED stage

\* Mutant of Found: the search ends with the first error of order three.
Found_early ==
    /\ stage = "search" /\ x3 = One /\ t <= 1
    /\ c' = x
    /\ stage' = "done"
    /\ UNCHANGED <<ps, qs, f, root, u, x, x3, t>>

Found ==
    /\ stage = "search" /\ x3 = One /\ t = 0
    /\ c' = x
    /\ stage' = "done"
    /\ UNCHANGED <<ps, qs, f, root, u, x, x3, t>>

Next == Lengths \/ Shift \/ RthRoot \/ MthRoot \/ Start \/ CubeError \/ NextGuess \/ Found

\* The search runs in the interpreter's one thread until it returns.
Spec == Init /\ [][Next]_vars /\ WF_vars(Next)

-----------------------------------------------------------------------------
\* The hint convinces the guest exactly when it should: c^lambda = f u, with u
\* one of the three powers of the root of unity, if and only if the product of
\* the pairings is one.  The root that the search took is a cube root (the
\* debug_assert behind it), and only a Miller value of zero panics.
WitnessIffOne ==
    /\ stage = "done" =>
          /\ u \in { pow(unity_root_27, k) : k \in 0 .. 2 }
          /\ (pow(c, lambda) = mul(f, u)) <=> (PairingProduct(ps, qs) = 0)
          /\ pow(c, 3) = root
    /\ stage = "panic" => f = Zero

\* The search for the cube root ends, for every value of the Miller loops, a
\* pairing product of one or not.
Ends == <>(stage \in {"done", "panic", "CustomOp"})
=============================================================================
