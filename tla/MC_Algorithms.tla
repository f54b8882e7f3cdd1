--------------------------- MODULE MC_Algorithms ---------------------------
(***************************************************************************)
(* The handlers that loop, one to a behaviour: the square root and the      *)
(* pairing hints, and Keccak-f.  Each has the interpreter's one thread to   *)
(* itself until it returns; the variables of the others are Idle.           *)
(***************************************************************************)
EXTENDS Integers, FiniteSets

CONSTANTS
    Primes,     \* the moduli of the square roots
    Excess,     \* what is not reduced is below a modulus and this
    BN254,      \* the groups of each pairing and the literals of its hint, under
    BLS12_381   \* the names of the constants below

VARIABLES
    routine, stage,
    p, x, non_qr, attempt, m, c, t, r, hint,    \* SqrtHint; x, c, t also Bn254Hint
    ps, qs, f, root, u, x3,                     \* Bn254Hint; ps, qs, f, c also Bls12381Hint
    s, bytes, round                             \* Keccak; s also Bls12381Hint

loop    == <<m, c, t, r>>
pairing == <<ps, qs, f, root, u, x3>>
buffer  == <<bytes, round>>
vars    == <<routine, stage, p, x, non_qr, attempt, loop, hint, pairing, s, buffer>>

Sqrt == INSTANCE SqrtHint

MCBn254 ==
    [GroupOrder |-> 378, R |-> 7, ScalarsP |-> {1, 5}, ScalarsQ |-> {1, 2}, MaxPoints |-> 2,
     S |-> 14, M |-> 11, M_INV |-> 5, unity_root_27 |-> 28]

Bn254 == INSTANCE Bn254Hint WITH
    GroupOrder <- BN254.GroupOrder, R <- BN254.R,
    ScalarsP <- BN254.ScalarsP, ScalarsQ <- BN254.ScalarsQ, MaxPoints <- BN254.MaxPoints,
    S <- BN254.S, M <- BN254.M, M_INV <- BN254.M_INV, unity_root_27 <- BN254.unity_root_27

MCBls12381 ==
    [GroupOrder |-> 6210, R |-> 5, ScalarsP |-> {1, 4}, ScalarsQ |-> {1, 3}, MaxPoints |-> 2,
     poly_factor |-> 2, final_exp_factor |-> 23, lambda |-> 30]

Bls12381 == INSTANCE Bls12381Hint WITH
    GroupOrder <- BLS12_381.GroupOrder, R <- BLS12_381.R,
    ScalarsP <- BLS12_381.ScalarsP, ScalarsQ <- BLS12_381.ScalarsQ,
    MaxPoints <- BLS12_381.MaxPoints, poly_factor <- BLS12_381.poly_factor,
    final_exp_factor <- BLS12_381.final_exp_factor, lambda <- BLS12_381.lambda

\* All zeros, all ones, single ones in three lanes and at both ends of a lane,
\* and a dense buffer.
OneAt(k, i) == [j \in 0 .. 199 |-> IF j = k THEN {i} ELSE {}]
MCInputs ==
    { [k \in 0 .. 199 |-> {}], [k \in 0 .. 199 |-> 0 .. 7],
      OneAt(0, 0), OneAt(103, 7), OneAt(199, 7),
      [k \in 0 .. 199 |-> { i \in 0 .. 7 : (k * k + 3 * k * i + 5 * i) % 7 < 3 }] }

Keccakf == INSTANCE Keccak WITH Inputs <- MCInputs

ASSUME AlgorithmsAssumption ==
    /\ Sqrt!PrimesAssumption
    /\ Bn254!PairingAssumption /\ Bn254!Bn254Assumption
    /\ Bls12381!PairingAssumption /\ Bls12381!Bls12381Assumption

-----------------------------------------------------------------------------
Idle(v) == v = 0

NoRoot    == Idle(p) /\ Idle(non_qr) /\ Idle(attempt) /\ Idle(m) /\ Idle(r) /\ Idle(hint)
NoSearch  == Idle(root) /\ Idle(u) /\ Idle(x3)
NoPairing == NoSearch /\ Idle(ps) /\ Idle(qs) /\ Idle(f)
NoBuffer  == Idle(bytes) /\ Idle(round)

Init ==
    \/ routine = "HintSqrt" /\ Sqrt!Init /\ NoPairing /\ NoBuffer /\ Idle(s)
    \/ routine = "HintFinalExp BN254" /\ Bn254!Init /\ NoRoot /\ NoBuffer /\ Idle(s)
    \/ /\ routine = "HintFinalExp BLS12-381" /\ Bls12381!Init
       /\ NoRoot /\ NoSearch /\ NoBuffer /\ Idle(x) /\ Idle(t)
    \/ routine = "KECCAKF" /\ Keccakf!Init /\ NoRoot /\ NoPairing /\ Idle(x) /\ Idle(c) /\ Idle(t)

RootStep ==
    /\ routine = "HintSqrt" /\ Sqrt!Next
    /\ UNCHANGED <<routine, pairing, s, buffer>>

Bn254Step ==
    /\ routine = "HintFinalExp BN254" /\ Bn254!Next
    /\ UNCHANGED <<routine, p, non_qr, attempt, m, r, hint, s, buffer>>

Bls12381Step ==
    /\ routine = "HintFinalExp BLS12-381" /\ Bls12381!Next
    /\ UNCHANGED <<routine, p, x, non_qr, attempt, m, t, r, hint, root, u, x3, buffer>>

KeccakStep ==
    /\ routine = "KECCAKF" /\ Keccakf!Next
    /\ UNCHANGED <<routine, p, x, non_qr, attempt, loop, hint, pairing>>

Next == RootStep \/ Bn254Step \/ Bls12381Step \/ KeccakStep

\* A handler runs in the interpreter's one thread until it returns; it is for
\* the two with a loop of no fixed length that this matters.
Spec == Init /\ [][Next]_vars /\ WF_vars(RootStep) /\ WF_vars(Bn254Step)

-----------------------------------------------------------------------------
\* In every round of Tonelli-Shanks r is a root of argument * t, the order of t
\* divides 2^s, and c has order 2^m: what makes the next round possible.
LoopRelation == routine = "HintSqrt" => Sqrt!LoopRelation

\* HintSqrt hands out a root of x; or a root of x * non_qr, only when x has
\* none; `expect` does not panic, whether or not x is reduced.
HintTrue == routine = "HintSqrt" => Sqrt!HintTrue

\* The loop of Tonelli-Shanks ends, for both attempts together.
RootAnswered == routine = "HintSqrt" => Sqrt!Answers

\* The hint for BN254 convinces the guest if and only if the product of the
\* pairings is one; its root is a cube root; only a Miller value of zero panics.
Bn254WitnessIffOne == routine = "HintFinalExp BN254" => Bn254!WitnessIffOne

\* The search for the cube root ends, for every value of the Miller loops.
Bn254Ends == routine = "HintFinalExp BN254" => Bn254!Ends

\* The hint for BLS12-381 convinces the guest if and only if the product of
\* the pairings is one; only a Miller value of zero panics.
Bls12381WitnessIffOne == routine = "HintFinalExp BLS12-381" => Bls12381!WitnessIffOne

\* do_keccakf with its tables, its walk in place and its bytes is, round by
\* round, the permutation that FIPS 202 generates by rule.
ImplementsKeccak ==
    /\ routine = "KECCAKF" => Keccakf!Standard!Init
    /\ [][ routine = "KECCAKF" => [Keccakf!Standard!Next]_<<Keccakf!ones, round>> ]_vars

\* The test keccakf_zero_state: from the buffer of zeros, lane 0 ends as
\* 0xf1258f7940e1dde7.
KnownAnswer == [][ routine = "KECCAKF" => Keccakf!ZeroAnswer ]_vars
=============================================================================
