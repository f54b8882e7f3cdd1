------------------------------ MODULE SqrtHint ------------------------------
(***************************************************************************)
(* HintSqrt (modular.rs): the square root of x modulo p that the host hands *)
(* to the guest, or the root of x times a non-residue as evidence that x    *)
(* has none.  mod_sqrt_openvm is run for x and, if it finds no root, once   *)
(* more for the product; the second answer is taken with `expect`.  One     *)
(* step is one round of the Tonelli-Shanks loop.                            *)
(***************************************************************************)
EXTENDS Integers

CONSTANTS
    Primes,     \* the moduli of the table
    Excess      \* x is below p + Excess: it need not be reduced

PrimesAssumption ==
    /\ Excess \in Nat
    /\ \A n \in Primes : n \in Nat /\ n > 2 /\ \A d \in 2 .. n - 1 : n % d # 0

VARIABLES
    p, x,
    non_qr,     \* what find_non_qr_openvm returned
    attempt,    \* 1: the root of x; 2: that of x * non_qr
    stage,      \* "call", "loop", "done", "panic"
    m, c, t, r, \* the variables of the loop
    hint        \* flag and root

loop == <<m, c, t, r>>
vars == <<p, x, non_qr, attempt, stage, loop, hint>>

modpow(base, exponent, modulus) ==
    LET pow[e \in Nat] ==
           IF e = 0 THEN 1
           ELSE LET h == pow[e \div 2]
                IN  (h * h * (IF e % 2 = 1 THEN base % modulus ELSE 1)) % modulus
    IN  pow[exponent]

\* The rejection sampling accepts any non-residue; its seed is fixed, so that
\* all calls for one modulus return the same.
find_non_qr(modulus) ==
    IF modulus % 4 = 3 THEN {modulus - 1}
    ELSE IF modulus % 8 = 5 THEN {2}
    ELSE { n \in 2 .. modulus - 2 :
             modpow(n, (modulus - 1) \div 2, modulus) = modulus - 1 }

argument == IF attempt = 1 THEN x ELSE (x * non_qr) % p

Init ==
    /\ p \in Primes
    /\ x \in 0 .. p + Excess - 1
    /\ non_qr \in find_non_qr(p)
    /\ attempt = 1
    /\ stage = "call"
    /\ m = 0 /\ c = 0 /\ t = 0 /\ r = 0
    /\ hint = [flag |-> 0, root |-> 0]

-----------------------------------------------------------------------------
\* The two ways mod_sqrt_openvm returns.

Some(root) ==
    /\ stage' = "done"
    /\ hint' = [flag |-> IF attempt = 1 THEN 1 ELSE 0, root |-> root]
    /\ UNCHANGED <<p, x, non_qr, attempt, loop>>

None ==
    /\ stage' = IF attempt = 1 THEN "call" ELSE "panic"
    /\ attempt' = 2
    /\ UNCHANGED <<p, x, non_qr, loop, hint>>

\* p = 3 mod 4: x^((p+1)/4), if it is a root.
FastPath ==
    /\ stage = "call" /\ p % 4 = 3
    /\ LET ret == modpow(argument, (p + 1) \div 4, p)
       IN  IF (ret * ret) % p = argument % p THEN Some(ret) ELSE None

\* p - 1 = q * 2^s with q odd.
TwoAdicity == CHOOSE s \in 1 .. p : (p - 1) % 2^s = 0 /\ ((p - 1) \div 2^s) % 2 = 1
OddPart    == (p - 1) \div 2^TwoAdicity

Tonelli ==
    /\ stage = "call" /\ p % 4 # 3
    /\ m' = TwoAdicity
    /\ c' = modpow(non_qr, OddPart, p)
    /\ t' = modpow(argument, OddPart, p)
    /\ r' = modpow(argument, (OddPart + 1) \div 2, p)
    /\ stage' = "loop"
    /\ UNCHANGED <<p, x, non_qr, attempt, hint>>

\* How often t is squared until it is one, at most m times.
squarings ==
    LET ones == { i \in 0 .. m - 1 : modpow(t, 2^i, p) = 1 }
    IN  IF ones = {} THEN m ELSE CHOOSE i \in ones : \A j \in ones : i <= j

LoopReturns ==
    /\ stage = "loop"
    /\ \/ t = 0 /\ Some(0)
       \/ t = 1 /\ Some(r)
       \/ t \notin {0, 1} /\ squarings = m /\ None

\* Mutant of Round: m is left, as if it counted the rounds.
Round_m_kept ==
    /\ stage = "loop" /\ t \notin {0, 1} /\ squarings # m
    /\ LET b == modpow(c, 2^(m - squarings - 1), p)
       IN  /\ c' = (b * b) % p
           /\ t' = (t * b * b) % p
           /\ r' = (r * b) % p
           /\ UNCHANGED <<m, p, x, non_qr, attempt, stage, hint>>

\* Mutant of Round: c is multiplied by b instead of being its square.
Round_c_times_b ==
    /\ stage = "loop" /\ t \notin {0, 1} /\ squarings # m
    /\ LET b == modpow(c, 2^(m - squarings - 1), p)
       IN  /\ m' = squarings
           /\ c' = (c * b) % p
           /\ t' = (t * ((b * b) % p)) % p
           /\ r' = (r * b) % p
           /\ UNCHANGED <<p, x, non_qr, attempt, stage, hint>>

Round ==
    /\ stage = "loop" /\ t \notin {0, 1} /\ squarings # m
    /\ LET b == modpow(c, 2^(m - squarings - 1), p)
       IN  /\ m' = squarings
           /\ c' = (b * b) % p
           /\ t' = (t * ((b * b) % p)) % p
           /\ r' = (r * b) % p
           /\ UNCHANGED <<p, x, non_qr, attempt, stage, hint>>

Next == FastPath \/ Tonelli \/ LoopReturns \/ Round

\* The loop runs in the interpreter's one thread until it returns.
Spec == Init /\ [][Next]_vars /\ WF_vars(Next)

-----------------------------------------------------------------------------
IsRoot(y, a) == y \in 0 .. p - 1 /\ (y * y) % p = a % p

\* In every round r is a root of argument * t, t has an order that divides
\* 2^s, and c is one of the elements whose order is exactly 2^m: what makes
\* the next b exist and lets m fall.
LoopRelation ==
    stage = "loop"
      => /\ (r * r) % p = (argument * t) % p
         /\ m >= 1 => modpow(c, 2^(m - 1), p) = p - 1
         /\ t # 0 => modpow(t, 2^TwoAdicity, p) = 1
         /\ m < TwoAdicity => modpow(t, 2^(m - 1), p) = 1

\* The hint is evidence that the guest can check: a root of x; or a root of
\* x * non_qr, given only when x has none.  The second attempt always finds
\* its root, whether or not x is reduced, so that `expect` does not panic.
HintTrue ==
    /\ stage # "panic"
    /\ stage = "done" =>
          IF hint.flag = 1 THEN IsRoot(hint.root, x)
          ELSE IsRoot(hint.root, x * non_qr) /\ ~ \E y \in 0 .. p - 1 : IsRoot(y, x)

\* The host always answers: the loop ends, for both attempts together.
Answers == <>(stage = "done")
=============================================================================
