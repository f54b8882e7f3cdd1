-------------------------- MODULE AlgorithmProofs --------------------------
(***************************************************************************)
(* The hints, for every modulus, group and operand: the search of HintSqrt  *)
(* ends with a root or with the proof that there is none, and the witness   *)
(* of HintFinalExp convinces the guest exactly when the product of the      *)
(* pairings is one. Each has an inductive invariant that says what the      *)
(* handler's variables know of the answer.                                  *)
(***************************************************************************)
EXTENDS MC_Algorithms, NumberLemmas, Sequences

\* modpow squares and multiplies.
LEMMA ModpowIsPow ==
    ASSUME NEW n \in Nat, n >= 2, NEW b \in Int, NEW k \in Nat
    PROVE  Sqrt!modpow(b, k, n) = Pow(b, k) % n
<1> DEFINE g == CHOOSE g : SquaresMultiplies(g, b, n)
<1>1. SquaresMultiplies(g, b, n)
  BY SquareMultiply
<1>2. Sqrt!modpow(b, k, n) = g[k]
  BY DEF Sqrt!modpow, SquaresMultiplies
<1> QED
  BY <1>1, <1>2, SquareMultiply

\* Whatever find_non_qr_openvm returns is no square.
LEMMA NonResidueFound ==
    ASSUME NEW n, Prime(n), n > 2, NEW g \in Sqrt!find_non_qr(n)
    PROVE  g \in Int /\ Same(Pow(g, HalfPower(n)), -1, n)
<1>1. n \in Nat /\ n \in Nat \ {0} /\ HalfPower(n) \in Nat /\ n - 1 = 2 * HalfPower(n) /\ n >= 2
  BY Halved DEF HalfPower
<1>2. CASE n % 4 = 3
  <2>1. g = n - 1 /\ g \in Int /\ HalfPower(n) % 2 = 1
    <3>1. g = n - 1
      BY <1>2 DEF Sqrt!find_non_qr
    <3>2. HalfPower(n) % 2 = 1
      <4> DEFINE h == HalfPower(n)
      <4>1. h \in Nat /\ n = 2 * h + 1
        BY <1>1
      <4> HIDE DEF h
      <4>2. h % 2 = 1
        BY <1>2, <4>1
      <4> QED
        BY <4>2 DEF h
    <3> QED
      BY <1>1, <3>1, <3>2
  <2>2. Same(g, -1, n)
    BY <1>1, <2>1, Signs2
  <2> QED
    BY <1>1, <2>1, <2>2, MinusOnePowers
<1>3. CASE n % 4 # 3 /\ n % 8 = 5
  <2>1. g = 2
    BY <1>3 DEF Sqrt!find_non_qr
  <2> QED
    BY <1>3, <2>1, TwoNonresidue DEF HalfPower
<1>4. CASE n % 4 # 3 /\ n % 8 # 5
  <2>1. g \in 2 .. n - 2 /\ Sqrt!modpow(g, HalfPower(n), n) = n - 1
    BY <1>4 DEF Sqrt!find_non_qr, HalfPower
  <2>2. g \in Int
    BY <2>1
  <2>3. Pow(g, HalfPower(n)) \in Int /\ Pow(g, HalfPower(n)) % n = n - 1
    BY <1>1, <2>1, <2>2, ModpowIsPow, PowSteps
  <2> QED
    BY <1>1, <2>2, <2>3, Signs2
<1> QED
  BY <1>2, <1>3, <1>4

-----------------------------------------------------------------------------
\* TwoAdicity, OddPart and argument as functions of what they depend on.
Adicity(n) == CHOOSE e \in 1 .. n : (n - 1) % 2^e = 0 /\ ((n - 1) \div 2^e) % 2 = 1
Odd(n)     == (n - 1) \div 2^Adicity(n)

Argument(k, a, g, n) == IF k = 1 THEN a ELSE (a * g) % n

\* They are the operators of SqrtHint.
LEMMA Named == /\ Sqrt!TwoAdicity = Adicity(p) /\ Sqrt!OddPart = Odd(p)
               /\ Sqrt!argument = Argument(attempt, x, non_qr, p)
BY DEF Sqrt!TwoAdicity, Adicity, Sqrt!OddPart, Odd, Sqrt!argument, Argument

\* The exponent chosen exists, so the odd part is one.
LEMMA OddPartOf ==
    ASSUME NEW n, Prime(n), n > 2
    PROVE  Split(n, Adicity(n), Odd(n))
<1> DEFINE k == n - 1
           e == Adicity(n)
           l == 2^e
           q == Odd(n)
<1>1. k \in Nat \ {0} /\ k % 2 = 0 /\ k <= n /\ n \in Nat
  <2>1. n \in Nat /\ n % 2 = 1
    BY Halved
  <2> QED
    BY <2>1
<1>2. \E j \in 1 .. n : (n - 1) % 2^j = 0 /\ ((n - 1) \div 2^j) % 2 = 1
  <2>1. PICK j \in 1 .. k : k % 2^j = 0 /\ (k \div 2^j) % 2 = 1
    <3> HIDE DEF k
    <3> QED
      BY <1>1, TwoPart
  <2>2. j \in 1 .. n
    BY <1>1
  <2> QED
    BY <2>1, <2>2
<1>3. e \in 1 .. n /\ (n - 1) % 2^e = 0 /\ ((n - 1) \div 2^e) % 2 = 1
  BY <1>2 DEF Adicity
<1> HIDE DEF e
<1>4. e \in Nat \ {0} /\ l \in Nat \ {0}
  <2>1. e \in Nat \ {0}
    BY <1>1, <1>3
  <2> QED
    BY <2>1, TwoPowers
<1>5. q = k \div l /\ k % l = 0 /\ q % 2 = 1
  BY <1>3 DEF Odd, e
<1> HIDE DEF l, q
<1>6. k \in Int /\ q \in Int /\ k = l * q + 0
  <2> HIDE DEF k
  <2> QED
    BY <1>1, <1>4, <1>5, DivMod
<1>7. q >= 0 /\ n - 1 = l * q
  <2> DEFINE lq == l * q
  <2>1. lq \in Int
    BY <1>4, <1>6, Z3
  <2>2. q < 0 => lq < 0
    BY <1>4, <1>6, Z3
  <2> HIDE DEF lq, k
  <2>3. k = lq
    BY <1>6, <2>1 DEF lq
  <2>4. q >= 0
    BY <1>1, <1>6, <2>2, <2>3
  <2> QED
    BY <2>3, <2>4 DEF lq, k
<1> QED
  BY <1>4, <1>5, <1>6, <1>7 DEF Split, l, q, e

-----------------------------------------------------------------------------
\* The inductive invariant of HintSqrt: the second attempt is made only for an
\* x that is no square, the loop is in one of its rounds, and what was answered
\* is a root of the argument.
RootInv ==
    /\ p \in Primes /\ x \in Nat
    /\ non_qr \in Int /\ Same(Pow(non_qr, HalfPower(p)), -1, p)
    /\ attempt \in {1, 2} /\ stage \in {"call", "loop", "done"}
    /\ attempt = 2 => x % p # 0 /\ Same(Pow(x, HalfPower(p)), -1, p)
    /\ stage = "loop" => Round(p, Adicity(p), Odd(p), Argument(attempt, x, non_qr, p), m, c, t, r)
    /\ stage = "done" => /\ hint.flag = IF attempt = 1 THEN 1 ELSE 0
                         /\ hint.root \in 0 .. p - 1
                         /\ Same(hint.root * hint.root, Argument(attempt, x, non_qr, p), p)

\* The moduli of the table are odd primes.
LEMMA PrimesOfTable ==
    ASSUME NEW n \in Primes
    PROVE  Prime(n) /\ n > 2 /\ n \in Nat /\ n \in Nat \ {0} /\ n >= 2
BY AlgorithmsAssumption DEF Sqrt!PrimesAssumption, Prime

\* What the invariant says of the argument.
LEMMA ArgumentKnown ==
    ASSUME RootInv
    PROVE  LET a == Argument(attempt, x, non_qr, p)
           IN  /\ a \in Int
               /\ attempt = 1 => a = x
               /\ attempt = 2 => ~ Same(Pow(a, HalfPower(p)), -1, p)
<1>1. Prime(p) /\ p > 2 /\ p \in Nat \ {0} /\ x \in Int /\ non_qr \in Int /\ attempt \in {1, 2}
  BY PrimesOfTable DEF RootInv
<1>2. CASE attempt = 1
  BY <1>1, <1>2 DEF Argument
<1>3. CASE attempt = 2
  <2>1. Same(Pow(x, HalfPower(p)), -1, p) /\ Same(Pow(non_qr, HalfPower(p)), -1, p)
    BY <1>3 DEF RootInv
  <2>2. (x * non_qr) % p \in Int /\ ~ Same(Pow((x * non_qr) % p, HalfPower(p)), -1, p)
    BY <1>1, <2>1, TwoNonresidues
  <2> QED
    BY <1>3, <2>2 DEF Argument
<1> QED
  BY <1>1, <1>2, <1>3

\* The two ways mod_sqrt_openvm returns.
LEMMA SomeKeeps ==
    ASSUME RootInv, NEW y \in 0 .. p - 1, Same(y * y, Argument(attempt, x, non_qr, p), p),
           Sqrt!Some(y)
    PROVE  RootInv'
<1>1. /\ stage' = "done" /\ hint' = [flag |-> IF attempt = 1 THEN 1 ELSE 0, root |-> y]
      /\ p' = p /\ x' = x /\ non_qr' = non_qr /\ attempt' = attempt
  BY DEF Sqrt!Some
<1>2. hint'.flag = (IF attempt = 1 THEN 1 ELSE 0) /\ hint'.root = y
  BY <1>1
<1> QED
  BY <1>1, <1>2 DEF RootInv

\* Where the argument has no root, the second attempt begins.
LEMMA NoneKeeps ==
    ASSUME RootInv, Argument(attempt, x, non_qr, p) % p # 0,
           Same(Pow(Argument(attempt, x, non_qr, p), HalfPower(p)), -1, p), Sqrt!None
    PROVE  RootInv'
<1>1. attempt = 1 /\ Argument(attempt, x, non_qr, p) = x
  BY ArgumentKnown DEF RootInv
<1>2. stage' = "call" /\ attempt' = 2 /\ p' = p /\ x' = x /\ non_qr' = non_qr
  BY <1>1 DEF Sqrt!None
<1> QED
  BY <1>1, <1>2 DEF RootInv

\* The invariant holds when the hint is asked for.
LEMMA RootInit == ASSUME Sqrt!Init PROVE RootInv
<1>1. p \in Primes /\ attempt = 1 /\ stage = "call"
  BY DEF Sqrt!Init
<1>2. Prime(p) /\ p > 2 /\ p \in Nat
  BY <1>1, PrimesOfTable
<1>3. x \in Nat
  <2>1. x \in 0 .. p + Excess - 1 /\ Excess \in Nat
    BY AlgorithmsAssumption DEF Sqrt!Init, Sqrt!PrimesAssumption
  <2> QED
    BY <1>2, <2>1
<1>4. non_qr \in Int /\ Same(Pow(non_qr, HalfPower(p)), -1, p)
  <2>1. non_qr \in Sqrt!find_non_qr(p)
    BY DEF Sqrt!Init
  <2> QED
    BY <1>2, <2>1, NonResidueFound
<1> QED
  BY <1>1, <1>3, <1>4 DEF RootInv

\* A modulus that is 3 modulo 4: the root is a power of the argument.
LEMMA FastPathKeeps == ASSUME RootInv, Sqrt!FastPath PROVE RootInv'
<1> DEFINE a == Argument(attempt, x, non_qr, p)
           y == Pow(a, (p + 1) \div 4) % p
<1>1. Prime(p) /\ p > 2 /\ p \in Nat /\ p >= 2 /\ a \in Int /\ p % 4 = 3
  BY PrimesOfTable, ArgumentKnown DEF RootInv, Sqrt!FastPath
<1>2. IF (y * y) % p = a % p THEN Sqrt!Some(y) ELSE Sqrt!None
  <2>1. (p + 1) \div 4 \in Nat
    BY <1>1
  <2>2. Sqrt!modpow(a, (p + 1) \div 4, p) = y
    <3> HIDE DEF a
    <3> QED
      BY <1>1, <2>1, ModpowIsPow
  <2> HIDE DEF y
  <2> QED
    BY <2>2, Named DEF Sqrt!FastPath
<1>3. y \in 0 .. p - 1 /\ ((y * y) % p = a % p \/ (a % p # 0 /\ Same(Pow(a, HalfPower(p)), -1, p)))
  <2> HIDE DEF a
  <2> QED
    BY <1>1, FastRoot
<1> HIDE DEF y
<1>4. CASE (y * y) % p = a % p
  BY <1>2, <1>3, <1>4, SomeKeeps DEF Same
<1>5. CASE (y * y) % p # a % p
  BY <1>2, <1>3, <1>5, NoneKeeps
<1> QED
  BY <1>4, <1>5

\* Euler's criterion refuses the argument, or the loop begins with a round.
LEMMA TonelliKeeps == ASSUME RootInv, Sqrt!Tonelli PROVE RootInv'
<1> DEFINE a == Argument(attempt, x, non_qr, p)
           e == Adicity(p)
           q == Odd(p)
<1>1. /\ Prime(p) /\ p > 2 /\ p \in Nat /\ p >= 2 /\ a \in Int /\ non_qr \in Int
      /\ Same(Pow(non_qr, HalfPower(p)), -1, p)
  BY PrimesOfTable, ArgumentKnown DEF RootInv
<1>2. Split(p, e, q) /\ q \in Nat /\ (q + 1) \div 2 \in Nat
  <2>1. Split(p, e, q)
    BY <1>1, OddPartOf
  <2> HIDE DEF q
  <2>2. q \in Nat
    BY <2>1 DEF Split
  <2> QED
    BY <2>1, <2>2
<1>3. /\ m' = e /\ c' = Pow(non_qr, q) % p /\ t' = Pow(a, q) % p
      /\ r' = Pow(a, (q + 1) \div 2) % p
  <2> HIDE DEF a, e, q
  <2>1. /\ m' = e /\ c' = Sqrt!modpow(non_qr, q, p) /\ t' = Sqrt!modpow(a, q, p)
        /\ r' = Sqrt!modpow(a, (q + 1) \div 2, p)
    BY Named DEF Sqrt!Tonelli, a, e, q
  <2> QED
    BY <1>1, <1>2, <2>1, ModpowIsPow
<1>4. Round(p, e, q, a, e, Pow(non_qr, q) % p, Pow(a, q) % p, Pow(a, (q + 1) \div 2) % p)
  <2> HIDE DEF a, e, q
  <2> QED
    BY <1>1, <1>2, FirstRound DEF HalfPower
<1>5. Round(p, e, q, a, m', c', t', r')
  <2> HIDE DEF a, e, q
  <2> QED
    BY <1>3, <1>4
<1>6. /\ stage' = "loop" /\ p' = p /\ x' = x /\ non_qr' = non_qr /\ attempt' = attempt
  BY DEF Sqrt!Tonelli
<1> QED
  BY <1>5, <1>6 DEF RootInv

\* How often t is squared until it is one.
LEMMA SquaringsCounted ==
    ASSUME RootInv, stage = "loop"
    PROVE  /\ \/ Sqrt!squarings = m
              \/ Sqrt!squarings \in 0 .. m - 1 /\ Pow(t, 2^Sqrt!squarings) % p = 1
           /\ \A i \in 0 .. m - 1 :
                 Pow(t, 2^i) % p = 1 => Sqrt!squarings <= i /\ Sqrt!squarings # m
<1> DEFINE ones == { i \in 0 .. m - 1 : Sqrt!modpow(t, 2^i, p) = 1 }
           k == Sqrt!squarings
<1>1. p \in Nat /\ p >= 2 /\ t \in Int /\ m \in Nat
  <2>1. p \in Nat /\ p >= 2
    BY PrimesOfTable DEF RootInv
  <2>2. t \in 0 .. p - 1 /\ m \in 1 .. Adicity(p)
    BY DEF RootInv, Round
  <2> QED
    BY <2>1, <2>2
<1>2. \A i \in 0 .. m - 1 : 2^i \in Nat /\ Sqrt!modpow(t, 2^i, p) = Pow(t, 2^i) % p
  <2> SUFFICES ASSUME NEW i \in 0 .. m - 1
               PROVE  2^i \in Nat /\ Sqrt!modpow(t, 2^i, p) = Pow(t, 2^i) % p
    OBVIOUS
  <2>1. 2^i \in Nat
    BY TwoPowers
  <2> QED
    BY <1>1, <2>1, ModpowIsPow
<1>3. ones \in SUBSET Nat /\ ones \in SUBSET (0 .. m - 1)
  OBVIOUS
<1>4. k = IF ones = {} THEN m ELSE CHOOSE i \in ones : \A j \in ones : i <= j
  BY DEF Sqrt!squarings
<1>5. CASE ones = {}
  BY <1>2, <1>4, <1>5
<1>6. CASE ones # {}
  <2> HIDE DEF ones
  <2>1. \E i \in ones : \A j \in ones : i <= j
    BY <1>3, <1>6, Least
  <2>2. k \in ones /\ \A j \in ones : k <= j
    BY <1>4, <1>6, <2>1
  <2>3. k # m
    BY <1>1, <1>3, <2>2
  <2> HIDE DEF k
  <2>4. k \in 0 .. m - 1 /\ Pow(t, 2^k) % p = 1
    BY <1>2, <2>2 DEF ones
  <2>5. \A i \in 0 .. m - 1 : Pow(t, 2^i) % p = 1 => k <= i
    BY <1>2, <2>2 DEF ones
  <2> QED
    BY <2>3, <2>4, <2>5 DEF k
<1> QED
  BY <1>5, <1>6

\* The loop ends with a root.
LEMMA LoopReturnsKeeps == ASSUME RootInv, Sqrt!LoopReturns PROVE RootInv'
<1> DEFINE a == Argument(attempt, x, non_qr, p)
           e == Adicity(p)
           q == Odd(p)
<1>1. /\ Prime(p) /\ p > 2 /\ p \in Nat /\ p \in Nat \ {0} /\ a \in Int
      /\ Split(p, e, q) /\ stage = "loop" /\ Round(p, e, q, a, m, c, t, r)
  BY PrimesOfTable, ArgumentKnown, OddPartOf DEF RootInv, Sqrt!LoopReturns
<1>2. r \in 0 .. p - 1 /\ t \in 0 .. p - 1 /\ Same(r * r, a * t, p) /\ (t = 0 => a % p = 0)
  BY <1>1 DEF Round
<1>3. CASE t = 0 /\ Sqrt!Some(0)
  <2>1. 0 \in 0 .. p - 1 /\ 0 * 0 = 0 /\ 0 % p = 0
    <3>1. 0 \in 0 .. p - 1
      BY <1>1
    <3> QED
      BY <1>1, <3>1, Remainders
  <2>2. Same(0 * 0, a, p)
    BY <1>2, <1>3, <2>1 DEF Same
  <2> QED
    BY <1>3, <2>1, <2>2, SomeKeeps
<1>4. CASE t = 1 /\ Sqrt!Some(r)
  <2>1. a * 1 = a
    BY <1>1
  <2>2. Same(r * r, a, p)
    BY <1>2, <1>4, <2>1
  <2> QED
    BY <1>2, <1>4, <2>2, SomeKeeps
<1>5. CASE t \notin {0, 1} /\ Sqrt!squarings = m /\ Sqrt!None
  <2>1. \A i \in 0 .. m - 1 : Pow(t, 2^i) % p # 1
    BY <1>1, <1>5, SquaringsCounted
  <2>2. a % p # 0 /\ Same(Pow(a, HalfPower(p)), -1, p)
    <3> HIDE DEF a, e, q
    <3> QED
      BY <1>1, <1>5, <2>1, LastRound DEF HalfPower
  <2> QED
    BY <1>5, <2>2, NoneKeeps
<1> QED
  BY <1>3, <1>4, <1>5 DEF Sqrt!LoopReturns

\* One round of the loop is followed by another.
LEMMA RoundKeeps == ASSUME RootInv, Sqrt!Round PROVE RootInv'
<1> DEFINE a == Argument(attempt, x, non_qr, p)
           e == Adicity(p)
           q == Odd(p)
           j == Sqrt!squarings
           b == Pow(c, 2^(m - j - 1)) % p
<1>1. /\ Prime(p) /\ p > 2 /\ p \in Nat /\ p >= 2 /\ p \in Nat \ {0} /\ a \in Int
      /\ Split(p, e, q) /\ stage = "loop" /\ Round(p, e, q, a, m, c, t, r)
      /\ t # 0 /\ t # 1 /\ j # m
  BY PrimesOfTable, ArgumentKnown, OddPartOf DEF RootInv, Sqrt!Round
<1>2. /\ j \in 0 .. m - 1 /\ Pow(t, 2^j) % p = 1
      /\ \A k \in 0 .. m - 1 : Pow(t, 2^k) % p = 1 => j <= k
  BY <1>1, SquaringsCounted
<1>3. Sqrt!modpow(c, 2^(m - j - 1), p) = b
  <2>1. c \in Int /\ m \in Int
    BY <1>1 DEF Round
  <2> HIDE DEF j
  <2>2. m - j - 1 \in Nat
    BY <1>2, <2>1
  <2>3. 2^(m - j - 1) \in Nat
    BY <2>2, TwoPowers
  <2> QED
    BY <1>1, <2>1, <2>3, ModpowIsPow
<1>4. Round(p, e, q, a, j, (b * b) % p, (t * ((b * b) % p)) % p, (r * b) % p)
  <2>1. b = Pow(c, 2^(m - j - 1)) % p
    OBVIOUS
  <2> HIDE DEF a, e, q, j, b
  <2> QED
    BY <1>1, <1>2, <2>1, NextRound
<1>5. /\ m' = j /\ c' = (b * b) % p /\ t' = (t * ((b * b) % p)) % p /\ r' = (r * b) % p
      /\ stage' = "loop" /\ p' = p /\ x' = x /\ non_qr' = non_qr /\ attempt' = attempt
  BY <1>1, <1>3 DEF Sqrt!Round
<1>6. Round(p, e, q, a, m', c', t', r')
  <2> HIDE DEF a, e, q, j, b
  <2> QED
    BY <1>4, <1>5
<1> HIDE DEF j, b
<1> QED
  BY <1>5, <1>6 DEF RootInv

\* The invariant of the behaviours that run HintSqrt.
HintSqrtInv == routine = "HintSqrt" => RootInv

\* The invariant of HintSqrt is inductive.
THEOREM RootInvariant == Spec => []HintSqrtInv
<1>1. Init => HintSqrtInv
  BY RootInit DEF Init, HintSqrtInv
<1>2. ASSUME HintSqrtInv, [Next]_vars PROVE HintSqrtInv'
  <2>1. CASE UNCHANGED vars
    BY <1>2, <2>1 DEF vars, loop, HintSqrtInv, RootInv
  <2>2. CASE RootStep
    <3>1. routine = "HintSqrt" /\ Sqrt!Next
      BY <2>2 DEF RootStep
    <3>2. RootInv
      BY <1>2, <3>1 DEF HintSqrtInv
    <3>3. RootInv'
      BY <3>1, <3>2, FastPathKeeps, TonelliKeeps, LoopReturnsKeeps, RoundKeeps DEF Sqrt!Next
    <3> QED
      BY <3>3 DEF HintSqrtInv
  <2>3. CASE Bn254Step \/ Bls12381Step \/ KeccakStep
    BY <2>3 DEF Bn254Step, Bls12381Step, KeccakStep, HintSqrtInv
  <2> QED
    BY <1>2, <2>1, <2>2, <2>3 DEF Next
<1> QED
  BY <1>1, <1>2, PTL DEF Spec

\* What makes the next round possible holds in every round, for every prime.
THEOREM RoundsRelated == Spec => []LoopRelation
<1>1. ASSUME HintSqrtInv PROVE LoopRelation
  <2> SUFFICES ASSUME routine = "HintSqrt", stage = "loop"
               PROVE  Sqrt!LoopRelation
    BY DEF LoopRelation, Sqrt!LoopRelation
  <2> DEFINE a == Argument(attempt, x, non_qr, p)
             e == Adicity(p)
             q == Odd(p)
  <2>1. /\ Prime(p) /\ p > 2 /\ p \in Nat /\ p >= 2 /\ Split(p, e, q)
        /\ Round(p, e, q, a, m, c, t, r)
    BY <1>1, PrimesOfTable, OddPartOf DEF HintSqrtInv, RootInv
  <2>2. /\ m \in 1 .. e /\ e \in Nat /\ c \in Int /\ t \in Int /\ m - 1 \in Nat
    <3>1. e \in Nat
      BY <2>1 DEF Split
    <3> HIDE DEF e
    <3> QED
      BY <2>1, <3>1 DEF Round
  <2>3. 2^(m - 1) \in Nat /\ 2^e \in Nat
    BY <2>2, TwoPowers
  <2> HIDE DEF a, e, q
  <2>4. /\ Sqrt!modpow(c, 2^(m - 1), p) = Pow(c, 2^(m - 1)) % p
        /\ Sqrt!modpow(t, 2^(m - 1), p) = Pow(t, 2^(m - 1)) % p
        /\ Sqrt!modpow(t, 2^e, p) = Pow(t, 2^e) % p
    BY <2>1, <2>2, <2>3, ModpowIsPow
  <2>5. /\ Pow(c, 2^(m - 1)) \in Int /\ Pow(t, 2^(m - 1)) \in Int /\ Pow(t, 2^e) \in Int
    BY <2>2, <2>3, PowSteps
  <2>6. Sqrt!modpow(c, 2^(m - 1), p) = p - 1
    BY <2>1, <2>4, <2>5, Signs2 DEF Round
  <2>7. t # 0 => Sqrt!modpow(t, 2^e, p) = 1
    BY <2>1, <2>4, <2>5, Signs2 DEF Round
  <2>8. m < e => Sqrt!modpow(t, 2^(m - 1), p) = 1
    BY <2>1, <2>4, <2>5, Signs2 DEF Round
  <2>9. (r * r) % p = (a * t) % p
    BY <2>1 DEF Round, Same
  <2> QED
    BY <2>6, <2>7, <2>8, <2>9, Named DEF Sqrt!LoopRelation, a, e
<1> QED
  BY <1>1, RootInvariant, PTL

\* The hint is true, for every prime and every x.
THEOREM RootIsTrue == Spec => []HintTrue
<1>1. ASSUME HintSqrtInv PROVE HintTrue
  <2> SUFFICES ASSUME routine = "HintSqrt" PROVE Sqrt!HintTrue
    BY DEF HintTrue
  <2>1. RootInv
    BY <1>1 DEF HintSqrtInv
  <2>2. Prime(p) /\ p > 2 /\ p \in Nat /\ p \in Nat \ {0} /\ x \in Int /\ non_qr \in Int
        /\ attempt \in {1, 2}
    BY <2>1, PrimesOfTable DEF RootInv
  <2>3. stage # "panic"
    BY <2>1 DEF RootInv
  <2> DEFINE y == hint.root
  <2>4. CASE stage = "done"
    <3>1. /\ hint.flag = (IF attempt = 1 THEN 1 ELSE 0) /\ y \in 0 .. p - 1
          /\ Same(y * y, Argument(attempt, x, non_qr, p), p)
      BY <2>1, <2>4 DEF RootInv
    <3>2. CASE attempt = 1
      <4>1. hint.flag = 1 /\ Sqrt!IsRoot(y, x)
        BY <3>1, <3>2 DEF Argument, Same, Sqrt!IsRoot
      <4> QED
        BY <2>3, <4>1 DEF Sqrt!HintTrue
    <3>3. CASE attempt = 2
      <4>1. (y * y) % p = (x * non_qr) % p
        <5> DEFINE b == x * non_qr
        <5>1. b \in Int
          BY <2>2, Z3
        <5> HIDE DEF b, y
        <5>2. Same(b % p, b, p)
          BY <2>2, <5>1, SameRemainder
        <5> QED
          BY <3>1, <3>3, <5>2 DEF Argument, Same, b
      <4>2. ASSUME NEW z \in 0 .. p - 1, (z * z) % p = x % p PROVE FALSE
        <5>1. z \in Int /\ x % p # 0 /\ Same(Pow(x, HalfPower(p)), -1, p)
          BY <2>1, <3>3 DEF RootInv
        <5> QED
          BY <2>2, <4>2, <5>1, NoRootOf DEF Same
      <4>3. hint.flag # 1
        BY <3>1, <3>3
      <4>4. Sqrt!IsRoot(y, x * non_qr)
        BY <3>1, <4>1 DEF Sqrt!IsRoot
      <4>5. ~ \E z \in 0 .. p - 1 : Sqrt!IsRoot(z, x)
        BY <4>2 DEF Sqrt!IsRoot
      <4> HIDE DEF y
      <4> QED
        BY <2>3, <4>3, <4>4, <4>5 DEF Sqrt!HintTrue, y
    <3> QED
      BY <2>2, <3>2, <3>3
  <2> QED
    BY <2>3, <2>4 DEF Sqrt!HintTrue
<1> QED
  BY <1>1, RootInvariant, PTL

-----------------------------------------------------------------------------
\* No points, no pairing: the empty product is one.
SumsUp(g, as, bs) ==
    g = [i \in 0 .. Len(as) |-> IF i = 0 THEN 0 ELSE g[i - 1] + as[i] * bs[i]]

\* The sum over no points exists and is zero.
LEMMA EmptySum ==
    /\ \E g : SumsUp(g, <<>>, <<>>)
    /\ \A g : SumsUp(g, <<>>, <<>>) => g[Len(<<>>)] = 0
<1>1. Len(<<>>) = 0
  OBVIOUS
<1> DEFINE g == [i \in 0 .. 0 |-> 0]
<1>2. g = [i \in 0 .. 0 |-> IF i = 0 THEN 0 ELSE g[i - 1] + <<>>[i] * <<>>[i]]
  OBVIOUS
<1>3. SumsUp(g, <<>>, <<>>)
  BY <1>1, <1>2 DEF SumsUp
<1>4. ASSUME NEW h, SumsUp(h, <<>>, <<>>)
      PROVE  h[Len(<<>>)] = 0
  <2>1. h = [i \in 0 .. 0 |-> IF i = 0 THEN 0 ELSE h[i - 1] + <<>>[i] * <<>>[i]]
    BY <1>1, <1>4 DEF SumsUp
  <2>2. 0 \in 0 .. 0
    OBVIOUS
  <2>3. h[0] = 0
    BY <2>1, <2>2
  <2> QED
    BY <1>1, <2>3
<1> HIDE DEF g
<1> QED
  BY <1>3, <1>4

\* So it is in both groups.
LEMMA EmptyProducts ==
    /\ Bn254!PairingProduct(<<>>, <<>>) = 0
    /\ Bls12381!PairingProduct(<<>>, <<>>) = 0
<1> DEFINE g == CHOOSE g : SumsUp(g, <<>>, <<>>)
<1>1. g[Len(<<>>)] = 0
  BY EmptySum
<1>2. /\ Bn254!PairingProduct(<<>>, <<>>) = g[Len(<<>>)] % BN254.R
      /\ Bls12381!PairingProduct(<<>>, <<>>) = g[Len(<<>>)] % BLS12_381.R
  BY DEF Bn254!PairingProduct, Bls12381!PairingProduct, SumsUp
<1>3. /\ BN254.R \in Nat /\ BN254.R >= 2
      /\ BLS12_381.R \in Nat /\ BLS12_381.R >= 2
  BY AlgorithmsAssumption DEF Bn254!PairingAssumption, Bls12381!PairingAssumption
<1>4. \A n \in Nat : n >= 2 => 0 % n = 0
  <2>1. \A n \in Nat : n >= 2 => n \in Nat \ {0} /\ 0 \in 0 .. n - 1
    OBVIOUS
  <2> QED
    BY <2>1, Remainders
<1> HIDE DEF g
<1> QED
  BY <1>1, <1>2, <1>3, <1>4

-----------------------------------------------------------------------------
\* What the assumption says of the group of BN254 and of its literals.
LEMMA Bn254Numbers ==
    /\ BN254.GroupOrder \in Nat \ {0} /\ Prime(BN254.R) /\ BN254.R \in Nat \ {0}
    /\ BN254.GroupOrder \div BN254.R \in Nat \ {0}
    /\ BN254.GroupOrder = BN254.R * (BN254.GroupOrder \div BN254.R)
    /\ {BN254.S, BN254.M, BN254.M_INV, BN254.unity_root_27} \subseteq Nat
    /\ Bn254!R_INV \in Nat
    /\ Same(BN254.R * Bn254!R_INV, 1, BN254.GroupOrder \div BN254.R)
    /\ Same(BN254.M * BN254.M_INV, 1, BN254.GroupOrder \div BN254.R)
    /\ Multiple(BN254.unity_root_27, BN254.R)
<1> DEFINE G == BN254.GroupOrder
           N == BN254.R
           Q == G \div N
<1>1. /\ G \in Nat /\ N \in Nat /\ N >= 2 /\ \A d \in 2 .. N - 1 : N % d # 0
      /\ G % N = 0 /\ Q % N # 0
      /\ G = 27 * BN254.S /\ BN254.S % N = 0
      /\ (BN254.M * BN254.M_INV) % Q = 1 /\ BN254.unity_root_27 % BN254.S = 0
      /\ {BN254.S, BN254.M, BN254.M_INV, BN254.unity_root_27} \subseteq Nat
  BY AlgorithmsAssumption DEF Bn254!PairingAssumption, Bn254!Bn254Assumption
<1>2. Prime(N) /\ N \in Nat \ {0} /\ N \in Int /\ G \in Int
  BY <1>1 DEF Prime
<1> HIDE DEF G, N
<1>3. Q \in Int /\ G = N * Q + 0
  BY <1>1, <1>2, DivMod
<1>4. Q \in Nat \ {0}
  <2>1. Q # 0
    <3>1. 0 \in 0 .. N - 1
      BY <1>2
    <3> QED
      BY <1>1, <1>2, <3>1, Remainders
  <2>2. ~(Q < 0)
    <3> HIDE DEF Q
    <3>1. Q < 0 => N * Q < 0
      BY <1>2, <1>3, Z3
    <3>2. N * Q \in Int
      BY <1>2, <1>3, Z3
    <3> QED
      BY <1>1, <1>3, <3>1, <3>2
  <2> QED
    BY <1>3, <2>1, <2>2
<1>5. G = N * Q /\ G \in Nat \ {0}
  <2> HIDE DEF Q
  <2>1. N * Q \in Nat \ {0}
    BY <1>2, <1>4, Product
  <2> QED
    BY <1>3, <2>1
<1>6. Bn254!R_INV \in Nat /\ Same(N * Bn254!R_INV, 1, Q)
  <2>1. \E k \in 0 .. Q - 1 : (N * k) % Q = 1 % Q
    <3> HIDE DEF Q
    <3> QED
      BY <1>1, <1>2, <1>4, PrimeInverted DEF Q
  <2>2. Bn254!R_INV = CHOOSE k \in 0 .. Q - 1 : (N * k) % Q = 1 % Q
    BY DEF Bn254!R_INV, Bn254!inv_mod, G, N
  <2> HIDE DEF Q
  <2>3. Bn254!R_INV \in 0 .. Q - 1 /\ (N * Bn254!R_INV) % Q = 1 % Q
    BY <2>1, <2>2
  <2> QED
    BY <1>4, <2>3 DEF Same
<1>7. Same(BN254.M * BN254.M_INV, 1, Q)
  <2> HIDE DEF Q
  <2>1. (BN254.M * BN254.M_INV) % Q = 1
    BY <1>1 DEF Q
  <2>2. Q # 1
    <3>1. BN254.M * BN254.M_INV \in Int
      <4>1. BN254.M \in Int /\ BN254.M_INV \in Int
        BY <1>1
      <4> QED
        BY <4>1, Z3
    <3>2. (BN254.M * BN254.M_INV) % Q \in 0 .. Q - 1
      BY <1>4, <3>1, DivMod
    <3> QED
      BY <1>4, <2>1, <3>2
  <2>3. 1 % Q = 1
    <3>1. 1 \in 0 .. Q - 1
      BY <1>4, <2>2
    <3> QED
      BY <1>4, <3>1, Remainders
  <2> QED
    BY <2>1, <2>3 DEF Same
<1>8. Multiple(BN254.unity_root_27, N)
  <2>1. BN254.S \in Nat \ {0} /\ BN254.S \in Int /\ BN254.unity_root_27 \in Int
    <3>1. BN254.S # 0
      BY <1>1, <1>5
    <3> QED
      BY <1>1, <3>1
  <2>2. Multiple(BN254.S, N) /\ Multiple(BN254.unity_root_27, BN254.S)
    BY <1>1, <1>2, <2>1, MultipleIsZero
  <2> QED
    BY <1>2, <2>1, <2>2, MultipleChain
<1> QED
  BY <1>1, <1>2, <1>4, <1>5, <1>6, <1>7, <1>8 DEF G, N, Q

\* The operations on logarithms are those on integers modulo the order.
LEMMA Bn254Operations ==
    /\ Bn254!One = 0 /\ Bn254!Zero = -1 /\ Bn254!One \in Bn254!Units
    /\ Bn254!Zero \notin Bn254!Units
    /\ Bn254!Units = 0 .. BN254.GroupOrder - 1
    /\ \A v, w \in Bn254!Units : /\ Bn254!mul(v, w) = (v + w) % BN254.GroupOrder
                                 /\ Bn254!mul(v, w) \in Bn254!Units
    /\ \A v \in Nat : \A k \in Int : /\ Bn254!pow(v, k) = (v * k) % BN254.GroupOrder
                                     /\ Bn254!pow(v, k) \in Bn254!Units
    /\ \A v \in Bn254!Units : Bn254!inverse(v) = (-v) % BN254.GroupOrder /\ Bn254!inverse(v) \in Bn254!Units
    /\ \A v : Bn254!mul(Bn254!Zero, v) = Bn254!Zero
    /\ \A k : Bn254!pow(Bn254!Zero, k) = Bn254!Zero
<1> DEFINE G == BN254.GroupOrder
<1>1. G \in Nat \ {0}
  BY Bn254Numbers
<1>2. Bn254!Units = 0 .. G - 1 /\ Bn254!One = 0 /\ Bn254!Zero = -1
  BY DEF Bn254!Units, Bn254!One, Bn254!Zero
<1>3. \A i \in Int : i % G \in 0 .. G - 1
  <2> HIDE DEF G
  <2> QED
    BY <1>1, DivMod
<1>4. \A v \in 0 .. G - 1 : v # -1 /\ v \in Int
  BY <1>1
<1>5. ASSUME NEW v \in Bn254!Units, NEW w \in Bn254!Units
      PROVE  Bn254!mul(v, w) = (v + w) % G /\ Bn254!mul(v, w) \in Bn254!Units
  <2>1. Bn254!mul(v, w) = (v + w) % G
    BY <1>2, <1>4 DEF Bn254!mul
  <2>2. v + w \in Int
    BY <1>2, <1>4
  <2> QED
    BY <1>2, <1>3, <2>1, <2>2
<1>6. ASSUME NEW v \in Nat, NEW k \in Int
      PROVE  Bn254!pow(v, k) = (v * k) % G /\ Bn254!pow(v, k) \in Bn254!Units
  <2>1. Bn254!pow(v, k) = (v * k) % G
    BY <1>2 DEF Bn254!pow
  <2>2. v * k \in Int
    BY Z3
  <2> QED
    BY <1>2, <1>3, <2>1, <2>2
<1>7. ASSUME NEW v \in Bn254!Units
      PROVE  Bn254!inverse(v) = (-v) % G /\ Bn254!inverse(v) \in Bn254!Units
  <2>1. -v \in Int
    BY <1>2, <1>4
  <2> QED
    BY <1>2, <1>3, <2>1 DEF Bn254!inverse
<1>8. /\ \A v : Bn254!mul(Bn254!Zero, v) = Bn254!Zero
      /\ \A k : Bn254!pow(Bn254!Zero, k) = Bn254!Zero
  BY DEF Bn254!mul, Bn254!pow
<1>9. 0 \in 0 .. G - 1 /\ -1 \notin 0 .. G - 1
  BY <1>1
<1> QED
  BY <1>2, <1>5, <1>6, <1>7, <1>8, <1>9

-----------------------------------------------------------------------------
\* The inductive invariant of the hint for BN254: each stage has taken one more
\* root of f u, the error x3 of a guess not yet cubed belongs to it, and the
\* value of the Miller loops tells the product of the pairings.
Bn254Roots == Bn254!pow(Bn254!pow(Bn254!mul(f, u), Bn254!R_INV), BN254.M_INV)

Bn254Inv ==
    /\ f \in Bn254!Units \cup {Bn254!Zero}
    /\ u \in { Bn254!pow(BN254.unity_root_27, k) : k \in 0 .. 2 }
    /\ stage \in {"call", "CustomOp", "shift", "r-th root", "m-th root", "start", "search",
                  "done", "panic"}
    /\ stage \notin {"call", "CustomOp"} /\ f # Bn254!Zero
         => f % BN254.R = Bn254!PairingProduct(ps, qs)
    /\ stage = "call" => f = 0 /\ u = 0 /\ root = 0 /\ c = 0
    /\ stage = "r-th root" => root = Bn254!mul(f, u)
    /\ stage = "m-th root" => root = Bn254!pow(Bn254!mul(f, u), Bn254!R_INV)
    /\ stage \in {"start", "search", "done"} => root = Bn254Roots
    /\ stage = "search" =>
          /\ f # Bn254!Zero /\ x \in Bn254!Units /\ t \in Nat
          /\ t = 0 => x3 = Bn254!mul(Bn254!pow(x, 3), Bn254!inverse(root))
    /\ stage = "done" => f # Bn254!Zero /\ c \in Bn254!Units /\ Bn254!pow(c, 3) = root
    /\ stage = "panic" => f = Bn254!Zero

\* A power of a unit is a unit, and one of zero is zero.
LEMMA Bn254Powers ==
    ASSUME NEW w \in Bn254!Units \cup {Bn254!Zero}, NEW k \in Int
    PROVE  /\ Bn254!pow(w, k) \in Bn254!Units \cup {Bn254!Zero}
           /\ Bn254!pow(w, k) = Bn254!Zero <=> w = Bn254!Zero
<1>1. CASE w \in Bn254!Units
  <2>1. w \in Nat /\ w # Bn254!Zero
    BY <1>1, Bn254Numbers, Bn254Operations
  <2> QED
    BY <2>1, Bn254Operations
<1>2. CASE w = Bn254!Zero
  BY <1>2, Bn254Operations
<1> QED
  BY <1>1, <1>2

\* The powers of the root of unity are units, and no part of the product.
LEMMA Bn254Unity ==
    ASSUME NEW k \in Int
    PROVE  /\ Bn254!pow(BN254.unity_root_27, k) \in Bn254!Units
           /\ Multiple(Bn254!pow(BN254.unity_root_27, k), BN254.R)
<1> DEFINE G == BN254.GroupOrder
           N == BN254.R
           v == BN254.unity_root_27
           vk == v * k
<1>1. /\ G \in Nat \ {0} /\ N \in Nat \ {0} /\ G \div N \in Nat \ {0} /\ G = N * (G \div N)
      /\ v \in Nat /\ v \in Int /\ Multiple(v, N)
  BY Bn254Numbers
<1>2. Bn254!pow(v, k) = vk % G /\ Bn254!pow(v, k) \in Bn254!Units
  BY <1>1, Bn254Operations
<1> HIDE DEF G, N, v
<1>3. vk \in Int /\ Multiple(vk, N)
  <2>1. N \in Int
    BY <1>1
  <2> QED
    BY <1>1, <2>1, Multiples2
<1> HIDE DEF vk
<1> DEFINE w == vk % G
<1>4. w \in Int /\ Same(w, vk, G)
  BY <1>1, <1>3, SameRemainder
<1> HIDE DEF w
<1> DEFINE d == w - vk
<1>5. Multiple(d, G)
  BY <1>1, <1>3, <1>4, MultipleSame
<1>6. d \in Int /\ d + vk = w
  BY <1>3, <1>4
<1> HIDE DEF d
<1>7. Multiple(d, N)
  <2>1. Multiple(G, N) /\ N \in Int /\ G \in Int
    BY <1>1 DEF Multiple
  <2> QED
    BY <1>5, <1>6, <2>1, MultipleChain
<1>8. Multiple(w, N)
  <2>1. N \in Int
    BY <1>1
  <2> QED
    BY <1>3, <1>6, <1>7, <2>1, Multiples2
<1> QED
  BY <1>2, <1>8 DEF w, N, v

\* A number that vanishes after the subtraction of another is that one.
LEMMA Bn254ErrorOne ==
    ASSUME NEW v \in Bn254!Units, NEW w \in Bn254!Units, NEW e,
           e = Bn254!mul(v, Bn254!inverse(w)), e = Bn254!One
    PROVE  v = w
<1> DEFINE G == BN254.GroupOrder
           d == (-w) % G
<1>1. G \in Nat \ {0} /\ Bn254!Units = 0 .. G - 1
  BY Bn254Numbers, Bn254Operations
<1>2. Bn254!inverse(w) = d /\ d \in 0 .. G - 1 /\ (v + d) % G = 0
  <2>1. Bn254!inverse(w) = d /\ d \in Bn254!Units
    BY Bn254Operations
  <2> QED
    BY <1>1, <2>1, Bn254Operations, ZenonT(30)
<1>3. v \in Int /\ w \in Int /\ -w \in Int /\ v \in 0 .. G - 1 /\ w \in 0 .. G - 1
  BY <1>1
<1> HIDE DEF G
<1>4. Same(d, -w, G) /\ d \in Int
  BY <1>1, <1>3, SameRemainder
<1> HIDE DEF d
<1>5. Same(v, v, G)
  BY DEF Same
<1>6. Same(v + d, v + (-w), G)
  BY <1>1, <1>3, <1>4, <1>5, SameResults
<1>7. v + (-w) = v - w
  BY <1>3
<1>8. (v - w) % G = 0
  BY <1>2, <1>6, <1>7 DEF Same
<1>9. Same(v, w, G)
  BY <1>1, <1>3, <1>8, SameDifference
<1> QED
  BY <1>1, <1>3, <1>9, Remainders DEF Same

\* What the witness proves to the guest, from the roots that were taken.
LEMMA Bn254Witness ==
    ASSUME Bn254Inv, stage = "done"
    PROVE  Bn254!WitnessIffOne
<1> DEFINE G == BN254.GroupOrder
           N == BN254.R
           Q == G \div N
           i == Bn254!R_INV
           j == BN254.M_INV
           l == BN254.M
           fu == f + u
           w == fu % G
           wi == w * i
           v == wi % G
           vj == v * j
           c3 == c * 3
           cl == c * (3 * N * l)
<1>1. /\ G \in Nat \ {0} /\ N \in Nat \ {0} /\ Q \in Nat \ {0} /\ G = N * Q
      /\ i \in Nat /\ j \in Nat /\ l \in Nat /\ i \in Int /\ j \in Int /\ l \in Int
      /\ Same(N * i, 1, Q) /\ Same(l * j, 1, Q)
  BY Bn254Numbers
<1>2. /\ f \in Bn254!Units /\ c \in Bn254!Units /\ Bn254!pow(c, 3) = root /\ root = Bn254Roots
      /\ u \in { Bn254!pow(BN254.unity_root_27, k) : k \in 0 .. 2 }
      /\ f % N = Bn254!PairingProduct(ps, qs)
  BY DEF Bn254Inv
<1>3. u \in Bn254!Units /\ Multiple(u, N)
  <2>1. PICK k \in 0 .. 2 : u = Bn254!pow(BN254.unity_root_27, k)
    BY <1>2
  <2>2. k \in Int
    OBVIOUS
  <2> QED
    BY <2>1, <2>2, Bn254Unity
<1>4. Bn254!Units = 0 .. G - 1 /\ \A k \in Bn254!Units : k \in Nat /\ k \in Int
  BY <1>1, Bn254Operations
<1>5. f \in Int /\ u \in Int /\ c \in Int /\ c \in Nat
  BY <1>2, <1>3, <1>4
<1>6. Bn254!mul(f, u) = w /\ w \in Nat
  <2>1. Bn254!mul(f, u) = w /\ w \in Bn254!Units
    BY <1>2, <1>3, Bn254Operations, ZenonT(30)
  <2> HIDE DEF w
  <2> QED
    BY <1>4, <2>1
<1>7. Bn254!pow(w, i) = v /\ v \in Nat
  <2> HIDE DEF w
  <2>1. Bn254!pow(w, i) = v /\ v \in Bn254!Units
    BY <1>1, <1>6, Bn254Operations
  <2> HIDE DEF v
  <2> QED
    BY <1>4, <2>1
<1>8. root = vj % G /\ root = c3 % G
  <2>1. Bn254!pow(v, j) = vj % G
    <3> HIDE DEF v
    <3> QED
      BY <1>1, <1>7, Bn254Operations
  <2>2. root = Bn254!pow(v, j)
    BY <1>2, <1>6, <1>7 DEF Bn254Roots
  <2>3. Bn254!pow(c, 3) = c3 % G
    <3>1. 3 \in Int
      OBVIOUS
    <3> QED
      BY <1>5, <3>1, Bn254Operations
  <2> QED
    BY <1>2, <2>1, <2>2, <2>3
<1>9. fu \in Int /\ c3 \in Int
  BY <1>5
<1>10. Same(w, fu, G) /\ w \in Int
  <2> HIDE DEF fu, G
  <2> QED
    BY <1>1, <1>9, SameRemainder
<1>11. Same(c3, (fu * i) * j, G)
  <2> HIDE DEF fu, w, G, c3
  <2>1. wi \in Int /\ Same(i, i, G) /\ Same(j, j, G)
    BY <1>1, <1>10, Z3 DEF Same
  <2>2. Same(wi, fu * i, G) /\ fu * i \in Int
    <3>1. fu * i \in Int
      BY <1>1, <1>9, Z3
    <3> QED
      BY <1>1, <1>9, <1>10, <2>1, <3>1, SameResults
  <2>3. Same(v, wi, G) /\ v \in Int
    <3> HIDE DEF wi
    <3> QED
      BY <1>1, <2>1, SameRemainder
  <2>4. Same(v, fu * i, G)
    BY <2>2, <2>3 DEF Same
  <2> HIDE DEF v
  <2>5. Same(vj, (fu * i) * j, G)
    BY <1>1, <2>1, <2>2, <2>3, <2>4, SameResults
  <2> QED
    BY <1>8, <2>5 DEF Same
<1>12. Same(cl, fu, G) <=> Multiple(fu, N)
  <2> HIDE DEF fu, N, Q, i, j, l
  <2>1. Same(c * 3, (fu * i) * j, N * Q)
    BY <1>1, <1>11
  <2>2. Same(c * (3 * N * l), fu, N * Q) <=> Multiple(fu, N)
    BY <1>1, <1>5, <1>9, <2>1, PowerOfRoots
  <2> QED
    BY <1>1, <2>2
<1>13. Multiple(fu, N) <=> f % N = 0
  <2>1. fu - u = f /\ N \in Int
    BY <1>1, <1>5
  <2>2. Multiple(f, N) => Multiple(fu, N)
    BY <1>3, <1>5, <2>1, Multiples2
  <2>3. Multiple(fu, N) => Multiple(fu - u, N)
    <3> HIDE DEF fu
    <3> QED
      BY <1>3, <1>5, <1>9, <2>1, Multiples2
  <2>4. f % N = 0 <=> Multiple(f, N)
    BY <1>1, <1>5, MultipleIsZero
  <2> QED
    BY <2>1, <2>2, <2>3, <2>4
<1>14. Bn254!pow(c, Bn254!lambda) = cl % G
  <2>1. Bn254!lambda = 3 * N * l
    BY DEF Bn254!lambda
  <2>2. 3 * N * l \in Int
    <3> HIDE DEF N, l
    <3>1. 3 * N \in Int
      BY <1>1
    <3> QED
      BY <1>1, <3>1, Z3
  <2> QED
    BY <1>5, <2>1, <2>2, Bn254Operations
<1>15. (Bn254!pow(c, Bn254!lambda) = Bn254!mul(f, u)) <=> (Bn254!PairingProduct(ps, qs) = 0)
  <2>1. cl % G = w <=> Same(cl, fu, G)
    BY DEF Same
  <2> HIDE DEF cl, w, fu
  <2> QED
    BY <1>2, <1>6, <1>12, <1>13, <1>14, <2>1
<1> QED
  BY <1>2, <1>15 DEF Bn254!WitnessIffOne

-----------------------------------------------------------------------------
\* One step for each action of the search.
LEMMA Bn254Keeps ==
    ASSUME Bn254Inv, Bn254!Next
    PROVE  Bn254Inv'
<1> DEFINE Values == Bn254!Units \cup {Bn254!Zero}
           N == BN254.R
<1>1. /\ Bn254!R_INV \in Int /\ BN254.M_INV \in Int /\ BN254.S \in Int
      /\ N \in Nat \ {0} /\ BN254.GroupOrder \in Nat \ {0}
      /\ \A w \in Bn254!Units : w \in Nat /\ w \in Int
  <2>1. \A g \in Nat : \A w \in 0 .. g - 1 : w \in Nat /\ w \in Int
    OBVIOUS
  <2>2. BN254.M_INV \in Nat /\ BN254.S \in Nat /\ Bn254!R_INV \in Nat
    BY Bn254Numbers
  <2>3. \A k \in Nat : k \in Int
    OBVIOUS
  <2> QED
    BY <2>1, <2>2, <2>3, Bn254Numbers, Bn254Operations
<1>2. u \in Bn254!Units
  <2>1. PICK k \in 0 .. 2 : u = Bn254!pow(BN254.unity_root_27, k)
    BY DEF Bn254Inv
  <2>2. k \in Int
    OBVIOUS
  <2> QED
    BY <2>1, <2>2, Bn254Unity
<1>3. f \in Values /\ (f = Bn254!Zero => Bn254!mul(f, u) = Bn254!Zero)
      /\ (f # Bn254!Zero => Bn254!mul(f, u) \in Bn254!Units)
  BY <1>2, Bn254Operations DEF Bn254Inv
<1>4. Bn254Roots \in Values /\ (Bn254Roots = Bn254!Zero <=> f = Bn254!Zero)
  <2> DEFINE w == Bn254!mul(f, u)
             v == Bn254!pow(w, Bn254!R_INV)
  <2>1. w \in Values /\ (w = Bn254!Zero <=> f = Bn254!Zero)
    BY <1>3, Bn254Operations
  <2> HIDE DEF w
  <2>2. v \in Values /\ (v = Bn254!Zero <=> w = Bn254!Zero)
    BY <1>1, <2>1, Bn254Powers
  <2> HIDE DEF v
  <2>3. /\ Bn254!pow(v, BN254.M_INV) \in Values
        /\ Bn254!pow(v, BN254.M_INV) = Bn254!Zero <=> v = Bn254!Zero
    BY <1>1, <2>2, Bn254Powers
  <2> QED
    BY <2>1, <2>2, <2>3 DEF v, w, Bn254Roots
<1>5. CASE Bn254!Lengths
  <2>0. /\ stage = "call" /\ u' = u /\ root' = root /\ c' = c /\ ps' = ps /\ qs' = qs
        /\ f = 0 /\ u = 0 /\ root = 0 /\ c = 0
    BY <1>5 DEF Bn254!Lengths, Bn254Inv
  <2>1. CASE stage' = "CustomOp" /\ f' = f
    BY <2>0, <2>1 DEF Bn254Inv
  <2>2. CASE ps = <<>> /\ qs = <<>> /\ stage' = "done" /\ f' = f
    <3>1. Bn254!PairingProduct(ps', qs') = 0
      BY <2>0, <2>2, EmptyProducts
    <3>2. 0 % N = 0 /\ 0 % BN254.GroupOrder = 0 /\ \A k \in Int : 0 * k = 0
      <4>1. 0 \in 0 .. N - 1 /\ 0 \in 0 .. BN254.GroupOrder - 1
        BY <1>1
      <4> QED
        BY <1>1, <4>1, Remainders
    <3>3. \A k \in Int : Bn254!pow(0, k) = 0
      <4>1. 0 \in Nat
        OBVIOUS
      <4> QED
        BY <3>2, <4>1, Bn254Operations
    <3>4. 0 \in Bn254!Units /\ Bn254!mul(0, 0) = 0 /\ Bn254!Zero # 0
      <4>1. 0 \in Bn254!Units /\ 0 + 0 = 0
        BY Bn254Operations
      <4> QED
        BY <3>2, <4>1, Bn254Operations
    <3>5. Bn254Roots' = 0
      <4>1. f' = 0 /\ u' = 0
        BY <2>0, <2>2
      <4> QED
        BY <1>1, <3>3, <3>4, <4>1 DEF Bn254Roots, Bn254!R_INV, Bn254!inv_mod
    <3>6. u' \in { Bn254!pow(BN254.unity_root_27, k) : k \in 0 .. 2 }
      BY <2>0 DEF Bn254Inv
    <3>7. f' = 0 /\ u' = 0 /\ root' = 0 /\ c' = 0 /\ stage' = "done"
      BY <2>0, <2>2
    <3>8. f' % BN254.R = 0
      BY <3>2, <3>7
    <3>9. Bn254!pow(c', 3) = root'
      BY <3>3, <3>7
    <3> QED
      BY <3>1, <3>4, <3>5, <3>6, <3>7, <3>8, <3>9 DEF Bn254Inv
  <2>3. CASE /\ f' \in Bn254!multi_miller_loop(Bn254!PairingProduct(ps, qs)) \cup {Bn254!Zero}
             /\ stage' = "shift"
    BY <2>0, <2>3 DEF Bn254Inv, Bn254!multi_miller_loop
  <2> QED
    BY <1>5, <2>1, <2>2, <2>3 DEF Bn254!Lengths
<1>6. CASE Bn254!Shift
  <2>1. PICK k \in 0 .. 2 : /\ u' = Bn254!pow(BN254.unity_root_27, k)
                            /\ root' = Bn254!mul(f, u')
    <3> DEFINE k == IF Bn254!pow(f, Bn254!EXP1) = Bn254!One THEN 0
                    ELSE IF Bn254!pow(Bn254!mul(f, BN254.unity_root_27), Bn254!EXP1) = Bn254!One
                         THEN 1 ELSE 2
    <3>1. /\ u' = Bn254!pow(BN254.unity_root_27, k)
          /\ root' = Bn254!mul(f, Bn254!pow(BN254.unity_root_27, k))
      BY <1>6 DEF Bn254!Shift
    <3>2. k \in 0 .. 2
      OBVIOUS
    <3> HIDE DEF k
    <3> QED
      BY <3>1, <3>2
  <2>2. /\ stage = "shift" /\ stage' = "r-th root"
        /\ f' = f /\ ps' = ps /\ qs' = qs
    BY <1>6 DEF Bn254!Shift
  <2> QED
    BY <2>1, <2>2 DEF Bn254Inv
<1>7. CASE Bn254!RthRoot
  BY <1>7 DEF Bn254!RthRoot, Bn254Inv
<1>8. CASE Bn254!MthRoot
  BY <1>8 DEF Bn254!MthRoot, Bn254Inv, Bn254Roots
<1>9. CASE Bn254!Start
  <2>1. stage = "start" /\ root = Bn254Roots
    BY <1>9 DEF Bn254!Start, Bn254Inv
  <2>2. CASE root = Bn254!Zero
    <3>1. f = Bn254!Zero
      BY <1>4, <2>1, <2>2
    <3> QED
      BY <1>9, <2>1, <2>2, <3>1 DEF Bn254!Start, Bn254Inv
  <2>3. CASE root # Bn254!Zero
    <3>1. /\ stage' = "search" /\ x' = Bn254!pow(root, Bn254!EXP2) /\ t' = 0
          /\ x3' = Bn254!mul(Bn254!pow(x', 3), Bn254!inverse(root))
          /\ ps' = ps /\ qs' = qs /\ f' = f /\ root' = root /\ u' = u
      BY <1>9, <2>3 DEF Bn254!Start, Bn254!Guess
    <3>2. f # Bn254!Zero /\ root \in Bn254!Units
      BY <1>4, <2>1, <2>3
    <3>3. Bn254!EXP2 \in Int
      BY <1>1 DEF Bn254!EXP2
    <3>4. x' \in Bn254!Units
      BY <1>1, <3>1, <3>2, <3>3, Bn254Operations
    <3>5. Bn254Roots' = Bn254Roots
      BY <3>1 DEF Bn254Roots, Bn254!R_INV, Bn254!inv_mod
    <3> QED
      BY <2>1, <3>1, <3>2, <3>4, <3>5 DEF Bn254Inv
  <2> QED
    BY <2>2, <2>3
<1>10. CASE Bn254!CubeError
  <2>1. /\ stage = "search" /\ stage' = "search" /\ t' = t + 1 /\ t \in Nat
        /\ ps' = ps /\ qs' = qs /\ f' = f /\ root' = root /\ u' = u /\ x' = x
    BY <1>10 DEF Bn254!CubeError, Bn254Inv
  <2>2. t' \in Nat /\ t' # 0
    BY <2>1
  <2>3. Bn254Roots' = Bn254Roots
    BY <2>1 DEF Bn254Roots, Bn254!R_INV, Bn254!inv_mod
  <2> QED
    BY <2>1, <2>2, <2>3 DEF Bn254Inv
<1>11. CASE Bn254!NextGuess
  <2>1. /\ stage = "search" /\ stage' = "search" /\ t' = 0
        /\ x' = Bn254!mul(x, Bn254!pow(BN254.unity_root_27, Bn254!EXP2))
        /\ x3' = Bn254!mul(Bn254!pow(x', 3), Bn254!inverse(root))
        /\ ps' = ps /\ qs' = qs /\ f' = f /\ root' = root /\ u' = u
    BY <1>11 DEF Bn254!NextGuess, Bn254!Guess
  <2>2. Bn254!EXP2 \in Int
    BY <1>1 DEF Bn254!EXP2
  <2>3. x \in Bn254!Units
    BY <2>1 DEF Bn254Inv
  <2>4. x' \in Bn254!Units
    BY <2>1, <2>2, <2>3, Bn254Unity, Bn254Operations
  <2>5. Bn254Roots' = Bn254Roots
    BY <2>1 DEF Bn254Roots, Bn254!R_INV, Bn254!inv_mod
  <2> QED
    BY <2>1, <2>4, <2>5 DEF Bn254Inv
<1>12. CASE Bn254!Found
  <2>1. /\ stage = "search" /\ stage' = "done" /\ x3 = Bn254!One /\ t = 0 /\ c' = x
        /\ ps' = ps /\ qs' = qs /\ f' = f /\ root' = root /\ u' = u
    BY <1>12 DEF Bn254!Found
  <2>2. /\ x \in Bn254!Units /\ f # Bn254!Zero /\ root = Bn254Roots
        /\ x3 = Bn254!mul(Bn254!pow(x, 3), Bn254!inverse(root))
    BY <2>1 DEF Bn254Inv
  <2>3. root \in Bn254!Units /\ Bn254!pow(x, 3) \in Bn254!Units
    <3>1. 3 \in Int
      OBVIOUS
    <3> QED
      BY <1>1, <1>4, <2>2, <3>1, Bn254Operations
  <2>4. Bn254!pow(x, 3) = root
    BY <2>1, <2>2, <2>3, Bn254ErrorOne
  <2>5. Bn254Roots' = Bn254Roots
    BY <2>1 DEF Bn254Roots, Bn254!R_INV, Bn254!inv_mod
  <2> QED
    BY <2>1, <2>2, <2>4, <2>5 DEF Bn254Inv
<1> QED
  BY <1>5, <1>6, <1>7, <1>8, <1>9, <1>10, <1>11, <1>12 DEF Bn254!Next

\* The invariant of the BN254 client.
Bn254Client == routine = "HintFinalExp BN254" => Bn254Inv

\* The invariant of the hint for BN254 is inductive.
LEMMA Bn254Invariant == Spec => []Bn254Client
<1>1. ASSUME Bn254!Init PROVE Bn254Inv
  <2>1. Bn254!Init
    BY <1>1
  <2>2. stage = "call" /\ f = 0 /\ u = 0 /\ root = 0 /\ c = 0 /\ 0 \in Bn254!Units
    BY <2>1, Bn254Operations DEF Bn254!Init
  <2>3. Bn254!pow(BN254.unity_root_27, 0) = 0 /\ 0 \in 0 .. 2
    <3> DEFINE G == BN254.GroupOrder
               v == BN254.unity_root_27
    <3>1. v \in Nat /\ G \in Nat \ {0}
      BY Bn254Numbers
    <3>2. 0 \in Int /\ 0 \in 0 .. 2
      OBVIOUS
    <3>3. Bn254!pow(v, 0) = (v * 0) % G
      BY <3>1, <3>2, Bn254Operations
    <3> HIDE DEF G, v
    <3>4. v * 0 = 0 /\ 0 \in 0 .. G - 1
      BY <3>1
    <3>5. 0 % G = 0
      BY <3>1, <3>4, Remainders
    <3>6. Bn254!pow(v, 0) = 0
      BY <3>3, <3>4, <3>5
    <3> QED
      BY <3>2, <3>6 DEF v
  <2> QED
    BY <2>2, <2>3 DEF Bn254Inv
<1>2. Init => Bn254Client
  BY <1>1, Zenon DEF Init, Bn254Client
<1>3. ASSUME Bn254Inv, UNCHANGED vars PROVE Bn254Inv'
  BY <1>3 DEF vars, pairing, loop, Bn254Inv, Bn254Roots, Bn254!R_INV, Bn254!inv_mod
<1>4. ASSUME Bn254Client, [Next]_vars
      PROVE  Bn254Client'
  <2>1. CASE UNCHANGED vars
    <3>1. routine' = routine
      BY <2>1 DEF vars
    <3> QED
      BY <1>3, <1>4, <2>1, <3>1, Zenon DEF Bn254Client
  <2>2. CASE Next
    <3>1. routine' = routine /\ (routine = "HintFinalExp BN254" => Bn254!Next)
      BY <2>2, Zenon DEF Next, RootStep, Bn254Step, Bls12381Step, KeccakStep
    <3> QED
      BY <1>4, <3>1, Bn254Keeps, Zenon DEF Bn254Client
  <2> QED
    BY <1>4, <2>1, <2>2
<1> QED
  BY <1>2, <1>4, PTL DEF Spec

\* The hint for BN254 convinces the guest exactly when the product of the
\* pairings is one, for every group and every literals of the kind assumed.
THEOREM Bn254WitnessIsTrue == Spec => []Bn254WitnessIffOne
<1>1. Bn254Client => Bn254WitnessIffOne
  <2>1. ASSUME Bn254Inv PROVE Bn254!WitnessIffOne
    <3>1. CASE stage = "done"
      BY <2>1, <3>1, Bn254Witness
    <3>2. CASE stage # "done"
      BY <2>1, <3>2 DEF Bn254Inv, Bn254!WitnessIffOne
    <3> QED
      BY <3>1, <3>2
  <2> QED
    BY <2>1 DEF Bn254Client, Bn254WitnessIffOne
<1> QED
  BY <1>1, Bn254Invariant, PTL

-----------------------------------------------------------------------------
\* An inverse below the modulus, from one up to it.
LEMMA InverseChosen ==
    ASSUME NEW n \in Nat \ {0}, NEW v \in Int, \E k \in 1 .. n : (v * k) % n = 1
    PROVE  /\ Bls12381!inv_mod(v, n) \in Nat
           /\ Same(v * Bls12381!inv_mod(v, n), 1, n)
<1>1. PICK k \in 1 .. n : (v * k) % n = 1
  OBVIOUS
<1> DEFINE l == k % n
           w == Bls12381!inv_mod(v, n)
<1>2. k \in Int /\ l \in 0 .. n - 1 /\ (v * l) % n = (v * k) % n
  <2>1. k \in Int
    OBVIOUS
  <2> QED
    BY <2>1, Reduced
<1>3. 1 % n = 1
  <2>1. (v * k) \in Int
    BY <1>2, Z3
  <2>2. (v * k) % n \in 0 .. n - 1
    BY <2>1, DivMod
  <2>3. 1 \in 0 .. n - 1
    BY <1>1, <2>2
  <2> QED
    BY <2>3, Remainders
<1> HIDE DEF l
<1>4. \E j \in 0 .. n - 1 : (v * j) % n = 1 % n
  BY <1>1, <1>2, <1>3
<1>5. w \in 0 .. n - 1 /\ (v * w) % n = 1 % n
  BY <1>4 DEF Bls12381!inv_mod
<1> HIDE DEF w
<1>6. w \in Nat
  BY <1>5
<1> QED
  BY <1>5, <1>6 DEF Same, w

\* What the assumption says of the group of BLS12-381 and of its literals.
LEMMA Bls12381Numbers ==
    /\ BLS12_381.GroupOrder \in Nat \ {0} /\ BLS12_381.R \in Nat \ {0}
    /\ BLS12_381.poly_factor \in Nat \ {0} /\ BLS12_381.final_exp_factor \in Nat \ {0}
    /\ BLS12_381.lambda \in Nat
    /\ BLS12_381.GroupOrder
         = BLS12_381.R * 27 * BLS12_381.poly_factor * BLS12_381.final_exp_factor
    /\ Bls12381!times27_mod_poly \in Nat /\ Bls12381!lambda_inv \in Nat
    /\ Same(27 * BLS12_381.final_exp_factor * Bls12381!times27_mod_poly, 1,
            BLS12_381.poly_factor)
    /\ Same(10 * BLS12_381.final_exp_factor * BLS12_381.poly_factor, 1, 27)
    /\ Same(BLS12_381.lambda * Bls12381!lambda_inv, 1, BLS12_381.final_exp_factor)
    /\ Multiple(BLS12_381.lambda, BLS12_381.R)
<1> DEFINE G == BLS12_381.GroupOrder
           N == BLS12_381.R
           P == BLS12_381.poly_factor
           E == BLS12_381.final_exp_factor
           L == BLS12_381.lambda
<1>1. /\ G \in Nat /\ N \in Nat /\ N >= 2 /\ P \in Nat /\ E \in Nat /\ L \in Nat
      /\ (G \div N) % N # 0 /\ G = N * 27 * P * E
      /\ (10 * E * P) % 27 = 1 /\ L % N = 0
      /\ \E k \in 1 .. P : (27 * E * k) % P = 1
      /\ \E k \in 1 .. E : (L * k) % E = 1
  BY AlgorithmsAssumption DEF Bls12381!PairingAssumption, Bls12381!Bls12381Assumption
<1> HIDE DEF G, N, P, E, L
<1>2. P \in Nat \ {0} /\ E \in Nat \ {0} /\ N \in Nat \ {0}
  <2>1. \A n \in Nat : (\E k \in 1 .. n : TRUE) => n # 0
    OBVIOUS
  <2> QED
    BY <1>1, <2>1
<1>3. G \in Nat \ {0}
  <2>1. N * 27 \in Nat \ {0}
    BY <1>2
  <2>2. N * 27 * P \in Nat \ {0}
    BY <1>2, <2>1, Product
  <2>3. N * 27 * P * E \in Nat \ {0}
    BY <1>2, <2>2, Product
  <2> QED
    BY <1>1, <2>3
<1>4. Bls12381!times27_mod_poly \in Nat /\ Same(27 * E * Bls12381!times27_mod_poly, 1, P)
  <2>1. 27 * E \in Int /\ \E k \in 1 .. P : ((27 * E) * k) % P = 1
    <3>1. 27 * E \in Int
      BY <1>1
    <3>2. \E k \in 1 .. P : ((27 * E) * k) % P = 1
      BY <1>1
    <3> QED
      BY <3>1, <3>2
  <2>2. /\ Bls12381!inv_mod(27 * E, P) \in Nat
        /\ Same((27 * E) * Bls12381!inv_mod(27 * E, P), 1, P)
    BY <1>2, <2>1, InverseChosen
  <2> QED
    BY <2>2 DEF Bls12381!times27_mod_poly, E, P
<1>5. Bls12381!lambda_inv \in Nat /\ Same(L * Bls12381!lambda_inv, 1, E)
  <2>1. L \in Int
    BY <1>1
  <2>2. /\ Bls12381!inv_mod(L, E) \in Nat
        /\ Same(L * Bls12381!inv_mod(L, E), 1, E)
    BY <1>1, <1>2, <2>1, InverseChosen
  <2> QED
    BY <2>2 DEF Bls12381!lambda_inv, L, E
<1>6. Same(10 * E * P, 1, 27)
  <2>1. 1 % 27 = 1
    OBVIOUS
  <2> QED
    BY <1>1, <2>1 DEF Same
<1>7. Multiple(L, N)
  <2>1. L \in Int
    BY <1>1
  <2> QED
    BY <1>1, <1>2, <2>1, MultipleIsZero
<1> QED
  BY <1>1, <1>2, <1>3, <1>4, <1>5, <1>6, <1>7 DEF G, N, P, E, L

\* The operations on logarithms are those on integers modulo the order.
LEMMA Bls12381Operations ==
    /\ Bls12381!One = 0 /\ Bls12381!Zero = -1 /\ Bls12381!One \in Bls12381!Units
    /\ Bls12381!Zero \notin Bls12381!Units
    /\ Bls12381!Units = 0 .. BLS12_381.GroupOrder - 1
    /\ \A v \in Bls12381!Units : v \in Nat /\ v \in Int
    /\ \A v, w \in Bls12381!Units : /\ Bls12381!mul(v, w) = (v + w) % BLS12_381.GroupOrder
                                    /\ Bls12381!mul(v, w) \in Bls12381!Units
    /\ \A v \in Bls12381!Units : \A k \in Int :
          /\ Bls12381!pow(v, k) = (v * k) % BLS12_381.GroupOrder
          /\ Bls12381!pow(v, k) \in Bls12381!Units
    /\ \A v \in Bls12381!Units : /\ Bls12381!inverse(v) = (-v) % BLS12_381.GroupOrder
                                 /\ Bls12381!inverse(v) \in Bls12381!Units
<1> DEFINE G == BLS12_381.GroupOrder
<1>1. G \in Nat \ {0}
  BY Bls12381Numbers
<1>2. Bls12381!Units = 0 .. G - 1 /\ Bls12381!One = 0 /\ Bls12381!Zero = -1
  BY DEF Bls12381!Units, Bls12381!One, Bls12381!Zero
<1>3. \A i \in Int : i % G \in 0 .. G - 1
  <2> HIDE DEF G
  <2> QED
    BY <1>1, DivMod
<1>4. \A v \in 0 .. G - 1 : v # -1 /\ v \in Int /\ v \in Nat
  BY <1>1
<1>5. ASSUME NEW v \in Bls12381!Units, NEW w \in Bls12381!Units
      PROVE  Bls12381!mul(v, w) = (v + w) % G /\ Bls12381!mul(v, w) \in Bls12381!Units
  <2>1. Bls12381!mul(v, w) = (v + w) % G
    BY <1>2, <1>4 DEF Bls12381!mul
  <2>2. v + w \in Int
    BY <1>2, <1>4
  <2> QED
    BY <1>2, <1>3, <2>1, <2>2
<1>6. ASSUME NEW v \in Bls12381!Units, NEW k \in Int
      PROVE  Bls12381!pow(v, k) = (v * k) % G /\ Bls12381!pow(v, k) \in Bls12381!Units
  <2>1. Bls12381!pow(v, k) = (v * k) % G
    BY <1>2, <1>4 DEF Bls12381!pow
  <2>2. v * k \in Int
    <3>1. v \in Int
      BY <1>2, <1>4
    <3> QED
      BY <3>1, Z3
  <2> QED
    BY <1>2, <1>3, <2>1, <2>2
<1>7. ASSUME NEW v \in Bls12381!Units
      PROVE  Bls12381!inverse(v) = (-v) % G /\ Bls12381!inverse(v) \in Bls12381!Units
  <2>1. -v \in Int
    BY <1>2, <1>4
  <2> QED
    BY <1>2, <1>3, <2>1 DEF Bls12381!inverse
<1>8. 0 \in 0 .. G - 1 /\ -1 \notin 0 .. G - 1
  BY <1>1
<1> QED
  BY <1>2, <1>4, <1>5, <1>6, <1>7, <1>8

-----------------------------------------------------------------------------
\* The inductive invariant of the hint for BLS12-381: the value of the Miller
\* loops tells the product of the pairings, and the witness is computed from it.
Bls12381Inv ==
    /\ f \in Bls12381!Units \cup {Bls12381!Zero}
    /\ stage \in {"call", "CustomOp", "witness", "done", "panic"}
    /\ stage = "call" => f = 0 /\ c = 0 /\ s = 0
    /\ stage \in {"witness", "done"} /\ f # Bls12381!Zero
          => f % BLS12_381.R = Bls12381!PairingProduct(ps, qs)
    /\ stage = "done" =>
          /\ f # Bls12381!Zero
          /\ s = Bls12381!mul(Bls12381!root_pth_inv, Bls12381!root_27th_inv)
          /\ c = Bls12381!pow(Bls12381!mul(f, s), Bls12381!lambda_inv)
    /\ stage = "panic" => f = Bls12381!Zero

\* The factors of s, as integers.
LEMMA Bls12381Factors ==
    ASSUME f \in Bls12381!Units
    PROVE  LET G == BLS12_381.GroupOrder
               fe == f * BLS12_381.final_exp_factor
               P == BLS12_381.poly_factor
               a == Bls12381!root_pth_inv
               b == Bls12381!root_27th_inv
           IN  /\ a \in Bls12381!Units
               /\ Same(a, (-(fe * 27)) * Bls12381!times27_mod_poly, G)
               /\ b \in Bls12381!Units
               /\ Multiple(fe * P * 27, G) => Same(b, (-(fe * P)) * 10, G)
<1> DEFINE G == BLS12_381.GroupOrder
           E == BLS12_381.final_exp_factor
           P == BLS12_381.poly_factor
           h == Bls12381!times27_mod_poly
           fe == f * E
           r1 == fe % G
           f27 == fe * 27
           fP == fe * P
<1>1. /\ G \in Nat \ {0} /\ E \in Nat \ {0} /\ P \in Nat \ {0} /\ h \in Nat
      /\ E \in Int /\ P \in Int /\ h \in Int /\ f \in Int /\ 27 \in Int /\ 10 \in Int
  <2>1. \A k \in Nat : k \in Int
    OBVIOUS
  <2>2. 27 \in Int /\ 10 \in Int
    OBVIOUS
  <2> QED
    BY <2>1, <2>2, Bls12381Numbers, Bls12381Operations
<1>2. Bls12381!f_final_exp = r1 /\ r1 \in Bls12381!Units
  BY <1>1, Bls12381Operations DEF Bls12381!f_final_exp
<1>3. fe \in Int
  <2> HIDE DEF E
  <2> QED
    BY <1>1, Z3
<1>4. Same(r1, fe, G) /\ r1 \in Int
  <2> HIDE DEF fe, G
  <2> QED
    BY <1>1, <1>3, SameRemainder
\* The inverse of the k-th power of r1, raised to j.
<1>5. ASSUME NEW k \in Int, NEW j \in Int
      PROVE  /\ Bls12381!pow(r1, k) \in Bls12381!Units
             /\ Same(Bls12381!pow(r1, k), fe * k, G)
             /\ Bls12381!inv_pow(Bls12381!pow(r1, k), j) \in Bls12381!Units
             /\ Same(Bls12381!inv_pow(Bls12381!pow(r1, k), j), (-(fe * k)) * j, G)
  <2> DEFINE v == r1 * k
             w == v % G
             y == (-w) % G
             fk == fe * k
  <2>1. Bls12381!pow(r1, k) = w /\ w \in Bls12381!Units
    BY <1>2, Bls12381Operations
  <2>2. Bls12381!inverse(w) = y /\ y \in Bls12381!Units
    <3> HIDE DEF w
    <3> QED
      BY <2>1, Bls12381Operations
  <2>3. Bls12381!inv_pow(w, j) = (y * j) % G /\ (y * j) % G \in Bls12381!Units
    <3> HIDE DEF w, y
    <3>1. Bls12381!inv_pow(w, j) = Bls12381!pow(y, j)
      BY <2>2 DEF Bls12381!inv_pow
    <3>2. Bls12381!pow(y, j) = (y * j) % G /\ Bls12381!pow(y, j) \in Bls12381!Units
      BY <2>2, Bls12381Operations
    <3> QED
      BY <3>1, <3>2
  <2>4. w \in Int /\ y \in Int
    <3> HIDE DEF w, y
    <3> QED
      BY <2>1, <2>2, Bls12381Operations
  <2> HIDE DEF r1, fe, G
  <2>5. v \in Int /\ fk \in Int
    BY <1>3, <1>4, Z3
  <2>6. Same(v, fk, G)
    <3>1. Same(k, k, G)
      BY DEF Same
    <3> QED
      BY <1>1, <1>3, <1>4, <3>1, SameResults
  <2>7. Same(w, v, G)
    <3> HIDE DEF v
    <3> QED
      BY <1>1, <2>5, SameRemainder
  <2>8. Same(w, fk, G)
    BY <2>6, <2>7 DEF Same
  <2> HIDE DEF v, w, fk
  <2>9. -w \in Int /\ -fk \in Int /\ 0 - w = -w /\ 0 - fk = -fk /\ 0 \in Int
    BY <2>4, <2>5
  <2>10. Same(-w, -fk, G)
    <3>1. Same(0, 0, G)
      BY DEF Same
    <3>2. Same(0 - w, 0 - fk, G)
      BY <1>1, <2>4, <2>5, <2>8, <2>9, <3>1, SameResults
    <3> QED
      BY <2>9, <3>2
  <2>11. Same(y, -w, G)
    BY <1>1, <2>9, SameRemainder
  <2>12. Same(y, -fk, G)
    BY <2>10, <2>11 DEF Same
  <2> DEFINE yj == y * j
  <2> HIDE DEF y
  <2>13. yj \in Int /\ Same(yj, (-fk) * j, G)
    <3>1. Same(j, j, G)
      BY DEF Same
    <3>2. yj \in Int
      BY <2>4, Z3
    <3> QED
      BY <1>1, <2>4, <2>9, <2>12, <3>1, <3>2, SameResults
  <2>14. Same(yj % G, yj, G)
    <3> HIDE DEF yj
    <3> QED
      BY <1>1, <2>13, SameRemainder
  <2>15. Same(yj % G, (-fk) * j, G)
    BY <2>13, <2>14 DEF Same
  <2> QED
    BY <2>1, <2>3, <2>8, <2>15 DEF fk, fe
<1>6. /\ Bls12381!root_pth_inv \in Bls12381!Units
      /\ Same(Bls12381!root_pth_inv, (-(fe * 27)) * h, G)
  <2> DEFINE w == Bls12381!pow(r1, 27)
  <2>1. /\ w \in Bls12381!Units /\ Same(w, fe * 27, G)
        /\ Bls12381!inv_pow(w, h) \in Bls12381!Units
        /\ Same(Bls12381!inv_pow(w, h), (-(fe * 27)) * h, G)
    BY <1>1, <1>5
  <2>2. Bls12381!root_pth_inv = IF w = Bls12381!One THEN Bls12381!One ELSE Bls12381!inv_pow(w, h)
    BY <1>2 DEF Bls12381!root_pth_inv
  <2> HIDE DEF w
  <2>3. CASE w = Bls12381!One
    <3>1. w = 0 /\ Bls12381!root_pth_inv = 0 /\ 0 \in Bls12381!Units
      BY <2>2, <2>3, Bls12381Operations
    <3> HIDE DEF G, fe, h
    <3>2. f27 \in Int /\ -f27 \in Int /\ 0 \in Int
      BY <1>3
    <3>3. Same(0, f27, G)
      BY <2>1, <3>1
    <3> HIDE DEF f27
    <3>4. Multiple(f27, G)
      <4>1. f27 % G = 0 % G /\ 0 \in 0 .. G - 1
        BY <1>1, <3>3 DEF Same
      <4>2. f27 % G = 0
        BY <1>1, <4>1, Remainders
      <4> QED
        BY <1>1, <3>2, <4>2, MultipleIsZero
    <3>5. PICK k \in Int : f27 = G * k
      BY <3>4 DEF Multiple
    <3>6. Multiple((-f27) * h, G) /\ (-f27) * h \in Int
      <4>1. -f27 = G * (-k) /\ -k \in Int /\ G \in Int
        BY <1>1, <3>5, Z3
      <4>2. Multiple(-f27, G)
        BY <4>1 DEF Multiple
      <4> QED
        BY <1>1, <3>2, <4>1, <4>2, Multiples2
    <3>7. Same(0, (-f27) * h, G)
      <4> DEFINE z == (-f27) * h
      <4>1. z \in Int /\ Multiple(z, G)
        BY <3>6
      <4> HIDE DEF z
      <4>2. z % G = 0 /\ 0 % G = 0
        <5>1. 0 \in 0 .. G - 1
          BY <1>1
        <5> QED
          BY <1>1, <4>1, <5>1, MultipleIsZero, Remainders
      <4>3. Same(0, z, G)
        BY <4>2 DEF Same
      <4> QED
        BY <4>3 DEF z
    <3> QED
      BY <3>1, <3>7 DEF f27
  <2>4. CASE w # Bls12381!One
    BY <2>1, <2>2, <2>4
  <2> QED
    BY <2>3, <2>4
<1>7. /\ Bls12381!root_27th_inv \in Bls12381!Units
      /\ Multiple(fP * 27, G) => Same(Bls12381!root_27th_inv, (-fP) * 10, G)
  <2> DEFINE w == Bls12381!pow(r1, P)
  <2>1. /\ w \in Bls12381!Units /\ Same(w, fP, G)
        /\ Bls12381!inv_pow(w, 10) \in Bls12381!Units
        /\ Same(Bls12381!inv_pow(w, 10), (-fP) * 10, G)
    BY <1>1, <1>5
  <2>2. Bls12381!root_27th_inv
          = IF Bls12381!pow(w, 27) = Bls12381!One THEN Bls12381!inv_pow(w, 10) ELSE Bls12381!One
    BY <1>2 DEF Bls12381!root_27th_inv
  <2> HIDE DEF w
  <2>3. w \in Int /\ Bls12381!pow(w, 27) = (w * 27) % G
    BY <1>1, <2>1, Bls12381Operations
  <2>4. ASSUME Multiple(fP * 27, G) PROVE Bls12381!pow(w, 27) = Bls12381!One
    <3> HIDE DEF fe, G
    <3>1. fP \in Int
      BY <1>1, <1>3, Z3
    <3> HIDE DEF fP
    <3>2. fP * 27 \in Int
      BY <3>1
    <3>3. Same(w * 27, fP * 27, G)
      <4>1. Same(27, 27, G)
        BY DEF Same
      <4> QED
        BY <1>1, <2>1, <2>3, <3>1, <4>1, SameResults
    <3>4. (fP * 27) % G = 0
      BY <1>1, <2>4, <3>2, MultipleIsZero
    <3> QED
      BY <2>3, <3>3, <3>4, Bls12381Operations DEF Same
  <2>5. Bls12381!One \in Bls12381!Units
    BY Bls12381Operations
  <2> QED
    BY <2>1, <2>2, <2>4, <2>5
<1> QED
  BY <1>6, <1>7

-----------------------------------------------------------------------------
\* What the witness proves to the guest, from how it was computed.
LEMMA Bls12381Witness ==
    ASSUME Bls12381Inv, stage = "done"
    PROVE  Bls12381!WitnessIffOne
<1> DEFINE G == BLS12_381.GroupOrder
           N == BLS12_381.R
           E == BLS12_381.final_exp_factor
           P == BLS12_381.poly_factor
           L == BLS12_381.lambda
           h == Bls12381!times27_mod_poly
           li == Bls12381!lambda_inv
           a == Bls12381!root_pth_inv
           b == Bls12381!root_27th_inv
           ab == a + b
           fs == f + s
           w == fs % G
           wl == w * li
           cl == c * L
           sp == s * (27 * P)
<1>1. /\ G \in Nat \ {0} /\ N \in Nat \ {0} /\ E \in Nat \ {0} /\ P \in Nat \ {0}
      /\ G = N * 27 * P * E
      /\ L \in Nat /\ L \in Int /\ li \in Nat /\ li \in Int /\ h \in Nat /\ h \in Int
      /\ Same(27 * E * h, 1, P) /\ Same(10 * E * P, 1, 27)
      /\ Same(L * li, 1, E) /\ Multiple(L, N)
  <2>1. \A k \in Nat : k \in Int
    OBVIOUS
  <2> QED
    BY <2>1, Bls12381Numbers
<1>2. /\ f \in Bls12381!Units /\ f % N = Bls12381!PairingProduct(ps, qs)
      /\ s = Bls12381!mul(a, b)
      /\ c = Bls12381!pow(Bls12381!mul(f, s), li)
  BY DEF Bls12381Inv
<1>3. /\ a \in Bls12381!Units /\ Same(a, (-(f * E * 27)) * h, G)
      /\ b \in Bls12381!Units
      /\ Multiple(f * E * P * 27, G) => Same(b, (-(f * E * P)) * 10, G)
  BY <1>2, Bls12381Factors
<1>4. s = ab % G /\ s \in Bls12381!Units
  BY <1>2, <1>3, Bls12381Operations
<1>5. Bls12381!mul(f, s) = w /\ w \in Bls12381!Units
  BY <1>2, <1>4, Bls12381Operations, ZenonT(30)
<1>6. c = wl % G /\ c \in Bls12381!Units
  <2>1. c = Bls12381!pow(w, li)
    BY <1>2, <1>5
  <2> HIDE DEF w, li, G
  <2>2. Bls12381!pow(w, li) = (w * li) % BLS12_381.GroupOrder /\ Bls12381!pow(w, li) \in Bls12381!Units
    BY <1>1, <1>5, Bls12381Operations
  <2> QED
    BY <2>1, <2>2 DEF G
<1>7. f \in Int /\ a \in Int /\ b \in Int /\ s \in Int /\ w \in Int /\ c \in Int
  BY <1>2, <1>3, <1>4, <1>5, <1>6, Bls12381Operations
<1>8. Same(s, a + b, G)
  <2>1. ab \in Int
    BY <1>7
  <2> HIDE DEF ab, G
  <2>2. Same(ab % G, ab, G)
    BY <1>1, <2>1, SameRemainder
  <2> QED
    BY <1>4, <2>2 DEF ab
<1>9. fs \in Int /\ Same(w, fs, G)
  <2>1. fs \in Int
    BY <1>7
  <2> HIDE DEF fs, G
  <2> QED
    BY <1>1, <2>1, SameRemainder
<1>10. Same(c, fs * li, G)
  <2> HIDE DEF fs, w, G, li
  <2>1. wl \in Int
    BY <1>1, <1>7, Z3
  <2>2. Same(wl, fs * li, G)
    <3>1. Same(li, li, G)
      BY DEF Same
    <3> QED
      BY <1>1, <1>7, <1>9, <3>1, SameResults
  <2> HIDE DEF wl
  <2>3. Same(wl % G, wl, G)
    BY <1>1, <2>1, SameRemainder
  <2> QED
    BY <1>6, <2>2, <2>3 DEF Same
<1>11. Multiple(f, N) <=> Same(cl, fs, G) /\ Multiple(sp, G)
  <2> HIDE DEF G, N, E, P, L, h, li, a, b
  <2>1. RootConditions(N, P, E, G, h, L, li, f, a, b, s, c)
    BY <1>1, <1>3, <1>7, <1>8, <1>10, Zenon DEF RootConditions
  <2> QED
    BY <2>1, RootOfRest, Zenon
<1>12. Bls12381!pow(c, L) = cl % G /\ Bls12381!pow(s, 27 * P) = sp % G
  <2>1. 27 * P \in Int
    BY <1>1
  <2> QED
    BY <1>1, <1>4, <1>6, <2>1, Bls12381Operations
<1>13. (cl % G = w) <=> Same(cl, fs, G)
  BY DEF Same
<1>14. (sp % G = Bls12381!One) <=> Multiple(sp, G)
  <2>1. sp \in Int
    <3> DEFINE k == 27 * P
    <3>1. k \in Int
      BY <1>1
    <3> HIDE DEF k
    <3>2. s * k \in Int
      BY <1>7, <3>1, Z3
    <3> QED
      BY <3>2 DEF k
  <2>2. Bls12381!One = 0
    BY DEF Bls12381!One
  <2> HIDE DEF sp, G
  <2> QED
    BY <1>1, <2>1, <2>2, MultipleIsZero
<1>15. f % N = 0 <=> Multiple(f, N)
  <2> HIDE DEF N
  <2> QED
    BY <1>1, <1>7, MultipleIsZero
<1>16. (Bls12381!PairingProduct(ps, qs) = 0)
          <=> /\ Bls12381!pow(c, L) = Bls12381!mul(f, s)
              /\ Bls12381!pow(s, 27 * P) = Bls12381!One
  <2> HIDE DEF cl, w, sp, fs, G, N, P, L
  <2> QED
    BY <1>2, <1>5, <1>11, <1>12, <1>13, <1>14, <1>15
<1> QED
  BY <1>16 DEF Bls12381!WitnessIffOne

\* One step for each action: the lists are read, the witness is computed.
LEMMA Bls12381Keeps ==
    ASSUME Bls12381Inv, Bls12381!Next
    PROVE  Bls12381Inv'
<1>1. CASE Bls12381!Lengths
  <2>0. /\ stage = "call" /\ c' = c /\ s' = s /\ ps' = ps /\ qs' = qs
        /\ f = 0 /\ c = 0 /\ s = 0
    BY <1>1 DEF Bls12381!Lengths, Bls12381Inv
  <2>1. CASE stage' = "CustomOp" /\ f' = f
    BY <2>0, <2>1 DEF Bls12381Inv
  <2>2. CASE ps = <<>> /\ qs = <<>> /\ stage' = "done" /\ f' = f
    <3> DEFINE G == BLS12_381.GroupOrder
               E == BLS12_381.final_exp_factor
    <3>1. Bls12381!PairingProduct(ps', qs') = 0
      BY <2>0, <2>2, EmptyProducts
    <3>2. /\ G \in Nat \ {0} /\ BLS12_381.R \in Nat \ {0} /\ E \in Int
          /\ BLS12_381.poly_factor \in Int /\ Bls12381!lambda_inv \in Int
      <4>1. \A k \in Nat : k \in Int
        OBVIOUS
      <4> QED
        BY <4>1, Bls12381Numbers
    <3>3. \A n \in Nat \ {0} : 0 % n = 0
      <4>1. \A n \in Nat \ {0} : 0 \in 0 .. n - 1
        OBVIOUS
      <4> QED
        BY <4>1, Remainders
    <3>4. 0 \in Bls12381!Units /\ Bls12381!One = 0 /\ Bls12381!Zero # 0
      BY Bls12381Operations
    <3>5. \A k \in Int : Bls12381!pow(0, k) = 0
      <4>1. \A k \in Int : 0 * k = 0
        OBVIOUS
      <4> QED
        BY <3>2, <3>3, <3>4, <4>1, Bls12381Operations
    <3>6. Bls12381!mul(0, 0) = 0 /\ Bls12381!inverse(0) = 0
      <4>1. 0 + 0 = 0
        OBVIOUS
      <4>2. -0 = 0
        <5>1. \A k \in Int : -k = 0 - k
          OBVIOUS
        <5>2. 0 - 0 = 0 /\ 0 \in Int
          OBVIOUS
        <5> QED
          BY <5>1, <5>2, Zenon
      <4> QED
        BY <3>2, <3>3, <3>4, <4>1, <4>2, Bls12381Operations
    <3>7. f' = 0 /\ c' = 0 /\ s' = 0
      BY <2>0, <2>2
    <3>8. /\ 27 \in Int /\ 10 \in Int
      OBVIOUS
    <3>9. Bls12381!f_final_exp' = 0
      BY <3>2, <3>5, <3>7 DEF Bls12381!f_final_exp
    <3>10. Bls12381!root_pth_inv' = 0
      BY <3>4, <3>5, <3>8, <3>9 DEF Bls12381!root_pth_inv
    <3>11. Bls12381!root_27th_inv' = 0
      BY <3>2, <3>4, <3>5, <3>6, <3>8, <3>9 DEF Bls12381!root_27th_inv, Bls12381!inv_pow
    <3>12. Bls12381!lambda_inv' = Bls12381!lambda_inv
      BY DEF Bls12381!lambda_inv, Bls12381!inv_mod
    <3>13. /\ s' = Bls12381!mul(Bls12381!root_pth_inv, Bls12381!root_27th_inv)'
           /\ c' = Bls12381!pow(Bls12381!mul(f', s'), Bls12381!lambda_inv)
      <4>1. Bls12381!mul(Bls12381!root_pth_inv, Bls12381!root_27th_inv)' = 0
        BY <3>6, <3>10, <3>11 DEF Bls12381!mul
      <4>2. Bls12381!mul(f', s') = 0
        BY <3>6, <3>7
      <4> QED
        BY <3>2, <3>5, <3>7, <4>1, <4>2
    <3>14. f' % BLS12_381.R = 0
      BY <3>2, <3>3, <3>7
    <3> QED
      BY <2>2, <3>1, <3>4, <3>7, <3>12, <3>13, <3>14 DEF Bls12381Inv
  <2>3. CASE /\ f' \in Bls12381!multi_miller_loop(Bls12381!PairingProduct(ps, qs))
                         \cup {Bls12381!Zero}
             /\ stage' = "witness"
    BY <2>0, <2>3 DEF Bls12381Inv, Bls12381!multi_miller_loop
  <2> QED
    BY <1>1, <2>1, <2>2, <2>3 DEF Bls12381!Lengths
<1>2. CASE Bls12381!Witness
  <2>1. stage = "witness" /\ ps' = ps /\ qs' = qs /\ f' = f
    BY <1>2 DEF Bls12381!Witness
  <2>2. CASE f = Bls12381!Zero
    BY <1>2, <2>1, <2>2 DEF Bls12381!Witness, Bls12381Inv
  <2>3. CASE f # Bls12381!Zero
    <3>1. /\ s' = Bls12381!mul(Bls12381!root_pth_inv, Bls12381!root_27th_inv)
          /\ c' = Bls12381!pow(Bls12381!mul(f, s'), Bls12381!lambda_inv)
          /\ stage' = "done"
      BY <1>2, <2>3 DEF Bls12381!Witness
    <3>2. /\ Bls12381!root_pth_inv' = Bls12381!root_pth_inv
          /\ Bls12381!root_27th_inv' = Bls12381!root_27th_inv
      BY <2>1 DEF Bls12381!root_pth_inv, Bls12381!root_27th_inv, Bls12381!f_final_exp,
                  Bls12381!inv_pow, Bls12381!times27_mod_poly, Bls12381!inv_mod
    <3> QED
      BY <2>1, <2>3, <3>1, <3>2 DEF Bls12381Inv
  <2> QED
    BY <2>2, <2>3
<1> QED
  BY <1>1, <1>2 DEF Bls12381!Next

\* The invariant of the BLS12-381 client.
Bls12381Client == routine = "HintFinalExp BLS12-381" => Bls12381Inv

\* The invariant of the hint for BLS12-381 is inductive.
LEMMA Bls12381Invariant == Spec => []Bls12381Client
<1>1. ASSUME Bls12381!Init PROVE Bls12381Inv
  <2>1. stage = "call" /\ f = 0 /\ c = 0 /\ s = 0 /\ 0 \in Bls12381!Units
    BY <1>1, Bls12381Operations DEF Bls12381!Init
  <2> QED
    BY <2>1 DEF Bls12381Inv
<1>2. Init => Bls12381Client
  BY <1>1, Zenon DEF Init, Bls12381Client
<1>3. ASSUME Bls12381Inv, UNCHANGED vars PROVE Bls12381Inv'
  <2>1. ps' = ps /\ qs' = qs /\ f' = f /\ c' = c /\ s' = s /\ stage' = stage
    BY <1>3 DEF vars, pairing, loop
  <2>2. /\ Bls12381!root_pth_inv' = Bls12381!root_pth_inv
        /\ Bls12381!root_27th_inv' = Bls12381!root_27th_inv
    BY <2>1 DEF Bls12381!root_pth_inv, Bls12381!root_27th_inv, Bls12381!f_final_exp,
                Bls12381!inv_pow, Bls12381!times27_mod_poly, Bls12381!inv_mod
  <2> QED
    BY <1>3, <2>1, <2>2 DEF Bls12381Inv
<1>4. ASSUME Bls12381Client, [Next]_vars
      PROVE  Bls12381Client'
  <2>1. CASE UNCHANGED vars
    <3>1. routine' = routine
      BY <2>1 DEF vars
    <3> QED
      BY <1>3, <1>4, <2>1, <3>1, Zenon DEF Bls12381Client
  <2>2. CASE Next
    <3>1. routine' = routine /\ (routine = "HintFinalExp BLS12-381" => Bls12381!Next)
      BY <2>2, Zenon DEF Next, RootStep, Bn254Step, Bls12381Step, KeccakStep
    <3> QED
      BY <1>4, <3>1, Bls12381Keeps, Zenon DEF Bls12381Client
  <2> QED
    BY <1>4, <2>1, <2>2
<1> QED
  BY <1>2, <1>4, PTL DEF Spec

\* The hint for BLS12-381 convinces the guest exactly when the product of the
\* pairings is one, for every group and every literals of the kind assumed.
THEOREM Bls12381WitnessIsTrue == Spec => []Bls12381WitnessIffOne
<1>1. Bls12381Client => Bls12381WitnessIffOne
  <2>1. ASSUME Bls12381Inv PROVE Bls12381!WitnessIffOne
    <3>1. CASE stage = "done"
      BY <2>1, <3>1, Bls12381Witness
    <3>2. CASE stage # "done"
      BY <2>1, <3>2 DEF Bls12381Inv, Bls12381!WitnessIffOne
    <3> QED
      BY <3>1, <3>2
  <2> QED
    BY <2>1 DEF Bls12381Client, Bls12381WitnessIffOne
<1> QED
  BY <1>1, Bls12381Invariant, PTL
=============================================================================
