--------------------------- MODULE NumberLemmas ---------------------------
(***************************************************************************)
(* Facts about the integers: division; induction over a set of naturals and *)
(* functions defined by recursion; arithmetic modulo n and the extended     *)
(* algorithm of Euclid; the roots of one and of -1 modulo a prime, orders,  *)
(* the theorems of Fermat and Euler and the loop of Tonelli and Shanks;     *)
(* square and multiply; binary digits; roots in cyclic groups, in the       *)
(* exponents; sums over a set; and numbers by their digits: carries,        *)
(* borrows, the columns of a product and the order.                         *)
(***************************************************************************)
EXTENDS Integers, TLAPS, WellFoundedInduction, FiniteSetTheorems

\* Division by a positive number.
LEMMA DivMod ==
    ASSUME NEW a \in Int, NEW n \in Nat \ {0}
    PROVE  /\ a \div n \in Int
           /\ a % n \in 0 .. n - 1
           /\ a = n * (a \div n) + (a % n)
BY Z3

\* Quotient and remainder are determined by the number they compose.
LEMMA DivModUnique ==
    ASSUME NEW n \in Nat \ {0}, NEW q \in Int, NEW r \in 0 .. n - 1
    PROVE  /\ (n * q + r) \div n = q
           /\ (n * q + r) % n = r
BY Z3

\* A product of positive numbers is positive.
LEMMA Product ==
    ASSUME NEW a \in Nat \ {0}, NEW b \in Nat \ {0}
    PROVE  a * b \in Nat \ {0}
BY Z3

\* One more digit in front of a number in base n.
LEMMA Horner ==
    ASSUME NEW n \in Nat \ {0}, NEW m \in Nat \ {0},
           NEW a \in 0 .. n - 1, NEW b \in 0 .. m - 1
    PROVE  a + n * b \in 0 .. (n * m) - 1
BY Z3

-----------------------------------------------------------------------------
\* A set of numbers up to n that is not empty has a largest member.
LEMMA Largest ==
    ASSUME NEW n \in Nat, NEW C \in SUBSET (0 .. n), C # {}
    PROVE  \E k \in C : \A j \in C : j <= k
<1> DEFINE R == OpToRel(<, Nat)
           T == { m \in Nat : n - m \in C }
<1>1. IsWellFoundedOn(R, Nat)
  BY NatLessThanWellFounded
<1>2. \A y, z \in Nat : y < z => <<y, z>> \in R
  BY DEF OpToRel
<1>3. T \subseteq Nat /\ T # {}
  <2>1. PICK j \in C : TRUE
    OBVIOUS
  <2>2. j \in 0 .. n
    OBVIOUS
  <2>3. n - j \in Nat /\ n - (n - j) = j
    BY <2>2
  <2> QED
    BY <2>3
<1> HIDE DEF R
<1>4. PICK m \in T : \A l \in T : <<l, m>> \notin R
  <2> HIDE DEF T
  <2> QED
    BY <1>1, <1>3, WFMin
<1>5. m \in Nat /\ n - m \in C
  OBVIOUS
<1>6. ASSUME NEW j \in C
      PROVE  j <= n - m
  <2>1. j \in 0 .. n
    OBVIOUS
  <2>2. n - j \in Nat /\ n - (n - j) = j
    BY <2>1
  <2>3. n - j \in T
    BY <2>2
  <2>4. ~ (n - j < m)
    BY <2>2, <2>3, <1>2, <1>4, <1>5
  <2> QED
    BY <2>1, <2>2, <2>4, <1>5
<1> QED
  BY <1>5, <1>6

\* Induction, for the set of the numbers that have a property.
LEMMA Induction ==
    ASSUME NEW n \in Nat, NEW S,
           0 \in S, \A i \in 0 .. n - 1 : i \in S => i + 1 \in S
    PROVE  \A i \in 0 .. n : i \in S
<1> DEFINE C == { i \in 0 .. n : \A j \in 0 .. i : j \in S }
<1>1. 0 \in C
  OBVIOUS
<1>2. PICK k \in C : \A j \in C : j <= k
  <2>1. C \in SUBSET (0 .. n) /\ C # {}
    BY <1>1
  <2> HIDE DEF C
  <2> QED
    BY <2>1, Largest
<1>3. k = n
  <2>1. SUFFICES ASSUME k < n PROVE FALSE
    OBVIOUS
  <2>2. k \in 0 .. n - 1 /\ k + 1 \in 0 .. n /\ k \in S
    BY <2>1
  <2>3. k + 1 \in S
    BY <2>2
  <2>4. k + 1 \in C
    BY <2>2, <2>3
  <2> QED
    BY <1>2, <2>2, <2>4
<1> QED
  BY <1>2, <1>3

\* A function on 0 .. n in which each value is made of an earlier one, or of
\* none.
LooksBack(g, n, prev, base, step) ==
    \A i \in 0 .. n :
       g[i] = IF prev[i] \in 0 .. i - 1 THEN step[<<i, g[prev[i]]>>] ELSE base[i]

\* There always is one.
LEMMA Recursion ==
    ASSUME NEW n \in Nat, NEW V, NEW prev \in [0 .. n -> Int],
           NEW base \in [0 .. n -> V], NEW step \in [(0 .. n) \X V -> V]
    PROVE  \E g \in [0 .. n -> V] : LooksBack(g, n, prev, base, step)
<1> DEFINE val(g, i) == IF prev[i] \in 0 .. i - 1 THEN step[<<i, g[prev[i]]>>] ELSE base[i]
           Up(k) == \E g \in [0 .. k -> V] : \A i \in 0 .. k : g[i] = val(g, i)
           S     == { k \in 0 .. n : Up(k) }
<1>1. Up(0)
  <2> DEFINE g == [i \in 0 .. 0 |-> base[i]]
  <2>1. g \in [0 .. 0 -> V] /\ \A i \in 0 .. 0 : g[i] = val(g, i)
    OBVIOUS
  <2> QED
    BY <2>1
<1>2. ASSUME NEW k \in 0 .. n - 1, Up(k)
      PROVE  Up(k + 1)
  <2>1. PICK g \in [0 .. k -> V] : \A i \in 0 .. k : g[i] = val(g, i)
    BY <1>2
  <2> DEFINE h == [i \in 0 .. k + 1 |-> IF i \in 0 .. k THEN g[i] ELSE val(g, i)]
  <2>2. \A i \in 0 .. k + 1 : i \in 0 .. k \/ i = k + 1
    OBVIOUS
  <2>3. val(g, k + 1) \in V
    OBVIOUS
  <2>4. h \in [0 .. k + 1 -> V] /\ \A i \in 0 .. k : h[i] = g[i]
    BY <2>2, <2>3
  <2>5. \A i \in 0 .. k + 1 : val(h, i) = val(g, i)
    <3> HIDE DEF h
    <3> SUFFICES ASSUME NEW i \in 0 .. k + 1, prev[i] \in 0 .. i - 1
                 PROVE  h[prev[i]] = g[prev[i]]
      OBVIOUS
    <3>1. prev[i] \in 0 .. k
      OBVIOUS
    <3> QED
      BY <2>4, <3>1
  <2>6. \A i \in 0 .. k + 1 : h[i] = val(g, i)
    BY <2>1, <2>2
  <2> HIDE DEF val, h
  <2> QED
    BY <2>4, <2>5, <2>6
<1> HIDE DEF Up
<1>3. \A k \in 0 .. n : k \in S
  <2>1. 0 \in S /\ \A k \in 0 .. n - 1 : k \in S => k + 1 \in S
    BY <1>1, <1>2
  <2> HIDE DEF S
  <2> QED
    BY <2>1, Induction
<1>4. n \in 0 .. n
  OBVIOUS
<1>5. Up(n)
  BY <1>3, <1>4
<1> QED
  BY <1>5 DEF Up, LooksBack

\* A function on the naturals each value of which is made of the earlier ones.
Unfolds(g, step) ==
    \A i \in Nat : g[i] = step[<<i, [j \in 0 .. i - 1 |-> g[j]]>>]

\* There always is one.
LEMMA CourseOfValues ==
    ASSUME NEW V, NEW step,
           \A i \in Nat : \A h \in [0 .. i - 1 -> V] : step[<<i, h>>] \in V
    PROVE  \E g \in [Nat -> V] : Unfolds(g, step)
<1> DEFINE Before(g, i) == [j \in 0 .. i - 1 |-> g[j]]
           Up(g, k) == \A i \in 0 .. k : g[i] = step[<<i, Before(g, i)>>]
           S == { k \in Nat : \E g \in [0 .. k -> V] : Up(g, k) }
<1>1. 0 \in S
  <2>1. \A f, g : Before(f, 0) = Before(g, 0)
    OBVIOUS
  <2> DEFINE h == [j \in 0 .. 0 - 1 |-> 0]
             g == [i \in 0 .. 0 |-> step[<<0, h>>]]
  <2>2. h \in [0 .. 0 - 1 -> V] /\ Before(g, 0) = h
    OBVIOUS
  <2>3. 0 .. 0 = {0} /\ step[<<0, h>>] \in V
    <3>1. h \in [0 .. 0 - 1 -> V]
      BY <2>2
    <3> HIDE DEF h
    <3>2. 0 \in Nat
      OBVIOUS
    <3>3. step[<<0, h>>] \in V
      BY <3>1, <3>2, Zenon
    <3>4. 0 .. 0 = {0}
      OBVIOUS
    <3> QED
      BY <3>3, <3>4
  <2>4. g \in [0 .. 0 -> V] /\ g[0] = step[<<0, h>>]
    BY <2>3
  <2>5. Before(g, 0) = h
    BY <2>2
  <2>6. Up(g, 0)
    <3> HIDE DEF g, h, Before
    <3> QED
      BY <2>3, <2>4, <2>5
  <2> QED
    BY <2>4, <2>6
<1>2. ASSUME NEW k \in Nat, k \in S
      PROVE  k + 1 \in S
  <2>1. PICK g \in [0 .. k -> V] : Up(g, k)
    BY <1>2
  <2> DEFINE h == [i \in 0 .. k + 1 |-> IF i \in 0 .. k THEN g[i] ELSE step[<<k + 1, g>>]]
  <2>2. \A i \in 0 .. k : h[i] = g[i]
    OBVIOUS
  <2>3. \A i \in 0 .. k : Before(h, i) = Before(g, i)
    <3> HIDE DEF h
    <3> SUFFICES ASSUME NEW i \in 0 .. k PROVE Before(h, i) = Before(g, i)
      OBVIOUS
    <3>1. \A j \in 0 .. i - 1 : h[j] = g[j]
      BY <2>2
    <3> QED
      BY <3>1
  <2>4. Before(h, k + 1) = g
    <3> HIDE DEF h
    <3>1. k + 1 - 1 = k
      OBVIOUS
    <3>2. g = [j \in 0 .. k |-> g[j]]
      OBVIOUS
    <3> QED
      BY <2>2, <3>1, <3>2
  <2>5. step[<<k + 1, g>>] \in V
    <3>1. g \in [0 .. (k + 1) - 1 -> V] /\ k + 1 \in Nat
      BY <2>1
    <3> QED
      BY <3>1
  <2>6. \A i \in 0 .. k + 1 : i \in 0 .. k \/ i = k + 1
    OBVIOUS
  <2>7. h \in [0 .. k + 1 -> V] /\ h[k + 1] = step[<<k + 1, g>>]
    BY <2>5
  <2> HIDE DEF h, Before
  <2>8. Up(h, k + 1)
    BY <2>1, <2>2, <2>3, <2>4, <2>6, <2>7
  <2> QED
    BY <2>7, <2>8
<1>3. \A k \in Nat : k \in S
  <2> TAKE k \in Nat
  <2>1. \A i \in 0 .. k - 1 : i \in S => i + 1 \in S
    BY <1>2
  <2> HIDE DEF S
  <2>2. \A i \in 0 .. k : i \in S
    BY <1>1, <2>1, Induction
  <2> QED
    BY <2>2
\* Two of them agree.
<1>4. ASSUME NEW k \in Nat, NEW l \in Nat, k <= l,
             NEW f \in [0 .. k -> V], NEW g \in [0 .. l -> V], Up(f, k), Up(g, l)
      PROVE  f[k] = g[k]
  <2> DEFINE T == { i \in 0 .. k : \A j \in 0 .. i : f[j] = g[j] }
  <2>1. ASSUME NEW i \in 0 .. k, \A j \in 0 .. i - 1 : f[j] = g[j]
        PROVE  f[i] = g[i]
    <3>1. Before(f, i) = Before(g, i)
      BY <2>1
    <3>2. i \in 0 .. l
      BY <1>4
    <3> QED
      BY <1>4, <3>1, <3>2
  <2>2. 0 \in T
    BY <2>1
  <2>3. ASSUME NEW i \in 0 .. k - 1, i \in T
        PROVE  i + 1 \in T
    <3>1. i + 1 \in 0 .. k /\ \A j \in 0 .. (i + 1) - 1 : f[j] = g[j]
      BY <2>3
    <3>2. f[i + 1] = g[i + 1]
      BY <2>1, <3>1
    <3>3. \A j \in 0 .. i + 1 : j \in 0 .. i \/ j = i + 1
      BY <3>1
    <3> QED
      BY <2>3, <3>1, <3>2, <3>3
  <2> HIDE DEF T
  <2>4. \A i \in 0 .. k : i \in T
    BY <2>2, <2>3, Induction
  <2> QED
    BY <2>4 DEF T
<1> DEFINE sol == [k \in Nat |-> CHOOSE g \in [0 .. k -> V] : Up(g, k)]
           G == [k \in Nat |-> sol[k][k]]
<1>5. \A k \in Nat : sol[k] \in [0 .. k -> V] /\ Up(sol[k], k)
  <2> HIDE DEF Up
  <2> QED
    BY <1>3
<1> HIDE DEF sol
<1>6. G \in [Nat -> V] /\ \A k \in Nat : G[k] = sol[k][k]
  BY <1>5
<1> HIDE DEF G
<1>7. ASSUME NEW i \in Nat
      PROVE  G[i] = step[<<i, Before(G, i)>>]
  <2>1. \A j \in 0 .. i - 1 : G[j] = sol[i][j]
    <3> SUFFICES ASSUME NEW j \in 0 .. i - 1 PROVE sol[j][j] = sol[i][j]
      BY <1>6
    <3>1. j \in Nat /\ j <= i
      OBVIOUS
    <3> HIDE DEF Up
    <3> QED
      BY <1>4, <1>5, <3>1
  <2>2. Before(G, i) = Before(sol[i], i)
    BY <2>1
  <2>3. sol[i][i] = step[<<i, Before(sol[i], i)>>]
    <3>1. i \in 0 .. i
      OBVIOUS
    <3> HIDE DEF Before
    <3> QED
      BY <1>5, <3>1
  <2> HIDE DEF Before
  <2> QED
    BY <1>6, <2>2, <2>3
<1> QED
  BY <1>6, <1>7 DEF Unfolds

-----------------------------------------------------------------------------
\* Congruent integers have one remainder.
LEMMA Congruent ==
    ASSUME NEW n \in Nat \ {0}, NEW i \in Int, NEW k \in Int
    PROVE  (i + n * k) % n = i % n
<1> DEFINE q == i \div n
           r == i % n
<1>1. q \in Int /\ r \in 0 .. n - 1 /\ i = n * q + r
  BY DivMod
<1> HIDE DEF q, r
<1>2. i + n * k = n * (q + k) + r /\ q + k \in Int
  BY <1>1, Z3
<1>3. (n * (q + k) + r) % n = r
  BY <1>1, <1>2, DivModUnique
<1> QED
  BY <1>2, <1>3 DEF r

\* i is j and a multiple of n.
Exceeds(i, j, n) == \E k \in Int : i = j + n * k

\* A number is its remainder and a multiple.
LEMMA Remainder ==
    ASSUME NEW n \in Nat \ {0}, NEW i \in Int
    PROVE  Exceeds(i, i % n, n)
<1>1. i \div n \in Int /\ i = n * (i \div n) + (i % n) /\ i % n \in Int
  BY DivMod
<1> DEFINE q == i \div n
           r == i % n
<1>2. q \in Int /\ r \in Int /\ i = n * q + r
  BY <1>1
<1> HIDE DEF q, r
<1>3. i = r + n * q
  BY <1>1, <1>2, Z3
<1> QED
  BY <1>2, <1>3 DEF Exceeds, r

\* Operands may be reduced before they are added, subtracted or multiplied.
LEMMA Reduced ==
    ASSUME NEW n \in Nat \ {0}, NEW i \in Int, NEW j \in Int
    PROVE  /\ ((i % n) + (j % n)) % n = (i + j) % n
           /\ ((i % n) - (j % n)) % n = (i - j) % n
           /\ ((i % n) * (j % n)) % n = (i * j) % n
           /\ (i * (j % n)) % n = (i * j) % n
           /\ (i % n) % n = i % n
           /\ i % n \in 0 .. n - 1 /\ i % n \in Int
<1> DEFINE q == i \div n
           s == j \div n
           v == i % n
           w == j % n
<1>1. /\ q \in Int /\ v \in 0 .. n - 1 /\ i = n * q + v
      /\ s \in Int /\ w \in 0 .. n - 1 /\ j = n * s + w
  BY DivMod
<1> HIDE DEF q, s, v, w
<1>2. v \in Int /\ w \in Int /\ v * w \in Int /\ i * w \in Int /\ i * j \in Int
  BY <1>1, Z3
<1>3. (v + w) % n = (i + j) % n
  <2> DEFINE e == v + w
             k == q + s
  <2>1. e \in Int /\ k \in Int /\ i + j = e + n * k
    BY <1>1, <1>2, Z3
  <2> HIDE DEF e, k
  <2>2. (e + n * k) % n = e % n
    BY <2>1, Congruent
  <2> QED
    BY <2>1, <2>2 DEF e
<1>4. (v - w) % n = (i - j) % n
  <2> DEFINE e == v - w
             k == q - s
  <2>1. e \in Int /\ k \in Int /\ i - j = e + n * k
    BY <1>1, <1>2, Z3
  <2> HIDE DEF e, k
  <2>2. (e + n * k) % n = e % n
    BY <2>1, Congruent
  <2> QED
    BY <2>1, <2>2 DEF e
<1>5. (i * w) % n = (i * j) % n
  <2>1. i * j = i * w + n * (i * s) /\ i * s \in Int
    BY <1>1, <1>2, Z3
  <2> QED
    BY <1>2, <2>1, Congruent, ZenonT(30)
<1>6. (v * w) % n = (i * w) % n
  <2>1. i * w = v * w + n * (q * w) /\ q * w \in Int
    BY <1>1, <1>2, Z3
  <2> QED
    BY <1>2, <2>1, Congruent, ZenonT(30)
<1>7. v % n = v
  <2>1. (n * 0 + v) % n = v /\ n * 0 + v = v
    BY <1>1, DivModUnique
  <2> QED
    BY <2>1
<1> QED
  BY <1>1, <1>3, <1>4, <1>5, <1>6, <1>7 DEF v, w

\* Sums, differences and products of numbers with equal remainders have them.
Same(i, j, n) == i % n = j % n

LEMMA SameResults ==
    ASSUME NEW n \in Nat \ {0}, NEW i \in Int, NEW j \in Int, NEW k \in Int, NEW l \in Int,
           Same(i, k, n), Same(j, l, n)
    PROVE  Same(i + j, k + l, n) /\ Same(i - j, k - l, n) /\ Same(i * j, k * l, n)
<1>1. /\ ((i % n) + (j % n)) % n = (i + j) % n
      /\ ((i % n) - (j % n)) % n = (i - j) % n
      /\ ((i % n) * (j % n)) % n = (i * j) % n
  BY Reduced
<1>2. /\ ((k % n) + (l % n)) % n = (k + l) % n
      /\ ((k % n) - (l % n)) % n = (k - l) % n
      /\ ((k % n) * (l % n)) % n = (k * l) % n
  BY Reduced, ZenonT(30)
<1> QED
  BY <1>1, <1>2 DEF Same

\* A difference may be raised by n.
LEMMA Raised ==
    ASSUME NEW n \in Nat \ {0}, NEW i \in Int, NEW j \in Int
    PROVE  (n + i - j) % n = (i - j) % n
<1> DEFINE e == i - j
           k == 1
<1>1. e \in Int /\ k \in Int /\ n + i - j = e + n * k
  OBVIOUS
<1> HIDE DEF e, k
<1>2. (e + n * k) % n = e % n
  BY <1>1, Congruent
<1> QED
  BY <1>1, <1>2 DEF e

\* The remainders of n are their own.
LEMMA Remainders ==
    ASSUME NEW n \in Nat \ {0}, NEW r \in 0 .. n - 1
    PROVE  r % n = r
<1>1. (n * 0 + r) % n = r
  BY DivModUnique
<1> QED
  BY <1>1

\* A multiple of n on top changes no remainder.
LEMMA Shifted ==
    ASSUME NEW n \in Nat \ {0}, NEW i \in Int, NEW j \in Int, Exceeds(i, j, n)
    PROVE  i % n = j % n
<1>1. PICK k \in Int : i = j + n * k
  BY DEF Exceeds
<1> QED
  BY <1>1, Congruent

-----------------------------------------------------------------------------
\* The extended algorithm of Euclid, on a pair whose second part falls.
Euclid(f) ==
    f = [ab \in Nat \X Nat |->
           IF ab[2] = 0 THEN [g |-> ab[1], x |-> 1, y |-> 0]
           ELSE [g |-> f[<<ab[2], ab[1] % ab[2]>>].g,
                 x |-> f[<<ab[2], ab[1] % ab[2]>>].y,
                 y |-> f[<<ab[2], ab[1] % ab[2]>>].x
                         - (ab[1] \div ab[2]) * f[<<ab[2], ab[1] % ab[2]>>].y]]

\* There is a function with its equation.
LEMMA EuclidDefined == \E f : Euclid(f)
<1> DEFINE R == [g : Nat, x : Int, y : Int]
           V == [Nat -> R]
           next(i, h, n) == IF i = 0 THEN [g |-> n, x |-> 1, y |-> 0]
                            ELSE [g |-> h[n % i][i].g,
                                  x |-> h[n % i][i].y,
                                  y |-> h[n % i][i].x - (n \div i) * h[n % i][i].y]
           H == UNION { [0 .. i - 1 -> V] : i \in Nat }
           step == [ih \in Nat \X H |-> [n \in Nat |-> next(ih[1], ih[2], n)]]
<1>1. ASSUME NEW i \in Nat, NEW h \in [0 .. i - 1 -> V]
      PROVE  step[<<i, h>>] \in V /\ step[<<i, h>>] = [n \in Nat |-> next(i, h, n)]
  <2>1. h \in H
    OBVIOUS
  <2>2. step[<<i, h>>] = [n \in Nat |-> next(i, h, n)]
    <3> HIDE DEF H, next
    <3> QED
      BY <2>1
  <2>3. ASSUME NEW n \in Nat
        PROVE  next(i, h, n) \in R
    <3>1. CASE i = 0
      BY <3>1
    <3>2. CASE i # 0
      <4>1. n % i \in 0 .. i - 1 /\ n \div i \in Int
        <5>1. i \in Nat \ {0} /\ n \in Int
          BY <3>2
        <5> QED
          BY <5>1, DivMod
      <4> DEFINE r == h[n % i][i]
                 q == n \div i
      <4>2. r \in R
        BY <4>1
      <4>3. r.g \in Nat /\ r.x \in Int /\ r.y \in Int
        BY <4>2
      <4> HIDE DEF r, R
      <4>4. q * r.y \in Int
        <5> HIDE DEF q
        <5> QED
          BY <4>1, <4>3, Z3 DEF q
      <4>5. next(i, h, n) = [g |-> r.g, x |-> r.y, y |-> r.x - q * r.y]
        BY <3>2 DEF r
      <4> HIDE DEF next, q
      <4>6. r.x - q * r.y \in Int
        BY <4>3, <4>4
      <4> QED
        BY <4>3, <4>5, <4>6 DEF R
    <3> QED
      BY <3>1, <3>2
  <2> HIDE DEF step, next, R
  <2> QED
    BY <2>2, <2>3
<1> HIDE DEF step, V
<1>2. PICK G \in [Nat -> V] : Unfolds(G, step)
  <2>1. \A i \in Nat : \A h \in [0 .. i - 1 -> V] : step[<<i, h>>] \in V
    BY <1>1
  <2> QED
    BY <2>1, CourseOfValues
<1>3. ASSUME NEW i \in Nat
      PROVE  G[i] = [n \in Nat |-> next(i, [j \in 0 .. i - 1 |-> G[j]], n)]
  <2> DEFINE h == [j \in 0 .. i - 1 |-> G[j]]
  <2>1. h \in [0 .. i - 1 -> V]
    OBVIOUS
  <2>2. G[i] = step[<<i, h>>]
    BY <1>2 DEF Unfolds
  <2> HIDE DEF h, next
  <2> QED
    BY <1>1, <2>1, <2>2 DEF h
<1>4. ASSUME NEW i \in Nat, NEW n \in Nat
      PROVE  G[i][n] = IF i = 0 THEN [g |-> n, x |-> 1, y |-> 0]
                       ELSE [g |-> G[n % i][i].g, x |-> G[n % i][i].y,
                             y |-> G[n % i][i].x - (n \div i) * G[n % i][i].y]
  <2> DEFINE h == [j \in 0 .. i - 1 |-> G[j]]
  <2>1. G[i][n] = next(i, h, n)
    <3> HIDE DEF next
    <3> QED
      BY <1>3
  <2>2. CASE i = 0
    BY <2>1, <2>2
  <2>3. CASE i # 0
    <3>1. n % i \in 0 .. i - 1
      BY <2>3, DivMod
    <3>2. h[n % i] = G[n % i]
      BY <3>1
    <3> QED
      BY <2>1, <2>3, <3>2
  <2> QED
    BY <2>2, <2>3
<1> DEFINE f == [ab \in Nat \X Nat |-> G[ab[2]][ab[1]]]
<1>5. \A n, i \in Nat : f[<<n, i>>] = G[i][n]
  OBVIOUS
<1>6. Euclid(f)
  <2>1. ASSUME NEW n \in Nat, NEW i \in Nat, i # 0
        PROVE  f[<<i, n % i>>] = G[n % i][i]
    <3>1. n % i \in Nat
      BY <2>1, DivMod
    <3> QED
      BY <1>5, <3>1
  <2>2. f = [ab \in Nat \X Nat |-> f[<<ab[1], ab[2]>>]]
    OBVIOUS
  <2> DEFINE val(ab) == IF ab[2] = 0 THEN [g |-> ab[1], x |-> 1, y |-> 0]
                     ELSE [g |-> f[<<ab[2], ab[1] % ab[2]>>].g,
                           x |-> f[<<ab[2], ab[1] % ab[2]>>].y,
                           y |-> f[<<ab[2], ab[1] % ab[2]>>].x
                                  - (ab[1] \div ab[2]) * f[<<ab[2], ab[1] % ab[2]>>].y]
  <2> HIDE DEF f
  <2>3. ASSUME NEW n \in Nat, NEW i \in Nat
        PROVE  f[<<n, i>>] = val(<<n, i>>)
    <3>1. f[<<n, i>>] = G[i][n]
      BY <1>5
    <3>2. CASE i = 0
      BY <1>4, <3>1, <3>2
    <3>3. CASE i # 0
      <4>1. G[n % i][i] = f[<<i, n % i>>]
        BY <2>1, <3>3
      <4>2. G[i][n] = [g |-> G[n % i][i].g, x |-> G[n % i][i].y,
                       y |-> G[n % i][i].x - (n \div i) * G[n % i][i].y]
        BY <1>4, <3>3
      <4> QED
        BY <3>1, <3>3, <4>1, <4>2
    <3> QED
      BY <3>2, <3>3
  <2> HIDE DEF val
  <2>4. \A ab \in Nat \X Nat : f[<<ab[1], ab[2]>>] = val(ab)
    BY <2>3
  <2>5. f = [ab \in Nat \X Nat |-> val(ab)]
    BY <2>2, <2>4
  <2> QED
    BY <2>5 DEF Euclid, val
<1> QED
  BY <1>6

\* The function that obeys the recursion.
EuclidFunction == CHOOSE f : Euclid(f)

LEMMA EuclidFunctionDefined == Euclid(EuclidFunction)
BY EuclidDefined DEF EuclidFunction

\* It ends with a common divisor that is a combination of the two numbers.
Combines(r, i, j) ==
    /\ r \in [g : Nat, x : Int, y : Int]
    /\ r.g = i * r.x + j * r.y
    /\ \E k \in Int : i = r.g * k
    /\ \E k \in Int : j = r.g * k

LEMMA Bezout ==
    ASSUME NEW f, Euclid(f), NEW i \in Nat, NEW j \in Nat
    PROVE  Combines(f[<<i, j>>], i, j)
<1> DEFINE S == { k \in Nat : \A n \in Nat : Combines(f[<<n, k>>], n, k) }
           T == { k \in Nat : \A l \in 0 .. k : l \in S }
<1>1. ASSUME NEW n \in Nat, NEW k \in Nat
      PROVE  f[<<n, k>>] =
               IF k = 0 THEN [g |-> n, x |-> 1, y |-> 0]
               ELSE [g |-> f[<<k, n % k>>].g, x |-> f[<<k, n % k>>].y,
                     y |-> f[<<k, n % k>>].x - (n \div k) * f[<<k, n % k>>].y]
  <2> DEFINE val(h, ab) == IF ab[2] = 0 THEN [g |-> ab[1], x |-> 1, y |-> 0]
                     ELSE [g |-> h[<<ab[2], ab[1] % ab[2]>>].g,
                           x |-> h[<<ab[2], ab[1] % ab[2]>>].y,
                           y |-> h[<<ab[2], ab[1] % ab[2]>>].x
                                  - (ab[1] \div ab[2]) * h[<<ab[2], ab[1] % ab[2]>>].y]
  <2>1. f = [ab \in Nat \X Nat |-> val(f, ab)]
    BY DEF Euclid
  <2> HIDE DEF val
  <2>2. f[<<n, k>>] = val(f, <<n, k>>)
    BY <2>1
  <2> QED
    BY <2>2 DEF val
<1>2. 0 \in S
  <2> SUFFICES ASSUME NEW n \in Nat PROVE Combines(f[<<n, 0>>], n, 0)
    OBVIOUS
  <2>1. f[<<n, 0>>] = [g |-> n, x |-> 1, y |-> 0]
    BY <1>1
  <2>2. n = n * 1 + 0 * 0 /\ n = n * 1 /\ 0 = n * 0
    BY Z3
  <2> QED
    BY <2>1, <2>2 DEF Combines
<1>3. ASSUME NEW k \in Nat, k # 0, \A l \in 0 .. k - 1 : l \in S
      PROVE  k \in S
  <2> SUFFICES ASSUME NEW n \in Nat PROVE Combines(f[<<n, k>>], n, k)
    OBVIOUS
  <2> DEFINE r == f[<<k, n % k>>]
             m == n % k
             q == n \div k
  <2>1. m \in 0 .. k - 1 /\ q \in Int /\ n = k * q + m
    BY <1>3, DivMod
  <2>2. Combines(r, k, m)
    BY <1>3, <2>1
  <2>3. f[<<n, k>>] = [g |-> r.g, x |-> r.y, y |-> r.x - q * r.y]
    BY <1>1, <1>3
  <2> DEFINE g == r.g
             x == r.x
             y == r.y
  <2>4. g \in Nat /\ x \in Int /\ y \in Int /\ g = k * x + m * y
    BY <2>2 DEF Combines
  <2>5. PICK c \in Int, d \in Int : k = g * c /\ m = g * d
    BY <2>2 DEF Combines
  <2> HIDE DEF m, q, r
  <2> HIDE DEF g, x, y
  <2>6. x - q * y \in Int /\ g = n * y + k * (x - q * y)
    BY <2>1, <2>4, Z3
  <2>7. c * q + d \in Int /\ n = g * (c * q + d)
    BY <2>1, <2>4, <2>5, Z3
  <2>8. f[<<n, k>>] = [g |-> g, x |-> y, y |-> x - q * y]
    BY <2>3 DEF g, x, y
  <2> DEFINE z == x - q * y
             e == c * q + d
  <2>9. /\ z \in Int /\ g = n * y + k * z
        /\ e \in Int /\ n = g * e
        /\ f[<<n, k>>] = [g |-> g, x |-> y, y |-> z]
    BY <2>6, <2>7, <2>8
  <2> HIDE DEF z, e
  <2> DEFINE t == [g |-> g, x |-> y, y |-> z]
  <2>10. t \in [g : Nat, x : Int, y : Int] /\ t.g = g /\ t.x = y /\ t.y = z
    BY <2>4, <2>9
  <2> HIDE DEF t
  <2>11. t.g = n * t.x + k * t.y /\ n = t.g * e /\ k = t.g * c
    BY <2>5, <2>9, <2>10
  <2>12. Combines(t, n, k)
    BY <2>5, <2>9, <2>10, <2>11 DEF Combines
  <2> QED
    BY <2>9, <2>12 DEF t
<1> HIDE DEF S
<1>4. 0 \in T
  BY <1>2
<1>5. ASSUME NEW k \in 0 .. j - 1, k \in T
      PROVE  k + 1 \in T
  <2>1. k + 1 \in Nat /\ k + 1 # 0 /\ (k + 1) - 1 = k
    OBVIOUS
  <2>2. k + 1 \in S
    BY <1>3, <1>5, <2>1
  <2>3. \A l \in 0 .. k + 1 : l \in 0 .. k \/ l = k + 1
    OBVIOUS
  <2> QED
    BY <1>5, <2>1, <2>2, <2>3
<1>6. j \in T
  <2> HIDE DEF T
  <2>1. \A k \in 0 .. j : k \in T
    BY <1>4, <1>5, Induction
  <2> QED
    BY <2>1
<1> QED
  BY <1>6 DEF S

-----------------------------------------------------------------------------
\* A number with no divisor but one and itself.
Prime(n) == n \in Nat /\ n >= 2 /\ \A d \in 2 .. n - 1 : n % d # 0

\* Bezout's first coefficient inverts modulo a prime what is no multiple of it;
\* and for a multiple the greatest common divisor is not 1.
LEMMA EuclidInverts ==
    ASSUME NEW n, Prime(n), NEW f, Euclid(f), NEW i \in Nat
    PROVE  /\ f[<<i, n>>].x \in Int
           /\ f[<<i, n>>].g = 1 <=> i % n # 0
           /\ i % n # 0 => (i * (f[<<i, n>>].x % n)) % n = 1
<1> DEFINE r == f[<<i, n>>]
           g == r.g
           x == r.x
           y == r.y
<1>1. n \in Nat /\ n >= 2 /\ n \in Nat \ {0} /\ n \in Int
  BY DEF Prime
<1>2. Combines(r, i, n)
  BY <1>1, Bezout
<1>3. g \in Nat /\ x \in Int /\ y \in Int /\ g = i * x + n * y
  BY <1>2 DEF Combines
<1>4. PICK c \in Int, d \in Int : i = g * c /\ n = g * d
  BY <1>2 DEF Combines
<1> HIDE DEF g, x, y, r
<1>5. g = 1 => (i * x) % n = 1
  <2> SUFFICES ASSUME g = 1 PROVE (i * x) % n = 1
    OBVIOUS
  <2>1. i * x = n * (-y) + 1 /\ -y \in Int /\ 1 \in 0 .. n - 1
    BY <1>1, <1>3, Z3
  <2>2. (n * (-y) + 1) % n = 1
    BY <1>1, <2>1, DivModUnique
  <2> QED
    BY <2>1, <2>2
<1>6. g = 1 => i % n # 0
  <2> SUFFICES ASSUME g = 1, i % n = 0 PROVE FALSE
    OBVIOUS
  <2>1. PICK k \in Int : i = 0 + n * k
    <3>1. Exceeds(i, 0, n)
      BY <1>1, Remainder
    <3> QED
      BY <3>1 DEF Exceeds
  <2>2. k * x + y \in Int /\ n * (k * x + y) = 1
    BY <1>1, <1>3, <2>1, Z3
  <2> DEFINE e == k * x + y
  <2>3. e \in Int /\ n * e = 1
    BY <2>2
  <2> HIDE DEF e
  <2> QED
    BY <1>1, <2>3, Z3
<1>7. i % n # 0 => g = 1
  <2> SUFFICES ASSUME g # 1 PROVE i % n = 0
    OBVIOUS
  <2>1. g # 0 /\ g <= n
    BY <1>1, <1>3, <1>4, Z3
  <2>2. CASE g = n
    <3>1. (n * c + 0) % n = 0
      BY <1>1, DivModUnique
    <3>2. n * c + 0 = i
      BY <1>1, <1>4, <2>2, Z3
    <3> QED
      BY <3>1, <3>2
  <2>3. CASE g # n
    <3>1. g \in 2 .. n - 1 /\ g \in Nat \ {0}
      BY <1>1, <1>3, <2>1, <2>3
    <3>2. n % g = 0
      <4>1. (g * d + 0) % g = 0
        BY <3>1, DivModUnique
      <4>2. g * d + 0 = n
        BY <1>1, <1>4
      <4> QED
        BY <4>1, <4>2
    <3> QED
      BY <3>1, <3>2 DEF Prime
  <2> QED
    BY <2>2, <2>3
<1>8. x \in Int /\ (g = 1 <=> i % n # 0) /\ (i % n # 0 => (i * (x % n)) % n = 1)
  <2>1. i \in Int
    OBVIOUS
  <2>2. (i * (x % n)) % n = (i * x) % n
    BY <1>1, <1>3, <2>1, Reduced, ZenonT(30)
  <2> QED
    BY <1>3, <1>5, <1>6, <1>7, <2>2
<1> QED
  BY <1>8, Zenon DEF g, x, r

\* A number that is no multiple of a prime has an inverse.
LEMMA PrimeInverts ==
    ASSUME NEW n, Prime(n), NEW i \in Int, i % n # 0
    PROVE  \E x \in Int : (i * x) % n = 1
<1>1. n \in Nat \ {0}
  BY DEF Prime
<1>2. PICK f : Euclid(f)
  BY EuclidDefined
<1> DEFINE r == i % n
<1>3. r \in Int /\ r \in Nat /\ r % n = r
  <2>1. r \in 0 .. n - 1
    BY <1>1, DivMod
  <2> HIDE DEF r
  <2> QED
    BY <1>1, <2>1, Remainders
<1> HIDE DEF r
<1> DEFINE y == f[<<r, n>>].x
           x == y % n
<1>4. x \in Int /\ (r * x) % n = 1
  <2>1. r % n # 0
    BY <1>3 DEF r
  <2>2. y \in Int /\ (r * x) % n = 1
    BY <1>2, <1>3, <2>1, EuclidInverts
  <2> HIDE DEF y
  <2> QED
    BY <1>1, <2>2, Reduced
<1> HIDE DEF x
<1>5. (x * (i % n)) % n = (x * i) % n
  BY <1>1, <1>4, Reduced
<1>6. r * x = x * r /\ i * x = x * i
  BY <1>3, <1>4, Z3
<1> QED
  BY <1>4, <1>5, <1>6 DEF r

\* A product is a multiple of a prime only if a factor is.
LEMMA NoZeroDivisors ==
    ASSUME NEW n, Prime(n), NEW i \in Int, NEW j \in Int, (i * j) % n = 0
    PROVE  i % n = 0 \/ j % n = 0
<1> SUFFICES ASSUME i % n # 0 PROVE j % n = 0
  OBVIOUS
<1>1. n \in Nat \ {0} /\ n >= 2
  BY DEF Prime
<1>2. PICK x \in Int : (i * x) % n = 1
  BY PrimeInverts
<1>3. PICK k \in Int : i * x = 1 + n * k
  <2> DEFINE e == i * x
  <2>1. e \in Int /\ e % n = 1
    BY <1>2, Z3
  <2> HIDE DEF e
  <2>2. Exceeds(e, 1, n)
    BY <1>1, <2>1, Remainder
  <2> QED
    BY <2>2 DEF Exceeds, e
<1>4. PICK l \in Int : i * j = 0 + n * l
  <2> DEFINE e == i * j
  <2>1. e \in Int /\ e % n = 0
    BY Z3
  <2> HIDE DEF e
  <2>2. Exceeds(e, 0, n)
    BY <1>1, <2>1, Remainder
  <2> QED
    BY <2>2 DEF Exceeds, e
<1>5. l * x - j * k \in Int /\ j = n * (l * x - j * k) + 0
  <2>1. (i * x) * j = (i * j) * x
    BY Z3
  <2>2. (1 + n * k) * j = (0 + n * l) * x
    BY <1>3, <1>4, <2>1
  <2> QED
    BY <1>1, <2>2, Z3
<1> DEFINE e == l * x - j * k
<1>6. e \in Int /\ j = n * e + 0
  BY <1>5
<1> HIDE DEF e
<1>7. (n * e + 0) % n = 0
  BY <1>1, <1>6, DivModUnique
<1> QED
  BY <1>6, <1>7

-----------------------------------------------------------------------------
\* A map whose square negates, modulo an odd n, goes through the numbers from
\* 1 to n - 1 in cycles of four.
LEMMA QuarterTurns ==
    ASSUME NEW n \in Nat, n >= 2, n % 2 = 1, NEW f \in [1 .. n - 1 -> 1 .. n - 1],
           \A s \in 1 .. n - 1 : f[f[s]] = n - s
    PROVE  (n - 1) % 4 = 0
<1> DEFINE D == 1 .. n - 1
           Closed(S) == S \in SUBSET D /\ \A s \in S : f[s] \in S
           T == { k \in Nat : \A S : Closed(S) /\ Cardinality(S) <= k
                                       => Cardinality(S) % 4 = 0 }
<1>1. \A s \in D : f[s] \in D /\ n - s \in D /\ f[f[s]] = n - s
  OBVIOUS
<1>2. ASSUME NEW s \in D
      PROVE  f[n - s] = n - f[s] /\ n - s # s /\ f[s] # s /\ f[s] # n - s
  <2>1. f[f[f[s]]] = n - f[s]
    BY <1>1
  <2>2. f[n - s] = n - f[s]
    BY <1>1, <2>1
  <2>3. n - s # s
    BY Z3
  <2>4. f[s] # s
    BY <1>1, <2>3
  <2>5. f[s] # n - s
    <3> SUFFICES ASSUME f[s] = n - s PROVE FALSE
      OBVIOUS
    <3>1. f[n - s] = n - s
      BY <1>1
    <3>2. n - f[s] = s
      BY <3>1
    <3> QED
      BY <2>2, <2>3, <3>1, <3>2
  <2> QED
    BY <2>2, <2>3, <2>4, <2>5
<1>3. \A S : Closed(S) => IsFiniteSet(S) /\ Cardinality(S) \in Nat
  <2> SUFFICES ASSUME NEW S, Closed(S) PROVE IsFiniteSet(S) /\ Cardinality(S) \in Nat
    OBVIOUS
  <2>1. 1 \in Int /\ n - 1 \in Int
    OBVIOUS
  <2>2. IsFiniteSet(D)
    BY <2>1, FS_Interval
  <2>3. IsFiniteSet(S)
    BY <2>2, FS_Subset
  <2> QED
    BY <2>3, FS_CardinalityType
<1>4. 0 \in T
  <2> SUFFICES ASSUME NEW S, Closed(S), Cardinality(S) <= 0
               PROVE  Cardinality(S) % 4 = 0
    OBVIOUS
  <2>1. Cardinality(S) = 0
    <3> HIDE DEF Closed
    <3>1. Cardinality(S) \in Nat
      BY <1>3
    <3> QED
      BY <3>1
  <2> QED
    BY <2>1
<1>5. ASSUME NEW k \in Nat, k \in T
      PROVE  k + 1 \in T
  <2> SUFFICES ASSUME NEW S, Closed(S), Cardinality(S) <= k + 1
               PROVE  Cardinality(S) % 4 = 0
    OBVIOUS
  <2>1. IsFiniteSet(S) /\ Cardinality(S) \in Nat
    BY <1>3
  <2>2. CASE S = {}
    BY <2>2, FS_EmptySet
  <2>3. CASE S # {}
    <3>1. PICK s \in S : s \in D
      BY <2>3
    <3> DEFINE t == f[s]
               u == n - s
               v == n - t
    <3>2. s \in S /\ t \in S /\ u \in S /\ v \in S
      <4>1. t \in S /\ t \in D
        BY <3>1
      <4>2. f[s] = t /\ f[t] = u /\ f[u] = v
        BY <1>1, <1>2, <3>1
      <4> QED
        BY <3>1, <4>1, <4>2
    <3>3. f[s] = t /\ f[t] = u /\ f[u] = v /\ f[v] = s
      <4>1. t \in D /\ u \in D
        BY <1>1, <3>1
      <4>2. f[v] = n - u
        <5>1. f[u] = v
          BY <1>2, <3>1
        <5>2. f[f[u]] = n - u
          BY <1>1, <4>1
        <5> QED
          BY <5>1, <5>2
      <4>3. n - u = s
        BY <3>1
      <4> QED
        BY <1>1, <1>2, <3>1, <4>2, <4>3
    <3>4. t # s /\ u # s /\ u # t /\ v # s /\ v # t /\ v # u
      <4>1. t # s /\ u # s /\ u # t
        BY <1>2, <3>1
      <4>2. t \in D /\ v # t
        BY <1>1, <1>2, <3>1
      <4> QED
        BY <3>3, <4>1, <4>2
    <3> DEFINE S1 == S \ {s}
               S2 == S1 \ {t}
               S3 == S2 \ {u}
               S4 == S3 \ {v}
    <3> HIDE DEF t, u, v
    <3>5. IsFiniteSet(S1) /\ Cardinality(S1) = Cardinality(S) - 1
      BY <2>1, <3>1, FS_RemoveElement
    <3>6. t \in S1 /\ u \in S1 /\ v \in S1
      BY <3>2, <3>4
    <3> HIDE DEF S1
    <3>7. IsFiniteSet(S2) /\ Cardinality(S2) = Cardinality(S1) - 1
      BY <3>5, <3>6, FS_RemoveElement
    <3>8. u \in S2 /\ v \in S2
      BY <3>4, <3>6
    <3> HIDE DEF S2
    <3>9. IsFiniteSet(S3) /\ Cardinality(S3) = Cardinality(S2) - 1
      BY <3>7, <3>8, FS_RemoveElement
    <3>10. v \in S3
      BY <3>4, <3>8
    <3> HIDE DEF S3
    <3>11. IsFiniteSet(S4) /\ Cardinality(S4) = Cardinality(S3) - 1
      BY <3>9, <3>10, FS_RemoveElement
    <3>12. S4 = S \ {s, t, u, v}
      BY DEF S1, S2, S3
    <3> HIDE DEF S4
    <3>13. Closed(S4)
      <4>1. S4 \in SUBSET D
        BY <3>12
      <4>2. ASSUME NEW e \in S4 PROVE f[e] \in S4
        <5>1. e \in S /\ e \in D /\ f[e] \in S /\ f[f[e]] = n - e
          BY <3>12
        \* Its image has no other origin in the cycle.
        <5>2. \A x, y \in D : f[x] = f[y] => x = y
          <6> SUFFICES ASSUME NEW x \in D, NEW y \in D, f[x] = f[y] PROVE x = y
            OBVIOUS
          <6>1. n - x = n - y
            BY <1>1
          <6> QED
            BY <6>1
        <5>3. s \in D /\ t \in D /\ u \in D /\ v \in D
          BY <3>2
        <5> QED
          BY <3>3, <3>12, <5>1, <5>2, <5>3
      <4> QED
        BY <4>1, <4>2
    <3>14. Cardinality(S4) \in Nat /\ Cardinality(S) = Cardinality(S4) + 4
      <4> HIDE DEF Closed
      <4>1. Cardinality(S4) \in Nat
        BY <1>3, <3>13
      <4> QED
        BY <2>1, <3>5, <3>7, <3>9, <3>11, <4>1
    <3>15. Cardinality(S4) % 4 = 0
      <4> HIDE DEF Closed
      <4>1. Cardinality(S4) <= k
        BY <3>14
      <4> QED
        BY <1>5, <3>13, <4>1
    <3> QED
      BY <3>14, <3>15
  <2> QED
    BY <2>2, <2>3
<1> HIDE DEF T
<1>6. n - 1 \in T
  <2>1. n - 1 \in Nat /\ \A k \in 0 .. (n - 1) - 1 : k \in T => k + 1 \in T
    BY <1>5
  <2>2. \A k \in 0 .. n - 1 : k \in T
    BY <1>4, <2>1, Induction
  <2> QED
    BY <2>2
<1>7. Cardinality(D) = n - 1
  <2>1. 1 \in Int /\ n - 1 \in Int
    OBVIOUS
  <2>2. Cardinality(1 .. n - 1) = IF 1 > n - 1 THEN 0 ELSE (n - 1) - 1 + 1
    BY <2>1, FS_Interval
  <2> QED
    BY <2>2
<1>8. Closed(D)
  OBVIOUS
<1> HIDE DEF D, Closed
<1> QED
  BY <1>6, <1>7, <1>8 DEF T

\* Modulo such an n there is no square root of -1: multiplying by it would be
\* such a map.
LEMMA MinusOne ==
    ASSUME NEW n \in Nat, n % 4 = 3, NEW i \in Int
    PROVE  (i * i + 1) % n # 0
<1> SUFFICES ASSUME (i * i + 1) % n = 0 PROVE FALSE
  OBVIOUS
<1>1. n >= 2 /\ n % 2 = 1 /\ n \in Nat \ {0} /\ n \in Int
  OBVIOUS
<1>2. PICK l \in Int : i * i + 1 = n * l
  <2> DEFINE e == i * i + 1
  <2>1. e \in Int /\ e % n = 0
    BY Z3
  <2> HIDE DEF e
  <2>2. Exceeds(e, 0, n)
    BY <1>1, <2>1, Remainder
  <2>3. PICK l \in Int : e = 0 + n * l
    BY <2>2 DEF Exceeds
  <2>4. e = n * l
    BY <1>1, <2>3, Z3
  <2> QED
    BY <2>4 DEF e
<1> DEFINE D == 1 .. n - 1
           f == [s \in D |-> (i * s) % n]
<1>3. ASSUME NEW s \in D
      PROVE  f[s] \in D /\ (i * f[s]) % n = n - s
  <2> DEFINE m == f[s]
             p == i * s
  <2>1. p \in Int /\ m = p % n /\ s \in Int
    BY Z3
  <2> HIDE DEF m, p
  <2>2. m \in 0 .. n - 1 /\ m \in Int
    BY <1>1, <2>1, DivMod
  <2>3. Exceeds(p, m, n)
    BY <1>1, <2>1, Remainder
  <2>4. PICK k \in Int : i * s = m + n * k
    BY <2>3 DEF Exceeds, p
  <2> DEFINE q == l * s - 1 - i * k
  <2>5. q \in Int /\ i * m = n * q + (n - s)
    <3>1. i * (m + n * k) = (n * l - 1) * s
      <4>1. i * (i * s) = (i * i + 1) * s - s
        BY Z3
      <4>2. (n * l) * s - s = (n * l - 1) * s
        BY <1>1, <1>2, Z3
      <4> QED
        BY <1>2, <2>4, <4>1, <4>2
    <3>2. i * (m + n * k) = i * m + n * (i * k) /\ (n * l - 1) * s = n * (l * s) - s
      BY <1>1, <2>1, <2>2, Z3
    <3>3. l * s \in Int /\ i * k \in Int /\ i * m \in Int
      BY <2>1, <2>2, Z3
    <3> DEFINE c == l * s
               d == i * k
               z == i * m
    <3>4. c \in Int /\ d \in Int /\ z \in Int /\ z + n * d = n * c - s
      BY <3>1, <3>2, <3>3
    <3> HIDE DEF c, d, z
    <3>5. z = n * (c - 1 - d) + (n - s)
      BY <1>1, <2>1, <3>4, Z3
    <3> QED
      BY <3>4, <3>5 DEF c, d, z
  <2> HIDE DEF q
  <2>6. n - s \in 0 .. n - 1
    OBVIOUS
  <2>7. (i * m) % n = n - s
    BY <1>1, <2>5, <2>6, DivModUnique, ZenonT(30)
  <2>8. m # 0
    <3>1. i * 0 = 0 /\ 0 % n = 0
      BY <1>1, Remainders
    <3> QED
      BY <2>7, <3>1
  <2> QED
    BY <2>2, <2>7, <2>8 DEF m
<1>4. f \in [D -> D] /\ \A s \in D : f[f[s]] = n - s
  <2>1. \A s \in D : f[s] \in D
    BY <1>3
  <2>2. \A s \in D : f[s] = (i * s) % n
    OBVIOUS
  <2>3. f = [s \in D |-> f[s]]
    OBVIOUS
  <2> HIDE DEF f
  <2> QED
    BY <1>3, <2>1, <2>2, <2>3
<1> HIDE DEF f
<1>5. (n - 1) % 4 = 0
  BY <1>1, <1>4, QuarterTurns
<1> QED
  BY <1>5

\* A sum of two squares is then a multiple of n only for multiples of n.
LEMMA SumOfSquares ==
    ASSUME NEW n, Prime(n), n % 4 = 3, NEW i \in Int, NEW j \in Int,
           (i * i + j * j) % n = 0
    PROVE  i % n = 0 /\ j % n = 0
<1>1. n \in Nat \ {0} /\ n \in Int /\ n >= 2
  BY DEF Prime
<1>2. PICK l \in Int : i * i + j * j = n * l
  <2> DEFINE e == i * i + j * j
  <2>1. e \in Int /\ e % n = 0
    BY Z3
  <2> HIDE DEF e
  <2>2. Exceeds(e, 0, n)
    BY <1>1, <2>1, Remainder
  <2>3. PICK l \in Int : e = 0 + n * l
    BY <2>2 DEF Exceeds
  <2>4. e = n * l
    BY <1>1, <2>1, <2>3, Z3
  <2> QED
    BY <2>4 DEF e
<1>3. i % n = 0
  <2> SUFFICES ASSUME i % n # 0 PROVE FALSE
    OBVIOUS
  <2>1. PICK x \in Int : (i * x) % n = 1
    BY PrimeInverts
  <2>2. PICK k \in Int : i * x = 1 + n * k
    <3> DEFINE e == i * x
    <3>1. e \in Int /\ e % n = 1
      BY <2>1, Z3
    <3> HIDE DEF e
    <3>2. Exceeds(e, 1, n)
      BY <1>1, <3>1, Remainder
    <3> QED
      BY <3>2 DEF Exceeds, e
  <2> DEFINE y == j * x
             z == l * (x * x) - 2 * k - n * (k * k)
  <2>3. y \in Int /\ z \in Int /\ y * y + 1 = n * z + 0
    <3>1. (i * x) * (i * x) + (j * x) * (j * x) = (i * i + j * j) * (x * x)
      BY Z3
    <3>2. (1 + n * k) * (1 + n * k) + y * y = (n * l) * (x * x)
      BY <1>2, <2>2, <3>1
    <3> QED
      BY <1>1, <3>2, Z3
  <2> HIDE DEF y, z
  <2>4. (n * z + 0) % n = 0
    BY <1>1, <2>3, DivModUnique
  <2> QED
    BY <1>1, <2>3, <2>4, MinusOne
<1>4. j % n = 0
  <2>1. PICK k \in Int : i = n * k
    <3>1. Exceeds(i, 0, n)
      BY <1>1, <1>3, Remainder
    <3>2. PICK k \in Int : i = 0 + n * k
      BY <3>1 DEF Exceeds
    <3>3. i = n * k
      BY <1>1, <3>2, Z3
    <3> QED
      BY <3>3
  <2> DEFINE z == l - k * (n * k)
  <2>2. z \in Int /\ j * j = n * z + 0
    <3>1. (n * k) * (n * k) + j * j = n * l
      BY <1>2, <2>1
    <3> QED
      BY <1>1, <3>1, Z3
  <2> HIDE DEF z
  <2>3. (n * z + 0) % n = 0
    BY <1>1, <2>2, DivModUnique
  <2> QED
    BY <2>2, <2>3, NoZeroDivisors
<1> QED
  BY <1>3, <1>4

-----------------------------------------------------------------------------
\* The powers of an integer.
PowersOf(b) == CHOOSE g \in [Nat -> Int] : g[0] = 1 /\ \A i \in Nat : g[i + 1] = b * g[i]
Pow(b, i) == PowersOf(b)[i]

\* The recursion defines a function, which obeys it.
LEMMA PowSteps ==
    ASSUME NEW b \in Int
    PROVE  Pow(b, 0) = 1 /\ \A i \in Nat : Pow(b, i) \in Int /\ Pow(b, i + 1) = b * Pow(b, i)
<1> DEFINE H == UNION { [0 .. i - 1 -> Int] : i \in Nat }
           step == [ih \in Nat \X H |-> IF ih[1] = 0 THEN 1 ELSE b * ih[2][ih[1] - 1]]
<1>1. ASSUME NEW i \in Nat, NEW h \in [0 .. i - 1 -> Int]
      PROVE  /\ step[<<i, h>>] = IF i = 0 THEN 1 ELSE b * h[i - 1]
             /\ step[<<i, h>>] \in Int
  <2>1. h \in H
    OBVIOUS
  <2>2. step[<<i, h>>] = IF i = 0 THEN 1 ELSE b * h[i - 1]
    <3> HIDE DEF H
    <3> QED
      BY <2>1
  <2>3. i # 0 => b * h[i - 1] \in Int
    <3> DEFINE v == h[i - 1]
    <3>1. i # 0 => v \in Int
      OBVIOUS
    <3> HIDE DEF v
    <3>2. v \in Int => b * v \in Int
      BY Z3
    <3> QED
      BY <3>1, <3>2 DEF v
  <2> HIDE DEF step
  <2> QED
    BY <2>2, <2>3
<1> HIDE DEF step
<1>2. PICK g \in [Nat -> Int] : Unfolds(g, step)
  <2>1. \A i \in Nat : \A h \in [0 .. i - 1 -> Int] : step[<<i, h>>] \in Int
    BY <1>1
  <2> QED
    BY <2>1, CourseOfValues
<1>3. ASSUME NEW i \in Nat
      PROVE  g[i] = IF i = 0 THEN 1 ELSE b * g[i - 1]
  <2> DEFINE h == [j \in 0 .. i - 1 |-> g[j]]
  <2>1. h \in [0 .. i - 1 -> Int] /\ (i # 0 => h[i - 1] = g[i - 1])
    OBVIOUS
  <2>2. g[i] = step[<<i, h>>]
    BY <1>2 DEF Unfolds
  <2> HIDE DEF h
  <2> QED
    BY <1>1, <2>1, <2>2
<1>4. g[0] = 1 /\ \A i \in Nat : g[i + 1] = b * g[i]
  <2>1. \A i \in Nat : i + 1 \in Nat /\ i + 1 # 0 /\ (i + 1) - 1 = i
    OBVIOUS
  <2> QED
    BY <1>3, <2>1
<1>5. /\ PowersOf(b) \in [Nat -> Int] /\ PowersOf(b)[0] = 1
      /\ \A i \in Nat : PowersOf(b)[i + 1] = b * PowersOf(b)[i]
  BY <1>4 DEF PowersOf
<1> QED
  BY <1>5 DEF Pow

\* The first two powers.
LEMMA PowSmall ==
    ASSUME NEW b \in Int
    PROVE  Pow(b, 1) = b /\ Pow(b, 2) = b * b
<1>1. 0 + 1 = 1 /\ 1 + 1 = 2 /\ b * 1 = b
  BY Z3
<1> QED
  BY <1>1, PowSteps

\* The laws of powers.
LEMMA PowSum ==
    ASSUME NEW b \in Int, NEW i \in Nat, NEW j \in Nat
    PROVE  Pow(b, i + j) = Pow(b, i) * Pow(b, j)
<1> DEFINE S == { k \in Nat : Pow(b, i + k) = Pow(b, i) * Pow(b, k) }
<1>1. 0 \in S
  <2>1. i + 0 = i /\ Pow(b, i) * 1 = Pow(b, i)
    <3>1. Pow(b, i) \in Int
      BY PowSteps
    <3> QED
      BY <3>1, Z3
  <2> QED
    BY <2>1, PowSteps
<1>2. ASSUME NEW k \in 0 .. j - 1, k \in S
      PROVE  k + 1 \in S
  <2> DEFINE u == Pow(b, i)
             v == Pow(b, k)
             w == Pow(b, i + k)
  <2>1. u \in Int /\ v \in Int /\ w = u * v
    BY <1>2, PowSteps
  <2>2. Pow(b, k + 1) = b * v
    BY PowSteps
  <2>3. Pow(b, i + (k + 1)) = b * w
    <3>1. i + (k + 1) = (i + k) + 1 /\ i + k \in Nat
      OBVIOUS
    <3> QED
      BY <3>1, PowSteps
  <2> HIDE DEF u, v, w
  <2>4. b * (u * v) = u * (b * v)
    BY <2>1, Z3
  <2> QED
    BY <2>1, <2>2, <2>3, <2>4 DEF u
<1> HIDE DEF S
<1>3. \A k \in 0 .. j : k \in S
  BY <1>1, <1>2, Induction
<1> QED
  BY <1>3 DEF S

\* The powers of one.
LEMMA PowOne ==
    ASSUME NEW i \in Nat
    PROVE  Pow(1, i) = 1
<1> DEFINE S == { k \in Nat : Pow(1, k) = 1 }
<1>1. 0 \in S
  BY PowSteps
<1>2. ASSUME NEW k \in 0 .. i - 1, k \in S
      PROVE  k + 1 \in S
  <2>1. Pow(1, k + 1) = 1 * Pow(1, k)
    BY PowSteps
  <2> QED
    BY <1>2, <2>1
<1> HIDE DEF S
<1>3. \A k \in 0 .. i : k \in S
  BY <1>1, <1>2, Induction
<1> QED
  BY <1>3 DEF S

\* A power of a product is the product of the powers.
LEMMA PowTimes ==
    ASSUME NEW b \in Int, NEW c \in Int, NEW i \in Nat
    PROVE  Pow(b * c, i) = Pow(b, i) * Pow(c, i)
<1> DEFINE e == b * c
           S == { k \in Nat : Pow(e, k) = Pow(b, k) * Pow(c, k) }
<1>0. e \in Int
  BY Z3
<1> HIDE DEF e
<1>1. 0 \in S
  <2>1. Pow(e, 0) = 1 /\ Pow(b, 0) = 1 /\ Pow(c, 0) = 1
    BY <1>0, PowSteps
  <2> QED
    BY <2>1
<1>2. ASSUME NEW k \in 0 .. i - 1, k \in S
      PROVE  k + 1 \in S
  <2> DEFINE u == Pow(e, k)
             v == Pow(b, k)
             w == Pow(c, k)
  <2>1. v \in Int /\ w \in Int /\ u = v * w
    BY <1>2, PowSteps
  <2>2. Pow(e, k + 1) = e * u /\ Pow(b, k + 1) = b * v /\ Pow(c, k + 1) = c * w
    <3>1. Pow(e, k + 1) = e * u
      BY <1>0, PowSteps
    <3>2. Pow(b, k + 1) = b * v
      BY PowSteps
    <3>3. Pow(c, k + 1) = c * w
      BY PowSteps
    <3> QED
      BY <3>1, <3>2, <3>3
  <2> HIDE DEF u, v, w
  <2>3. (b * c) * (v * w) = (b * v) * (c * w)
    BY <2>1, Z3
  <2> QED
    BY <2>1, <2>2, <2>3 DEF e
<1> HIDE DEF S
<1>3. \A k \in 0 .. i : k \in S
  BY <1>1, <1>2, Induction
<1> QED
  BY <1>3 DEF S, e

\* A power of a power.
LEMMA PowPower ==
    ASSUME NEW b \in Int, NEW i \in Nat, NEW j \in Nat
    PROVE  Pow(b, i * j) = Pow(Pow(b, i), j)
<1> DEFINE c == Pow(b, i)
           S == { k \in Nat : Pow(b, i * k) = Pow(c, k) }
<1>0. c \in Int
  BY PowSteps
<1> HIDE DEF c
<1>1. 0 \in S
  <2>1. i * 0 = 0
    BY Z3
  <2> QED
    BY <1>0, <2>1, PowSteps
<1>2. ASSUME NEW k \in 0 .. j - 1, k \in S
      PROVE  k + 1 \in S
  <2> DEFINE e == i * k
  <2>1. e \in Nat /\ i * (k + 1) = e + i
    BY Z3
  <2> HIDE DEF e
  <2>2. Pow(b, e + i) = Pow(b, e) * c
    BY <2>1, PowSum DEF c
  <2>3. Pow(c, k + 1) = c * Pow(c, k) /\ Pow(c, k) \in Int
    BY <1>0, PowSteps
  <2>4. Pow(b, e) = Pow(c, k)
    BY <1>2 DEF e
  <2>5. Pow(c, k) * c = c * Pow(c, k)
    BY <1>0, <2>3, Z3
  <2> QED
    BY <2>1, <2>2, <2>3, <2>4, <2>5
<1> HIDE DEF S
<1>3. \A k \in 0 .. j : k \in S
  BY <1>1, <1>2, Induction
<1> QED
  BY <1>3 DEF S, c

\* Numbers with equal remainders have powers with equal remainders.
LEMMA PowSame ==
    ASSUME NEW n \in Nat \ {0}, NEW b \in Int, NEW c \in Int, Same(b, c, n), NEW i \in Nat
    PROVE  Same(Pow(b, i), Pow(c, i), n)
<1> DEFINE S == { k \in Nat : Same(Pow(b, k), Pow(c, k), n) }
<1>1. 0 \in S
  <2>1. Pow(b, 0) = 1 /\ Pow(c, 0) = 1
    BY PowSteps
  <2> QED
    BY <2>1 DEF Same
<1>2. ASSUME NEW k \in 0 .. i - 1, k \in S
      PROVE  k + 1 \in S
  <2> DEFINE u == Pow(b, k)
             v == Pow(c, k)
  <2>1. u \in Int /\ v \in Int /\ Pow(b, k + 1) = b * u /\ Pow(c, k + 1) = c * v
    <3>0. k \in Nat
      OBVIOUS
    <3> HIDE DEF S
    <3>1. u \in Int /\ Pow(b, k + 1) = b * u
      BY <3>0, PowSteps
    <3>2. v \in Int /\ Pow(c, k + 1) = c * v
      BY <3>0, PowSteps
    <3> QED
      BY <3>1, <3>2
  <2>2. Same(u, v, n)
    BY <1>2
  <2> HIDE DEF u, v
  <2>3. Same(b * u, c * v, n)
    BY <2>1, <2>2, SameResults
  <2> QED
    BY <2>1, <2>3
<1> HIDE DEF S
<1>3. \A k \in 0 .. i : k \in S
  BY <1>1, <1>2, Induction
<1> QED
  BY <1>3 DEF S

-----------------------------------------------------------------------------
\* The powers of two, which count the subsets of a set.
LEMMA TwoPowers ==
    /\ 2^0 = 1
    /\ \A n \in Nat : 2^n \in Nat \ {0} /\ 2^(n + 1) = 2 * 2^n
<1>1. ASSUME NEW n \in Nat
      PROVE  /\ IsFiniteSet(1 .. n) /\ Cardinality(1 .. n) = n
             /\ IsFiniteSet(SUBSET (1 .. n))
             /\ Cardinality(SUBSET (1 .. n)) = 2^n /\ 2^n \in Nat
  <2>1. IsFiniteSet(1 .. n) /\ Cardinality(1 .. n) = n
    <3>1. 1 \in Int /\ n \in Int
      OBVIOUS
    <3>2. IsFiniteSet(1 .. n) /\ Cardinality(1 .. n) = IF 1 > n THEN 0 ELSE n - 1 + 1
      BY <3>1, FS_Interval
    <3>3. (IF 1 > n THEN 0 ELSE n - 1 + 1) = n
      OBVIOUS
    <3> QED
      BY <3>2, <3>3
  <2>2. /\ IsFiniteSet(SUBSET (1 .. n))
        /\ Cardinality(SUBSET (1 .. n)) = 2^Cardinality(1 .. n)
    BY <2>1, FS_SUBSET
  <2>3. Cardinality(SUBSET (1 .. n)) \in Nat
    BY <2>2, FS_CardinalityType
  <2> QED
    BY <2>1, <2>2, <2>3
<1>2. 2^0 = 1
  <2>1. SUBSET (1 .. 0) = {{}}
    OBVIOUS
  <2>2. Cardinality({{}}) = 1
    BY FS_Singleton
  <2> QED
    BY <1>1, <2>1, <2>2
<1>3. ASSUME NEW n \in Nat
      PROVE  2^(n + 1) = 2 * 2^n
  <2> DEFINE S == 1 .. n
             x == n + 1
             T == SUBSET S
             U == { A \cup {x} : A \in T }
             f == [A \in T |-> A \cup {x}]
  <2>1. x \notin S /\ 1 .. n + 1 = S \cup {x}
    OBVIOUS
  <2>2. IsFiniteSet(T) /\ Cardinality(T) = 2^n /\ 2^n \in Nat
    BY <1>1
  <2>3. f \in Bijection(T, U)
    <3>1. \A A, B \in T : A \cup {x} = B \cup {x} => A = B
      BY <2>1
    <3>2. f \in [T -> U]
      OBVIOUS
    <3>3. \A A, B \in T : f[A] = f[B] => A = B
      <4> HIDE DEF T, x
      <4> QED
        BY <3>1
    <3>4. \A B \in U : \E A \in T : f[A] = B
      OBVIOUS
    <3> HIDE DEF f, U, T
    <3> QED
      BY <3>2, <3>3, <3>4 DEF Bijection, Injection, Surjection, IsInjective
  <2>4. IsFiniteSet(U) /\ Cardinality(U) = Cardinality(T)
    <3>1. ExistsBijection(T, U)
      BY <2>3 DEF ExistsBijection
    <3> HIDE DEF T, U, f
    <3> QED
      BY <2>2, <3>1, FS_Bijection
  <2>5. T \cap U = {}
    BY <2>1
  <2>6. SUBSET (1 .. n + 1) = T \cup U
    <3> HIDE DEF S, x
    <3>1. ASSUME NEW A \in SUBSET (S \cup {x}) PROVE A \in T \cup U
      <4>1. CASE x \in A
        <5>1. A = (A \ {x}) \cup {x} /\ A \ {x} \in T
          BY <3>1, <4>1
        <5> QED
          BY <5>1
      <4>2. CASE x \notin A
        BY <3>1, <4>2
      <4> QED
        BY <4>1, <4>2
    <3>2. ASSUME NEW A \in T \cup U PROVE A \in SUBSET (S \cup {x})
      BY <3>2
    <3>3. SUBSET (S \cup {x}) = T \cup U
      BY <3>1, <3>2
    <3> QED
      BY <2>1, <3>3
  <2> HIDE DEF T, U
  <2>7. Cardinality(T \cup U) = 2^n + 2^n - 0
    BY <2>2, <2>4, <2>5, FS_Union, FS_EmptySet
  <2>8. Cardinality(SUBSET (1 .. n + 1)) = 2^(n + 1)
    <3>1. n + 1 \in Nat
      OBVIOUS
    <3> QED
      BY <1>1, <3>1
  <2> DEFINE k == 2^n
             l == 2^(n + 1)
  <2>9. k \in Nat /\ l = k + k - 0
    BY <2>2, <2>6, <2>7, <2>8
  <2> HIDE DEF k, l
  <2>10. l = 2 * k
    BY <2>9
  <2> QED
    BY <2>10 DEF k, l
<1>4. \A n \in Nat : 2^n # 0
  <2> DEFINE S == { n \in Nat : 2^n # 0 }
  <2>1. 0 \in S
    BY <1>2
  <2>2. ASSUME NEW n \in Nat, n \in S PROVE n + 1 \in S
    <3> DEFINE k == 2^n
               l == 2^(n + 1)
    <3>1. k \in Nat /\ k # 0 /\ l = 2 * k
      BY <1>1, <1>3, <2>2
    <3> HIDE DEF k, l
    <3>2. l # 0
      BY <3>1
    <3> QED
      BY <3>2 DEF l
  <2> HIDE DEF S
  <2>3. ASSUME NEW n \in Nat PROVE n \in S
    <3>1. \A i \in 0 .. n - 1 : i \in S => i + 1 \in S
      BY <2>2
    <3>2. \A i \in 0 .. n : i \in S
      BY <2>1, <3>1, Induction
    <3> QED
      BY <3>2
  <2> QED
    BY <2>3 DEF S
<1> QED
  BY <1>1, <1>2, <1>3, <1>4

-----------------------------------------------------------------------------
\* A set of naturals has a least element.
LEMMA Least ==
    ASSUME NEW C \in SUBSET Nat, C # {}
    PROVE  \E k \in C : \A j \in C : k <= j
<1>1. PICK c \in C : TRUE
  OBVIOUS
<1> DEFINE B == { i \in 0 .. c : c - i \in C }
<1>2. c \in Nat /\ B \in SUBSET (0 .. c) /\ 0 \in B
  BY <1>1
<1>3. PICK i \in B : \A j \in B : j <= i
  <2> HIDE DEF B
  <2> QED
    BY <1>2, Largest
<1>4. c - i \in C /\ i \in 0 .. c
  BY <1>3
<1>5. ASSUME NEW j \in C PROVE c - i <= j
  <2>1. CASE j <= c
    <3>1. c - j \in 0 .. c /\ c - (c - j) = j
      BY <1>1, <2>1
    <3>2. c - j \in B
      BY <3>1
    <3> QED
      BY <1>3, <1>4, <3>1, <3>2
  <2>2. CASE j > c
    BY <1>2, <1>4, <2>2
  <2> QED
    BY <1>2, <2>1, <2>2
<1> QED
  BY <1>4, <1>5

\* What two numbers of one remainder differ by is a multiple of n.
LEMMA SameDifference ==
    ASSUME NEW n \in Nat \ {0}, NEW i \in Int, NEW j \in Int
    PROVE  Same(i, j, n) <=> (i - j) % n = 0
<1> DEFINE e == i - j
<1>0. e \in Int
  OBVIOUS
<1> HIDE DEF e
<1>1. ASSUME Same(i, j, n) PROVE e % n = 0
  <2>1. Same(j, j, n)
    BY DEF Same
  <2>2. Same(i - j, j - j, n)
    BY <1>1, <2>1, SameResults
  <2>3. j - j = 0 /\ 0 % n = 0
    BY Remainders
  <2> QED
    BY <2>2, <2>3 DEF Same, e
<1>2. ASSUME e % n = 0 PROVE Same(i, j, n)
  <2>1. Exceeds(e, 0, n)
    BY <1>0, <1>2, Remainder
  <2>2. PICK k \in Int : e = 0 + n * k
    BY <2>1 DEF Exceeds
  <2>3. i = j + n * k
    BY <2>2, Z3 DEF e
  <2>4. Exceeds(i, j, n)
    BY <2>3 DEF Exceeds
  <2> QED
    BY <2>4, Shifted DEF Same
<1> QED
  BY <1>1, <1>2 DEF e

\* A factor that is no multiple of a prime cancels.
LEMMA Cancel ==
    ASSUME NEW n, Prime(n), NEW b \in Int, b % n # 0, NEW i \in Int, NEW j \in Int,
           Same(b * i, b * j, n)
    PROVE  Same(i, j, n)
<1>1. n \in Nat \ {0}
  BY DEF Prime
<1> DEFINE u == b * i
           v == b * j
           e == i - j
<1>2. u \in Int /\ v \in Int /\ u - v = b * e /\ e \in Int
  BY Z3
<1> HIDE DEF u, v, e
<1>3. (u - v) % n = 0
  <2>1. Same(u, v, n)
    BY DEF u, v
  <2> QED
    BY <1>1, <1>2, <2>1, SameDifference
<1>4. e % n = 0
  BY <1>2, <1>3, NoZeroDivisors
<1> QED
  BY <1>1, <1>4, SameDifference DEF e

\* No power of a number that a prime does not divide is divisible by it.
LEMMA PowNonzero ==
    ASSUME NEW n, Prime(n), NEW b \in Int, b % n # 0, NEW i \in Nat
    PROVE  Pow(b, i) % n # 0
<1> DEFINE S == { k \in Nat : Pow(b, k) % n # 0 }
<1>1. 0 \in S
  <2>1. n \in Nat \ {0} /\ 1 \in 0 .. n - 1
    BY DEF Prime
  <2>2. 1 % n = 1
    BY <2>1, Remainders
  <2>3. Pow(b, 0) = 1
    BY PowSteps
  <2> QED
    BY <2>2, <2>3
<1>2. ASSUME NEW k \in 0 .. i - 1, k \in S
      PROVE  k + 1 \in S
  <2>1. k \in Nat /\ Pow(b, k) % n # 0
    BY <1>2
  <2> HIDE DEF S
  <2>2. Pow(b, k) \in Int /\ Pow(b, k + 1) = b * Pow(b, k)
    BY <2>1, PowSteps
  <2>3. (b * Pow(b, k)) % n # 0
    BY <2>1, <2>2, NoZeroDivisors
  <2> QED
    BY <2>1, <2>2, <2>3 DEF S
<1> HIDE DEF S
<1>3. \A k \in 0 .. i : k \in S
  BY <1>1, <1>2, Induction
<1> QED
  BY <1>3 DEF S

\* The first power of b that is one.
IsOrder(k, b, n) ==
    /\ k \in Nat \ {0} /\ Pow(b, k) % n = 1
    /\ \A j \in 1 .. k - 1 : Pow(b, j) % n # 1

\* Two powers that agree: one of them is the other times a power that is one.
LEMMA PowQuotient ==
    ASSUME NEW n, Prime(n), NEW b \in Int, b % n # 0, NEW i \in Nat, NEW j \in Nat, i < j,
           Same(Pow(b, i), Pow(b, j), n)
    PROVE  Pow(b, j - i) % n = 1
<1>1. n \in Nat \ {0} /\ 1 \in 0 .. n - 1
  BY DEF Prime
<1> DEFINE d == j - i
<1>2. d \in Nat /\ i + d = j
  OBVIOUS
<1> HIDE DEF d
<1> DEFINE u == Pow(b, i)
           v == Pow(b, d)
<1>3. u \in Int /\ u % n # 0
  BY PowSteps, PowNonzero
<1>4. v \in Int /\ Pow(b, j) = u * v
  <2>1. v \in Int
    BY <1>2, PowSteps
  <2>2. Pow(b, i + d) = u * v
    BY <1>2, PowSum
  <2> QED
    BY <1>2, <2>1, <2>2
<1>5. Same(u, u * v, n)
  BY <1>4
<1> HIDE DEF u, v
<1>6. Same(u * v, u * 1, n)
  BY <1>3, <1>5 DEF Same
<1>7. Same(v, 1, n)
  BY <1>3, <1>4, <1>6, Cancel
<1>8. 1 % n = 1
  BY <1>1, Remainders
<1> QED
  BY <1>7, <1>8 DEF Same, v, d

\* Every number that a prime does not divide has an order.
LEMMA HasOrder ==
    ASSUME NEW n, Prime(n), NEW b \in Int, b % n # 0
    PROVE  \E k : IsOrder(k, b, n)
<1> DEFINE C == { k \in Nat \ {0} : Pow(b, k) % n = 1 }
<1>1. n \in Nat \ {0} /\ n \in Int
  BY DEF Prime
<1>2. C # {}
  <2> DEFINE f == [i \in 0 .. n |-> Pow(b, i) % n]
  <2>1. f \in [0 .. n -> 0 .. n - 1]
    <3>1. ASSUME NEW i \in 0 .. n PROVE Pow(b, i) % n \in 0 .. n - 1
      <4>1. Pow(b, i) \in Int
        BY <1>1, PowSteps
      <4> QED
        BY <1>1, <4>1, Reduced
    <3> QED
      BY <3>1
  <2>2. /\ IsFiniteSet(0 .. n) /\ Cardinality(0 .. n) = n + 1
        /\ IsFiniteSet(0 .. n - 1) /\ Cardinality(0 .. n - 1) = n
    <3>1. 0 \in Int /\ n - 1 \in Int /\ ~(0 > n) /\ ~(0 > n - 1)
      BY <1>1
    <3>2. IsFiniteSet(0 .. n) /\ Cardinality(0 .. n) = IF 0 > n THEN 0 ELSE n - 0 + 1
      BY <1>1, <3>1, FS_Interval
    <3>3. /\ IsFiniteSet(0 .. n - 1)
          /\ Cardinality(0 .. n - 1) = IF 0 > n - 1 THEN 0 ELSE (n - 1) - 0 + 1
      BY <1>1, <3>1, FS_Interval
    <3> QED
      BY <1>1, <3>1, <3>2, <3>3
  <2>3. PICK i \in 0 .. n, j \in 0 .. n : i # j /\ f[i] = f[j]
    <3>1. Cardinality(0 .. n - 1) < Cardinality(0 .. n)
      BY <1>1, <2>2
    <3> HIDE DEF f
    <3> QED
      BY <2>1, <2>2, <3>1, FS_PigeonHole
  <2>4. Same(Pow(b, i), Pow(b, j), n) /\ Same(Pow(b, j), Pow(b, i), n)
    BY <2>3 DEF Same
  <2>5. i \in Nat /\ j \in Nat /\ (i < j \/ j < i)
    BY <1>1, <2>3
  <2>6. CASE i < j
    <3>1. Pow(b, j - i) % n = 1
      BY <2>4, <2>5, <2>6, PowQuotient
    <3>2. j - i \in Nat \ {0}
      BY <2>5, <2>6
    <3> QED
      BY <3>1, <3>2
  <2>7. CASE j < i
    <3>1. Pow(b, i - j) % n = 1
      BY <2>4, <2>5, <2>7, PowQuotient
    <3>2. i - j \in Nat \ {0}
      BY <2>5, <2>7
    <3> QED
      BY <3>1, <3>2
  <2> QED
    BY <2>5, <2>6, <2>7
<1>3. PICK k \in C : \A j \in C : k <= j
  <2>1. C \in SUBSET Nat
    OBVIOUS
  <2> HIDE DEF C
  <2> QED
    BY <1>2, <2>1, Least
<1>4. ASSUME NEW j \in 1 .. k - 1 PROVE Pow(b, j) % n # 1
  <2>1. j \in Nat \ {0} /\ ~(k <= j)
    BY <1>3
  <2> QED
    BY <1>3, <2>1
<1> QED
  BY <1>3, <1>4 DEF IsOrder

-----------------------------------------------------------------------------
\* Multiplying by b goes through the numbers below a prime in cycles as long as
\* the order of b.
Cycle(s, k, b, n) == { (Pow(b, j) * s) % n : j \in 0 .. k - 1 }
Closed(S, b, n)   == S \in SUBSET (1 .. n - 1) /\ \A s \in S : (b * s) % n \in S

\* A cycle has as many elements as the order says.
LEMMA CycleSize ==
    ASSUME NEW n, Prime(n), NEW b \in Int, b % n # 0, NEW k, IsOrder(k, b, n),
           NEW s \in 1 .. n - 1
    PROVE  IsFiniteSet(Cycle(s, k, b, n)) /\ Cardinality(Cycle(s, k, b, n)) = k
<1> DEFINE f == [j \in 0 .. k - 1 |-> (Pow(b, j) * s) % n]
<1>1. n \in Nat \ {0} /\ k \in Nat \ {0} /\ s \in Int /\ s % n # 0
  <2>1. n \in Nat \ {0}
    BY DEF Prime
  <2>2. s \in 0 .. n - 1 /\ s # 0
    BY <2>1
  <2>3. s % n = s
    BY <2>1, <2>2, Remainders
  <2> QED
    BY <2>1, <2>2, <2>3 DEF IsOrder
<1>2. ASSUME NEW i \in 0 .. k - 1, NEW j \in 0 .. k - 1, i < j, f[i] = f[j]
      PROVE  FALSE
  <2> DEFINE u == Pow(b, i)
             v == Pow(b, j)
  <2>0. i \in Nat /\ j \in Nat
    OBVIOUS
  <2>1. u \in Int /\ v \in Int
    BY <2>0, PowSteps
  <2>2. (u * s) % n = (v * s) % n
    BY <1>2
  <2> HIDE DEF u, v, f
  <2>3. u * s = s * u /\ v * s = s * v
    BY <1>1, <2>1, Z3
  <2>4. Same(s * u, s * v, n)
    BY <2>2, <2>3 DEF Same
  <2>5. Same(u, v, n)
    BY <1>1, <2>1, <2>4, Cancel
  <2>6. Pow(b, j - i) % n = 1
    BY <1>2, <2>0, <2>5, PowQuotient DEF u, v
  <2>7. j - i \in 1 .. k - 1
    BY <1>1, <1>2
  <2> QED
    BY <2>6, <2>7 DEF IsOrder
<1>3. f \in Bijection(0 .. k - 1, Cycle(s, k, b, n))
  <2>1. f \in [0 .. k - 1 -> Cycle(s, k, b, n)]
    BY DEF Cycle
  <2>2. \A t \in Cycle(s, k, b, n) : \E i \in 0 .. k - 1 : f[i] = t
    BY DEF Cycle
  <2>3. \A i, j \in 0 .. k - 1 : f[i] = f[j] => i = j
    <3> SUFFICES ASSUME NEW i \in 0 .. k - 1, NEW j \in 0 .. k - 1, f[i] = f[j], i # j
                 PROVE  FALSE
      OBVIOUS
    <3>1. i < j \/ j < i
      BY <1>1
    <3> HIDE DEF f
    <3> QED
      BY <1>2, <3>1
  <2> HIDE DEF f
  <2> QED
    BY <2>1, <2>2, <2>3 DEF Bijection, Injection, Surjection, IsInjective
<1>4. IsFiniteSet(0 .. k - 1) /\ Cardinality(0 .. k - 1) = k
  <2>1. 0 \in Int /\ k - 1 \in Int /\ ~(0 > k - 1)
    BY <1>1
  <2>2. IsFiniteSet(0 .. k - 1) /\ Cardinality(0 .. k - 1) = IF 0 > k - 1 THEN 0 ELSE (k - 1) - 0 + 1
    BY <2>1, FS_Interval
  <2> QED
    BY <1>1, <2>1, <2>2
<1>5. ExistsBijection(0 .. k - 1, Cycle(s, k, b, n))
  BY <1>3 DEF ExistsBijection
<1> QED
  BY <1>4, <1>5, FS_Bijection

\* Taking a cycle out of a closed set leaves one that is.
LEMMA CycleRemoved ==
    ASSUME NEW n, Prime(n), NEW b \in Int, b % n # 0, NEW k, IsOrder(k, b, n),
           NEW S, Closed(S, b, n), NEW s \in S
    PROVE  Cycle(s, k, b, n) \subseteq S /\ Closed(S \ Cycle(s, k, b, n), b, n)
<1>1. n \in Nat \ {0} /\ k \in Nat \ {0} /\ s \in Int /\ s \in 1 .. n - 1
      /\ s \in 0 .. n - 1 /\ 1 \in 0 .. n - 1
  BY DEF Prime, IsOrder, Closed
<1> DEFINE e(j) == (Pow(b, j) * s) % n
           T == { j \in Nat : e(j) \in S }
\* The next member of the cycle.
<1>2. ASSUME NEW j \in Nat
      PROVE  e(j) \in Int /\ e(j + 1) = (b * e(j)) % n
  <2> DEFINE u == Pow(b, j)
             v == u * s
  <2>1. u \in Int /\ Pow(b, j + 1) = b * u
    BY PowSteps
  <2> HIDE DEF u
  <2>2. v \in Int /\ (b * u) * s = b * v
    BY <1>1, <2>1, Z3
  <2> HIDE DEF v
  <2>3. v % n \in Int /\ (b * (v % n)) % n = (b * v) % n
    BY <1>1, <2>2, Reduced
  <2>4. e(j) = v % n
    BY DEF u, v
  <2>5. e(j + 1) = ((b * u) * s) % n
    BY <2>1
  <2> HIDE DEF e
  <2> QED
    BY <2>2, <2>3, <2>4, <2>5
<1>3. e(0) = s
  <2>1. Pow(b, 0) * s = s
    <3>1. Pow(b, 0) = 1 /\ 1 * s = s
      BY <1>1, PowSteps
    <3> QED
      BY <3>1
  <2> QED
    BY <1>1, <2>1, Remainders
<1> HIDE DEF e
<1>4. \A j \in 0 .. k - 1 : e(j) \in S
  <2>1. 0 \in T
    BY <1>3
  <2>2. ASSUME NEW j \in Nat, j \in T PROVE j + 1 \in T
    BY <1>2, <2>2 DEF Closed
  <2>3. \A j \in 0 .. k - 1 : j \in T => j + 1 \in T
    BY <2>2
  <2> HIDE DEF T
  <2>4. \A j \in 0 .. k : j \in T
    BY <1>1, <2>1, <2>3, Induction
  <2>5. \A j \in 0 .. k - 1 : j \in 0 .. k
    BY <1>1
  <2> QED
    BY <2>4, <2>5 DEF T
<1>5. Cycle(s, k, b, n) = { e(j) : j \in 0 .. k - 1 }
  BY DEF Cycle, e
<1>6. e(k) = s
  <2> DEFINE u == Pow(b, k)
  <2>1. u \in Int /\ Same(u, 1, n)
    <3>1. 1 % n = 1
      BY <1>1, Remainders
    <3> QED
      BY <1>1, <3>1, PowSteps DEF Same, IsOrder
  <2> HIDE DEF u
  <2>2. Same(s, s, n)
    BY DEF Same
  <2>3. Same(u * s, 1 * s, n)
    BY <1>1, <2>1, <2>2, SameResults
  <2>4. 1 * s = s /\ s % n = s
    BY <1>1, Remainders
  <2> QED
    BY <2>3, <2>4 DEF Same, e, u
<1>7. ASSUME NEW d \in S \ Cycle(s, k, b, n), (b * d) % n \in Cycle(s, k, b, n)
      PROVE  FALSE
  <2>1. d \in Int /\ d \in 0 .. n - 1
    BY DEF Closed
  <2>2. PICK j \in 0 .. k - 1 : (b * d) % n = e(j)
    BY <1>5, <1>7
  <2>3. PICK i \in 0 .. k - 1 : (b * d) % n = e(i + 1)
    <3>1. CASE j = 0
      <4>1. k - 1 \in 0 .. k - 1 /\ (k - 1) + 1 = k
        BY <1>1
      <4> QED
        BY <1>3, <1>6, <2>2, <3>1, <4>1
    <3>2. CASE j # 0
      <4>0. k \in Int /\ j \in Int /\ 0 <= j /\ j <= k - 1
        BY <1>1
      <4>1. j - 1 \in 0 .. k - 1 /\ (j - 1) + 1 = j
        BY <3>2, <4>0
      <4> QED
        BY <2>2, <4>1
    <3> QED
      BY <3>1, <3>2
  <2>4. i \in Nat
    OBVIOUS
  <2>5. e(i) \in Int /\ (b * d) % n = (b * e(i)) % n
    BY <1>2, <2>3, <2>4
  <2>6. Same(b * d, b * e(i), n)
    BY <2>5 DEF Same
  <2>7. Same(d, e(i), n)
    BY <2>1, <2>5, <2>6, Cancel
  <2>8. d % n = d
    BY <1>1, <2>1, Remainders
  <2>9. e(i) % n = e(i)
    <3>1. e(i) \in S
      BY <1>4
    <3>0. S \subseteq 1 .. n - 1
      BY DEF Closed
    <3>2. e(i) \in 0 .. n - 1
      <4>1. \A v \in S : v \in 0 .. n - 1
        BY <1>1, <3>0
      <4> QED
        BY <3>1, <4>1, Zenon
    <3> QED
      BY <1>1, <3>2, Remainders
  <2> QED
    BY <1>5, <2>7, <2>8, <2>9 DEF Same
<1> QED
  BY <1>4, <1>5, <1>7 DEF Closed

\* Fermat's little theorem: the order of b divides n - 1.
LEMMA Fermat ==
    ASSUME NEW n, Prime(n), NEW b \in Int, b % n # 0
    PROVE  Pow(b, n - 1) % n = 1
<1>1. n \in Nat \ {0} /\ n \in Int /\ n >= 2 /\ 1 \in 0 .. n - 1
  BY DEF Prime
<1>2. PICK k : IsOrder(k, b, n)
  BY HasOrder
<1>3. k \in Nat \ {0} /\ k \in Int
  BY <1>2 DEF IsOrder
<1> DEFINE D == 1 .. n - 1
           T == { c \in Nat : \A S : Closed(S, b, n) /\ Cardinality(S) <= c
                                       => Cardinality(S) % k = 0 }
<1>4. IsFiniteSet(D) /\ Cardinality(D) = n - 1
  <2>1. 1 \in Int /\ n - 1 \in Int /\ ~(1 > n - 1)
    BY <1>1
  <2>2. IsFiniteSet(D) /\ Cardinality(D) = IF 1 > n - 1 THEN 0 ELSE (n - 1) - 1 + 1
    BY <2>1, FS_Interval
  <2> QED
    BY <1>1, <2>1, <2>2
<1>5. \A S : Closed(S, b, n) => IsFiniteSet(S) /\ Cardinality(S) \in Nat
  <2> SUFFICES ASSUME NEW S, Closed(S, b, n) PROVE IsFiniteSet(S) /\ Cardinality(S) \in Nat
    OBVIOUS
  <2>1. S \in SUBSET D
    BY DEF Closed
  <2> HIDE DEF D
  <2>2. IsFiniteSet(S)
    BY <1>4, <2>1, FS_Subset
  <2> QED
    BY <2>2, FS_CardinalityType
<1>6. 0 % k = 0
  BY <1>3, Remainders
<1>7. 0 \in T
  <2> SUFFICES ASSUME NEW S, Closed(S, b, n), Cardinality(S) <= 0
               PROVE  Cardinality(S) % k = 0
    OBVIOUS
  <2>1. Cardinality(S) \in Nat
    BY <1>5
  <2>2. Cardinality(S) = 0
    BY <2>1
  <2> QED
    BY <1>6, <2>2
<1>8. ASSUME NEW c \in Nat, c \in T
      PROVE  c + 1 \in T
  <2> SUFFICES ASSUME NEW S, Closed(S, b, n), Cardinality(S) <= c + 1
               PROVE  Cardinality(S) % k = 0
    OBVIOUS
  <2>1. IsFiniteSet(S) /\ Cardinality(S) \in Nat
    BY <1>5
  <2>2. CASE S = {}
    BY <1>6, <2>2, FS_EmptySet
  <2>3. CASE S # {}
    <3>1. PICK s \in S : s \in 1 .. n - 1
      BY <2>3 DEF Closed
    <3> DEFINE O == Cycle(s, k, b, n)
    <3>2. Cardinality(O) = k
      BY <1>2, <3>1, CycleSize
    <3>3. O \subseteq S /\ Closed(S \ O, b, n)
      BY <1>2, <3>1, CycleRemoved
    <3> HIDE DEF O
    <3>4. S \cap O = O
      BY <3>3
    <3>5. Cardinality(S \ O) = Cardinality(S) - k
      BY <2>1, <3>2, <3>4, FS_Difference
    <3>6. Cardinality(S \ O) \in Nat
      BY <1>5, <3>3
    <3> DEFINE r == Cardinality(S \ O)
    <3>7. r % k = 0
      <4>1. r <= c
        BY <1>3, <2>1, <3>5, <3>6
      <4> QED
        BY <1>8, <3>3, <4>1
    <3> DEFINE l == 1
    <3>8. Cardinality(S) = r + k * l /\ r \in Int /\ l \in Int
      BY <1>3, <2>1, <3>5, <3>6
    <3> HIDE DEF r, l
    <3>9. (r + k * l) % k = r % k
      BY <1>3, <3>8, Congruent
    <3> QED
      BY <3>7, <3>8, <3>9
  <2> QED
    BY <2>2, <2>3
<1> HIDE DEF T
<1>9. (n - 1) % k = 0
  <2>1. n - 1 \in T
    <3>1. n - 1 \in Nat /\ \A c \in 0 .. (n - 1) - 1 : c \in T => c + 1 \in T
      BY <1>1, <1>8
    <3>2. \A c \in 0 .. n - 1 : c \in T
      BY <1>7, <3>1, Induction
    <3> QED
      BY <1>1, <3>2
  <2>2. Closed(D, b, n)
    <3> SUFFICES ASSUME NEW s \in D PROVE (b * s) % n \in D
      BY DEF Closed
    <3>1. s \in Int /\ s \in 0 .. n - 1 /\ s # 0
      OBVIOUS
    <3>2. s % n = s
      BY <1>1, <3>1, Remainders
    <3>3. b * s \in Int
      BY <3>1, Z3
    <3>4. (b * s) % n # 0
      BY <3>1, <3>2, NoZeroDivisors
    <3>5. (b * s) % n \in 0 .. n - 1
      BY <1>1, <3>3, DivMod
    <3> QED
      BY <1>1, <3>4, <3>5
  <2> HIDE DEF D
  <2>3. Cardinality(D) <= n - 1
    BY <1>1, <1>4
  <2> QED
    BY <1>4, <2>1, <2>2, <2>3 DEF T
<1> DEFINE m == n - 1
           q == m \div k
<1>10. q \in Nat /\ n - 1 = k * q
  <2>1. m \in Nat /\ m \in Int
    BY <1>1
  <2>2. q \in Int /\ m = k * q + (m % k)
    <3> HIDE DEF m
    <3> QED
      BY <1>3, <2>1, DivMod
  <2>3. m % k = 0
    BY <1>9
  <2> HIDE DEF m, q
  <2>4. m = k * q
    BY <1>3, <2>2, <2>3, Z3
  <2>5. q >= 0
    BY <1>3, <2>1, <2>2, <2>4, Z3
  <2> QED
    BY <2>2, <2>4, <2>5 DEF m
<1> HIDE DEF q
<1>11. Pow(b, k * q) = Pow(Pow(b, k), q)
  BY <1>3, <1>10, PowPower
<1> DEFINE u == Pow(b, k)
<1>12. u \in Int /\ Same(u, 1, n) /\ 1 % n = 1
  <2>1. 1 % n = 1
    BY <1>1, Remainders
  <2> QED
    BY <1>2, <1>3, <2>1, PowSteps DEF Same, IsOrder
<1> HIDE DEF u
<1>13. Same(Pow(u, q), Pow(1, q), n)
  BY <1>1, <1>10, <1>12, PowSame
<1>14. Pow(1, q) = 1
  BY <1>10, PowOne
<1> QED
  BY <1>10, <1>11, <1>12, <1>13, <1>14 DEF Same, u

-----------------------------------------------------------------------------
\* A remainder stands for the number.
LEMMA SameRemainder ==
    ASSUME NEW n \in Nat \ {0}, NEW i \in Int
    PROVE  i % n \in Int /\ i % n \in 0 .. n - 1 /\ Same(i % n, i, n)
<1>1. i % n \in 0 .. n - 1
  BY DivMod
<1>2. (i % n) % n = i % n
  BY <1>1, Remainders
<1> QED
  BY <1>1, <1>2 DEF Same

\* One step of squaring and multiplying.
LEMMA SquareStep ==
    ASSUME NEW n \in Nat \ {0}, NEW b \in Int, NEW e \in Nat \ {0},
           NEW h, h = Pow(b, e \div 2) % n
    PROVE  /\ e \div 2 \in 0 .. e - 1
           /\ (h * h * (IF e % 2 = 1 THEN b % n ELSE 1)) % n = Pow(b, e) % n
<1> DEFINE d == e \div 2
<1>1. d \in Nat /\ d \in 0 .. e - 1 /\ e % 2 \in {0, 1} /\ e = (d + d) + (e % 2)
  OBVIOUS
<1> HIDE DEF d
<1> DEFINE u == Pow(b, d)
           v == IF e % 2 = 1 THEN b ELSE 1
           w == IF e % 2 = 1 THEN b % n ELSE 1
<1>2. u \in Int /\ v \in Int
  BY <1>1, PowSteps
<1>3. Pow(b, e) = (u * u) * v
  <2>1. d + d \in Nat /\ Pow(b, d + d) = u * u
    BY <1>1, PowSum
  <2>2. CASE e % 2 = 1
    <3>1. Pow(b, (d + d) + 1) = b * (u * u)
      BY <2>1, PowSteps
    <3> HIDE DEF u
    <3>2. b * (u * u) = (u * u) * b
      BY <1>2, Z3
    <3> QED
      BY <1>1, <2>2, <3>1, <3>2
  <2>3. CASE e % 2 # 1
    <3>1. e = d + d
      BY <1>1, <2>3
    <3> HIDE DEF u
    <3>2. (u * u) * 1 = u * u
      BY <1>2, Z3
    <3> QED
      BY <2>1, <2>3, <3>1, <3>2
  <2> QED
    BY <2>2, <2>3
<1>4. h \in Int /\ Same(h, u, n)
  <2> HIDE DEF u
  <2> QED
    BY <1>2, SameRemainder DEF d, u
<1>5. w \in Int /\ Same(w, v, n)
  <2>1. CASE e % 2 = 1
    BY <2>1, SameRemainder
  <2>2. CASE e % 2 # 1
    BY <2>2 DEF Same
  <2> QED
    BY <2>1, <2>2
<1> HIDE DEF u, v, w
<1>6. h * h \in Int /\ u * u \in Int
  BY <1>2, <1>4, Z3
<1>7. Same(h * h, u * u, n)
  BY <1>2, <1>4, SameResults
<1> DEFINE hh == h * h
           uu == u * u
<1>8. hh \in Int /\ uu \in Int /\ Same(hh, uu, n) /\ Pow(b, e) = uu * v
  BY <1>3, <1>6, <1>7
<1> HIDE DEF hh, uu
<1>9. Same(hh * w, uu * v, n)
  BY <1>2, <1>5, <1>8, SameResults
<1> QED
  BY <1>1, <1>8, <1>9 DEF Same, hh, w, d

\* The function that squares and multiplies computes the remainders of powers.
SquaresMultiplies(f, b, n) ==
    f = [e \in Nat |-> IF e = 0 THEN 1
                       ELSE (f[e \div 2] * f[e \div 2] * (IF e % 2 = 1 THEN b % n ELSE 1)) % n]

\* There is such a function, and its values are remainders of powers.
LEMMA SquareMultiply ==
    ASSUME NEW n \in Nat, n >= 2, NEW b \in Int
    PROVE  /\ \E f : SquaresMultiplies(f, b, n)
           /\ \A f : SquaresMultiplies(f, b, n) => \A e \in Nat : f[e] = Pow(b, e) % n
<1>1. n \in Nat \ {0} /\ Pow(b, 0) % n = 1
  <2>1. n \in Nat \ {0} /\ 1 \in 0 .. n - 1
    OBVIOUS
  <2> QED
    BY <2>1, PowSteps, Remainders
<1>2. \E f : SquaresMultiplies(f, b, n)
  <2> DEFINE f == [e \in Nat |-> Pow(b, e) % n]
             val(e) == IF e = 0 THEN 1
                       ELSE (f[e \div 2] * f[e \div 2] * (IF e % 2 = 1 THEN b % n ELSE 1)) % n
  <2>1. ASSUME NEW e \in Nat
        PROVE  Pow(b, e) % n = val(e)
    <3>1. CASE e = 0
      BY <1>1, <3>1
    <3>2. CASE e # 0
      <4> DEFINE h == Pow(b, e \div 2) % n
      <4>1. /\ e \div 2 \in 0 .. e - 1
            /\ (h * h * (IF e % 2 = 1 THEN b % n ELSE 1)) % n = Pow(b, e) % n
        <5>1. e \in Nat \ {0} /\ h = Pow(b, e \div 2) % n
          BY <3>2
        <5> HIDE DEF h
        <5> QED
          BY <1>1, <5>1, SquareStep
      <4>2. f[e \div 2] = h
        BY <4>1
      <4> HIDE DEF h, f
      <4> QED
        BY <3>2, <4>1, <4>2
    <3> QED
      BY <3>1, <3>2
  <2> HIDE DEF val
  <2>2. f = [e \in Nat |-> val(e)]
    BY <2>1
  <2> HIDE DEF f
  <2> QED
    BY <2>2 DEF SquaresMultiplies, val
<1>3. ASSUME NEW f, SquaresMultiplies(f, b, n), NEW k \in Nat
      PROVE  f[k] = Pow(b, k) % n
  <2> DEFINE T == { e \in Nat : \A j \in 0 .. e : f[j] = Pow(b, j) % n }
  <2>1. f[0] = 1
    BY <1>3 DEF SquaresMultiplies
  <2>2. 0 \in T
    BY <1>1, <2>1
  <2>3. ASSUME NEW e \in 0 .. k - 1, e \in T
        PROVE  e + 1 \in T
    <3> DEFINE d == e + 1
               h == f[d \div 2]
    <3>1. d \in Nat /\ d # 0 /\ d \div 2 \in 0 .. e
      OBVIOUS
    <3>2. h = Pow(b, d \div 2) % n
      BY <2>3, <3>1
    <3>3. f[d] = (h * h * (IF d % 2 = 1 THEN b % n ELSE 1)) % n
      <4> HIDE DEF d, T
      <4> QED
        BY <1>3, <3>1 DEF SquaresMultiplies
    <3>4. f[d] = Pow(b, d) % n
      <4> HIDE DEF d, h
      <4> QED
        BY <1>1, <3>1, <3>2, <3>3, SquareStep
    <3>5. \A j \in 0 .. e + 1 : j \in 0 .. e \/ j = d
      OBVIOUS
    <3>6. e + 1 \in Nat
      OBVIOUS
    <3>7. \A j \in 0 .. e : f[j] = Pow(b, j) % n
      BY <2>3
    <3> HIDE DEF h, d
    <3> QED
      BY <3>4, <3>5, <3>6, <3>7
  <2> HIDE DEF T
  <2>4. \A e \in 0 .. k : e \in T
    BY <2>2, <2>3, Induction
  <2> QED
    BY <2>4 DEF T
<1> QED
  BY <1>2, <1>3

-----------------------------------------------------------------------------
\* A map that undoes itself on a set of odd size has a fixed point.
LEMMA Involution ==
    ASSUME NEW S, IsFiniteSet(S), Cardinality(S) % 2 = 1, NEW f \in [S -> S],
           \A s \in S : f[f[s]] = s
    PROVE  \E s \in S : f[s] = s
<1> SUFFICES ASSUME \A s \in S : f[s] # s PROVE FALSE
  OBVIOUS
<1> DEFINE Even(R) == Cardinality(R) % 2 = 0
           Kept(R) == R \subseteq S /\ \A s \in R : f[s] \in R
           T == { k \in Nat : \A R : Kept(R) /\ Cardinality(R) <= k => Even(R) }
<1>1. ASSUME NEW R, Kept(R) PROVE IsFiniteSet(R) /\ Cardinality(R) \in Nat
  <2>1. IsFiniteSet(R)
    BY <1>1, FS_Subset
  <2> QED
    BY <2>1, FS_CardinalityType
<1>2. 0 \in T
  <2> SUFFICES ASSUME NEW R, Kept(R), Cardinality(R) <= 0 PROVE Even(R)
    OBVIOUS
  <2> HIDE DEF Kept
  <2>1. Cardinality(R) \in Nat
    BY <1>1
  <2>2. Cardinality(R) = 0
    BY <2>1
  <2> QED
    BY <2>2
<1>3. ASSUME NEW k \in Nat, k \in T PROVE k + 1 \in T
  <2> SUFFICES ASSUME NEW R, Kept(R), Cardinality(R) <= k + 1 PROVE Even(R)
    OBVIOUS
  <2>1. IsFiniteSet(R) /\ Cardinality(R) \in Nat
    <3> HIDE DEF Kept
    <3> QED
      BY <1>1
  <2>2. CASE R = {}
    BY <2>2, FS_EmptySet
  <2>3. CASE R # {}
    <3>1. PICK s \in R : s \in S
      BY <2>3
    <3> DEFINE R1 == R \ {s}
               R2 == R1 \ {f[s]}
    <3>2. f[s] \in R1 /\ f[f[s]] = s
      BY <3>1
    <3>3. Kept(R2)
      BY <3>1, <3>2
    <3>4. IsFiniteSet(R1) /\ Cardinality(R1) = Cardinality(R) - 1
      BY <2>1, <3>1, FS_RemoveElement
    <3> HIDE DEF R1
    <3>5. Cardinality(R2) = Cardinality(R1) - 1
      BY <3>2, <3>4, FS_RemoveElement
    <3> HIDE DEF R2, Kept
    <3>6. Cardinality(R2) \in Nat
      BY <1>1, <3>3
    <3>7. Even(R2)
      <4>1. Cardinality(R2) <= k
        BY <2>1, <3>4, <3>5, <3>6
      <4> QED
        BY <1>3, <3>3, <4>1
    <3> DEFINE c == Cardinality(R)
               d == Cardinality(R2)
    <3>8. c \in Nat /\ d \in Nat /\ c = d + 2 /\ d % 2 = 0
      BY <2>1, <3>4, <3>5, <3>6, <3>7
    <3> HIDE DEF c, d
    <3>9. c % 2 = 0
      BY <3>8
    <3> QED
      BY <3>9 DEF c
  <2> QED
    BY <2>2, <2>3
<1> DEFINE c == Cardinality(S)
<1>4. c \in Nat /\ Kept(S)
  BY FS_CardinalityType
<1> HIDE DEF T, Kept, c
<1>5. \A k \in 0 .. c : k \in T
  <2>1. \A k \in 0 .. c - 1 : k \in T => k + 1 \in T
    BY <1>3
  <2> QED
    BY <1>2, <1>4, <2>1, Induction
<1>6. c \in T /\ c <= c
  BY <1>4, <1>5
<1>7. Even(S)
  BY <1>4, <1>6 DEF T, c
<1> QED
  BY <1>7

-----------------------------------------------------------------------------
\* One and minus one.
LEMMA Signs2 ==
    ASSUME NEW n \in Nat, n > 2
    PROVE  /\ n \in Nat \ {0} /\ 1 % n = 1 /\ (-1) % n = n - 1 /\ (n - 1) % n = n - 1
           /\ \A i \in Int : Same(i, -1, n) <=> i % n = n - 1
           /\ \A i \in Int : Same(i, 1, n) <=> i % n = 1
<1>1. n \in Nat \ {0} /\ 1 \in 0 .. n - 1 /\ n - 1 \in 0 .. n - 1 /\ n - 1 \in Int
  OBVIOUS
<1>2. 1 % n = 1 /\ (n - 1) % n = n - 1
  BY <1>1, Remainders
<1>3. (-1) % n = n - 1
  <2>1. (n + 0 - 1) % n = (0 - 1) % n
    BY <1>1, Raised
  <2>2. n + 0 - 1 = n - 1 /\ 0 - 1 = -1
    OBVIOUS
  <2> QED
    BY <1>2, <2>1, <2>2
<1> QED
  BY <1>1, <1>2, <1>3 DEF Same

\* Modulo a prime one has no other roots.
LEMMA RootsOfOne ==
    ASSUME NEW n, Prime(n), NEW u \in Int, Same(u * u, 1, n)
    PROVE  Same(u, 1, n) \/ Same(u, -1, n)
<1>1. n \in Nat \ {0}
  BY DEF Prime
<1> DEFINE v == u * u
           d == u - 1
           e == u - (-1)
<1>2. v \in Int /\ d \in Int /\ e \in Int /\ d * e = v - 1
  BY Z3
<1>3. (v - 1) % n = 0
  <2>1. Same(v, 1, n) /\ 1 \in Int
    OBVIOUS
  <2> HIDE DEF v
  <2> QED
    BY <1>1, <1>2, <2>1, SameDifference
<1>4. (d * e) % n = 0
  <2> HIDE DEF v, d, e
  <2> QED
    BY <1>2, <1>3
<1>5. d % n = 0 \/ e % n = 0
  <2> HIDE DEF d, e
  <2> QED
    BY <1>2, <1>4, NoZeroDivisors
<1>6. 1 \in Int /\ -1 \in Int
  OBVIOUS
<1>7. d % n = 0 => Same(u, 1, n)
  BY <1>1, <1>6, SameDifference
<1>8. e % n = 0 => Same(u, -1, n)
  BY <1>1, <1>6, SameDifference
<1> QED
  BY <1>5, <1>7, <1>8

\* A power of minus one.
LEMMA MinusOnePowers ==
    ASSUME NEW n \in Nat \ {0}, NEW u \in Int, Same(u, -1, n), NEW k \in Nat
    PROVE  /\ k % 2 = 0 => Same(Pow(u, k), 1, n)
           /\ k % 2 = 1 => Same(Pow(u, k), -1, n)
<1> DEFINE d == k \div 2
           w == Pow(u, 2)
           v == Pow(u, 2 * d)
<1>1. d \in Nat /\ 2 * d \in Nat /\ (k = 2 * d \/ k = 2 * d + 1)
      /\ (k % 2 = 0 => k = 2 * d) /\ (k % 2 = 1 => k = 2 * d + 1)
  OBVIOUS
<1> HIDE DEF d
<1>2. w \in Int /\ Same(w, 1, n)
  <2>1. w = u * u /\ u * u \in Int
    <3>1. u * u \in Int
      BY Z3
    <3> QED
      BY <3>1, PowSmall
  <2>2. Same(u * u, (-1) * (-1), n)
    BY SameResults
  <2> QED
    BY <2>1, <2>2
<1>3. v \in Int /\ v = Pow(w, d)
  <2>1. Pow(u, 2 * d) \in Int
    BY <1>1, PowSteps
  <2>2. Pow(u, 2 * d) = Pow(Pow(u, 2), d)
    <3>1. 2 \in Nat
      OBVIOUS
    <3> QED
      BY <1>1, <3>1, PowPower
  <2> QED
    BY <2>1, <2>2
<1> HIDE DEF w
<1>4. Same(v, 1, n)
  <2>1. Same(Pow(w, d), Pow(1, d), n)
    <3>1. 1 \in Int
      OBVIOUS
    <3> QED
      BY <1>1, <1>2, <3>1, PowSame
  <2> QED
    BY <1>1, <1>3, <2>1, PowOne
<1>5. Pow(u, 2 * d + 1) = u * v
  BY <1>1, PowSteps
<1> HIDE DEF v
<1>6. Same(u * v, -1, n)
  <2>1. Same(u * v, (-1) * 1, n)
    BY <1>3, <1>4, SameResults
  <2> QED
    BY <2>1
<1> QED
  BY <1>1, <1>4, <1>5, <1>6 DEF v

\* Euler's criterion, as far as it is needed: b^((n-1)/2) is one or minus one,
\* and it is one for the square of a number.
LEMMA Halved ==
    ASSUME NEW n, Prime(n), n > 2
    PROVE  /\ n \in Nat /\ n % 2 = 1
           /\ (n - 1) \div 2 \in Nat \ {0} /\ n - 1 = 2 * ((n - 1) \div 2)
<1>1. n \in Nat /\ n % 2 # 0
  <2>1. 2 \in 2 .. n - 1
    BY DEF Prime
  <2> QED
    BY <2>1 DEF Prime
<1> QED
  BY <1>1

\* The half power of a number is 1 or -1.
LEMMA Euler ==
    ASSUME NEW n, Prime(n), n > 2, NEW b \in Int, b % n # 0
    PROVE  Same(Pow(b, (n - 1) \div 2), 1, n) \/ Same(Pow(b, (n - 1) \div 2), -1, n)
<1> DEFINE h == (n - 1) \div 2
           u == Pow(b, h)
<1>1. n \in Nat /\ h \in Nat /\ n - 1 = 2 * h
  BY Halved
<1> HIDE DEF h
<1>2. u \in Int
  BY <1>1, PowSteps
<1>3. Pow(b, h + h) = u * u /\ h + h = n - 1
  BY <1>1, PowSum
<1>4. Same(u * u, 1, n)
  <2>1. Pow(b, n - 1) % n = 1
    BY Fermat
  <2>2. 1 % n = 1
    BY <1>1, Signs2
  <2> QED
    BY <1>3, <2>1, <2>2 DEF Same
<1> HIDE DEF u
<1> QED
  BY <1>2, <1>4, RootsOfOne DEF u, h

\* The half power of a square is 1.
LEMMA Residue ==
    ASSUME NEW n, Prime(n), n > 2, NEW b \in Int, b % n # 0, NEW y \in Int, Same(y * y, b, n)
    PROVE  Pow(b, (n - 1) \div 2) % n = 1
<1> DEFINE h == (n - 1) \div 2
           v == y * y
<1>1. n \in Nat \ {0} /\ h \in Nat /\ n - 1 = 2 * h
  BY Halved
<1>2. v \in Int /\ v = Pow(y, 2)
  <2>1. v \in Int
    BY Z3
  <2> QED
    BY <2>1, PowSmall
<1>3. y % n # 0
  <2> SUFFICES ASSUME y % n = 0 PROVE FALSE
    OBVIOUS
  <2>1. Same(y, 0, n)
    BY <1>1 DEF Same
  <2>2. Same(y * y, 0 * y, n)
    <3>1. Same(y, y, n)
      BY DEF Same
    <3> QED
      BY <1>1, <2>1, <3>1, SameResults
  <2>3. 0 * y = 0
    OBVIOUS
  <2>4. 0 % n = 0
    BY <1>1
  <2> QED
    BY <2>2, <2>3, <2>4 DEF Same
<1> HIDE DEF v, h
<1>4. Same(Pow(v, h), Pow(b, h), n)
  BY <1>1, <1>2, PowSame DEF v
<1>5. Pow(v, h) = Pow(y, n - 1)
  BY <1>1, <1>2, PowPower
<1>6. Pow(y, n - 1) % n = 1
  BY <1>3, Fermat
<1> QED
  BY <1>4, <1>5, <1>6 DEF Same, h

-----------------------------------------------------------------------------
\* Modulo a prime that is 1 mod 4 minus one is a square: among the numbers from
\* 2 to (n-1)/2, of which there is an odd number, one is its own inverse but for
\* the sign.
LEMMA MinusOneRoot ==
    ASSUME NEW n, Prime(n), n % 4 = 1
    PROVE  \E i \in Int : Same(i * i, -1, n)
<1> DEFINE h == (n - 1) \div 2
           S == 2 .. h
           Unit(u) == Same(u, 1, n) \/ Same(u, -1, n)
           f == [s \in S |-> CHOOSE t \in S : Unit(s * t)]
<1>1. /\ n \in Nat \ {0} /\ n \in Nat /\ n > 2 /\ h \in Nat /\ n = 2 * h + 1
      /\ h % 2 = 0 /\ h >= 2
  BY DEF Prime
<1> HIDE DEF h
<1>2. IsFiniteSet(S) /\ Cardinality(S) % 2 = 1
  <2>1. 2 \in Int /\ h \in Int /\ ~(2 > h)
    BY <1>1
  <2>2. IsFiniteSet(S) /\ Cardinality(S) = IF 2 > h THEN 0 ELSE h - 2 + 1
    BY <2>1, FS_Interval
  <2>3. (h - 2 + 1) % 2 = 1
    BY <1>1
  <2> QED
    BY <2>1, <2>2, <2>3
<1>3. ASSUME NEW i \in Int, 1 <= i, i <= h
      PROVE  i \in 0 .. n - 1 /\ i % n = i /\ i % n # 0 /\ i % n # n - 1
  <2>1. i \in 0 .. n - 1 /\ i # n - 1
    BY <1>1, <1>3
  <2> QED
    BY <1>1, <1>3, <2>1, Remainders
<1>4. ASSUME NEW s \in S PROVE ~ Unit(s)
  <2>1. s \in Int /\ 1 <= s /\ s <= h /\ s # 1
    BY <1>1
  <2>2. s % n = s /\ s % n # n - 1
    BY <1>3, <2>1
  <2> QED
    BY <1>1, <2>1, <2>2, Signs2
<1>5. ASSUME NEW s \in S PROVE \E t \in S : Unit(s * t)
  <2>1. s \in Int /\ s % n # 0
    BY <1>1, <1>3
  <2>2. PICK x \in Int : (s * x) % n = 1
    BY <2>1, PrimeInverts
  <2> DEFINE t == x % n
  <2>3. t \in 0 .. n - 1 /\ t \in Int /\ Same(t, x, n)
    BY <1>1, SameRemainder
  <2> HIDE DEF t
  <2>4. Same(s * t, 1, n)
    <3>1. Same(s, s, n)
      BY DEF Same
    <3>2. Same(s * t, s * x, n)
      BY <1>1, <2>1, <2>3, <3>1, SameResults
    <3> QED
      BY <1>1, <2>2, <3>2, Signs2 DEF Same
  <2>5. t # 0
    <3> SUFFICES ASSUME t = 0 PROVE FALSE
      OBVIOUS
    <3>1. s * t = 0
      BY <2>1
    <3>2. 0 % n = 0 /\ 1 % n = 1
      <4>1. 0 \in 0 .. n - 1
        BY <1>1
      <4> QED
        BY <1>1, <4>1, Signs2, Remainders
    <3> QED
      BY <2>4, <3>1, <3>2 DEF Same
  <2>6. Same(s * (n - t), -1, n)
    <3> DEFINE v == s * t
    <3>1. v \in Int /\ s * (n - t) = 0 - v + n * s
      BY <1>1, <2>1, <2>3, Z3
    <3> HIDE DEF v
    <3>2. (0 - v + n * s) % n = (0 - v) % n
      <4>1. 0 - v \in Int
        BY <3>1
      <4> QED
        BY <1>1, <2>1, <4>1, Congruent
    <3>3. Same(0 - v, 0 - 1, n)
      <4>1. Same(0, 0, n) /\ Same(v, 1, n) /\ 0 \in Int /\ 1 \in Int
        BY <2>4 DEF Same, v
      <4> QED
        BY <1>1, <3>1, <4>1, SameResults
    <3>4. 0 - 1 = -1
      OBVIOUS
    <3> QED
      BY <3>1, <3>2, <3>3, <3>4 DEF Same
  <2>7. ASSUME NEW d \in 1 .. h, Unit(s * d) PROVE d \in S
    <3>1. d = 1 => Unit(s)
      <4>1. s * 1 = s
        BY <2>1
      <4> QED
        BY <2>7, <4>1
    <3>2. d # 1
      BY <1>4, <3>1
    <3> QED
      BY <1>1, <3>2
  <2>8. CASE t <= h
    <3>1. t \in 1 .. h
      BY <1>1, <2>3, <2>5, <2>8
    <3> QED
      BY <2>4, <2>7, <3>1
  <2>9. CASE t > h
    <3>1. n - t \in 1 .. h
      BY <1>1, <2>3, <2>9
    <3> QED
      BY <2>6, <2>7, <3>1
  <2> QED
    BY <1>1, <2>3, <2>8, <2>9
<1>6. ASSUME NEW s \in S PROVE f[s] \in S /\ Unit(s * f[s])
  <2> HIDE DEF Unit, S
  <2> QED
    BY <1>5
<1>7. f \in [S -> S]
  <2> HIDE DEF Unit, S
  <2> QED
    BY <1>6
<1> HIDE DEF f
<1>8. ASSUME NEW s \in S PROVE f[f[s]] = s
  <2> DEFINE t == f[s]
             w == f[t]
  <2>1. t \in S /\ w \in S /\ Unit(s * t) /\ Unit(t * w)
    <3> HIDE DEF Unit, S
    <3> QED
      BY <1>6
  <2> HIDE DEF t, w
  <2>2. /\ s \in Int /\ t \in Int /\ w \in Int /\ t % n # 0 /\ s % n = s /\ w % n = w
        /\ s \in 2 .. h /\ w \in 2 .. h
    BY <1>1, <1>3, <2>1
  <2> DEFINE v == t * w
             u == t * s
  <2>3. u \in Int /\ v \in Int /\ u = s * t
    BY <2>2, Z3
  <2>4. Unit(u) /\ Unit(v)
    BY <2>1, <2>3
  <2>5. Same(v, u, n) \/ Same(v, -u, n)
    <3> HIDE DEF u, v
    <3>1. Same(0 - u, 0 - 1, n) \/ Same(0 - u, 0 - (-1), n)
      <4>1. Same(0, 0, n) /\ 0 \in Int /\ 1 \in Int /\ -1 \in Int
        BY DEF Same
      <4>2. Same(u, 1, n) => Same(0 - u, 0 - 1, n)
        BY <1>1, <2>3, <4>1, SameResults
      <4>3. Same(u, -1, n) => Same(0 - u, 0 - (-1), n)
        BY <1>1, <2>3, <4>1, SameResults
      <4> QED
        BY <2>4, <4>2, <4>3
    <3>2. 0 - u = -u /\ 0 - 1 = -1 /\ 0 - (-1) = 1
      BY <2>3
    <3>3. Same(u, 1, n) => Same(-u, -1, n)
      <4>1. Same(0, 0, n) /\ 0 \in Int /\ 1 \in Int
        BY DEF Same
      <4>2. Same(u, 1, n) => Same(0 - u, 0 - 1, n)
        BY <1>1, <2>3, <4>1, SameResults
      <4> QED
        BY <3>2, <4>2
    <3>4. Same(u, -1, n) => Same(-u, 1, n)
      <4>1. Same(0, 0, n) /\ 0 \in Int /\ -1 \in Int
        BY DEF Same
      <4>2. Same(u, -1, n) => Same(0 - u, 0 - (-1), n)
        BY <1>1, <2>3, <4>1, SameResults
      <4> QED
        BY <3>2, <4>2
    <3> QED
      BY <2>4, <3>3, <3>4 DEF Same
  <2>6. Same(w, s, n) \/ Same(w, -s, n)
    <3>1. -s \in Int /\ -u = t * (-s)
      BY <2>2, <2>3, Z3
    <3>2. Same(v, u, n) => Same(w, s, n)
      BY <2>2, Cancel
    <3>3. Same(v, t * (-s), n) => Same(w, -s, n)
      BY <2>2, <3>1, Cancel
    <3> HIDE DEF u, v
    <3> QED
      BY <2>5, <3>1, <3>2, <3>3
  <2>7. ~ Same(w, -s, n)
    <3> DEFINE d == w + s
    <3>1. d \in Int /\ d = w - (-s) /\ d \in 0 .. n - 1 /\ d # 0 /\ -s \in Int
      BY <1>1, <2>2
    <3>2. d % n = d
      BY <1>1, <3>1, Remainders
    <3>3. Same(w, -s, n) => d % n = 0
      <4> DEFINE j == -s
      <4>1. j \in Int /\ d = w - j
        BY <3>1
      <4> HIDE DEF j, d
      <4>2. Same(w, j, n) => (w - j) % n = 0
        BY <1>1, <2>2, <4>1, SameDifference
      <4> QED
        BY <4>1, <4>2 DEF j
    <3> QED
      BY <3>1, <3>2, <3>3
  <2>8. w = s
    BY <2>2, <2>6, <2>7 DEF Same
  <2> QED
    BY <2>8 DEF w, t
<1>9. PICK s \in S : f[s] = s
  <2> HIDE DEF S
  <2> QED
    BY <1>2, <1>7, <1>8, Involution
<1>10. s \in Int /\ Unit(s * s) /\ ~ Unit(s)
  <2>1. Unit(s * s)
    <3> HIDE DEF Unit, S
    <3> QED
      BY <1>6, <1>9
  <2>2. ~ Unit(s)
    BY <1>4
  <2> QED
    BY <2>1, <2>2
<1> QED
  BY <1>10, RootsOfOne

\* Two is no square modulo a prime that is 5 mod 8: with i the root of minus
\* one, the square of 1 + i is 2i.
LEMMA TwoNonresidue ==
    ASSUME NEW n, Prime(n), n % 8 = 5
    PROVE  Same(Pow(2, (n - 1) \div 2), -1, n)
<1> DEFINE h == (n - 1) \div 2
<1>1. /\ n \in Nat \ {0} /\ n \in Nat /\ n > 2 /\ h \in Nat /\ n % 4 = 1
      /\ h \div 2 \in Nat /\ h = 2 * (h \div 2) /\ (h \div 2) % 2 = 1
  BY DEF Prime
<1> HIDE DEF h
<1>2. PICK i \in Int : Same(i * i, -1, n)
  BY <1>1, MinusOneRoot
<1> DEFINE y == 1 + i
           b == 2 * i
           e == i * i
           yy == y * y
<1>3. y \in Int /\ b \in Int /\ e \in Int /\ yy \in Int /\ yy = (b + 1) + e
  BY Z3
<1>4. Same(yy, b, n)
  <2> HIDE DEF yy, b, e
  <2>1. Same(b + 1, b + 1, n) /\ b + 1 \in Int /\ -1 \in Int /\ Same(e, -1, n)
    BY <1>2, <1>3 DEF Same, e
  <2>2. Same((b + 1) + e, (b + 1) + (-1), n)
    BY <1>1, <1>3, <2>1, SameResults
  <2>3. (b + 1) + (-1) = b
    BY <1>3
  <2> QED
    BY <1>3, <2>2, <2>3
<1>5. y % n # 0
  <2> SUFFICES ASSUME y % n = 0 PROVE FALSE
    OBVIOUS
  <2>1. (i - (-1)) % n = 0
    <3>1. i - (-1) = y
      OBVIOUS
    <3> QED
      BY <3>1
  <2>2. Same(i, -1, n)
    <3>1. -1 \in Int
      OBVIOUS
    <3> QED
      BY <1>1, <2>1, <3>1, SameDifference
  <2>3. Same(i * i, (-1) * (-1), n)
    <3>1. -1 \in Int
      OBVIOUS
    <3> QED
      BY <1>1, <2>2, <3>1, SameResults
  <2>4. (-1) % n = 1 % n
    BY <1>2, <2>3 DEF Same
  <2>5. 1 % n = 1 /\ (-1) % n = n - 1
    BY <1>1, Signs2
  <2> HIDE DEF y
  <2> QED
    BY <1>1, <2>4, <2>5
<1>6. b % n # 0
  <2>1. yy % n # 0
    BY <1>3, <1>5, NoZeroDivisors
  <2> HIDE DEF yy, b
  <2> QED
    BY <1>4, <2>1 DEF Same
<1>7. Pow(b, h) % n = 1
  <2> HIDE DEF y, b
  <2> QED
    BY <1>1, <1>3, <1>4, <1>6, Residue DEF yy, h
<1> DEFINE u == Pow(2, h)
           v == Pow(i, h)
<1>8. u \in Int /\ v \in Int /\ Pow(b, h) = u * v
  <2>1. 2 \in Int
    OBVIOUS
  <2>2. u \in Int /\ v \in Int
    BY <1>1, <2>1, PowSteps
  <2> QED
    BY <1>1, <2>1, <2>2, PowTimes
<1>9. Same(v, -1, n)
  <2>1. Pow(i, 2 * (h \div 2)) = Pow(Pow(i, 2), h \div 2)
    <3>1. 2 \in Nat
      OBVIOUS
    <3> QED
      BY <1>1, <3>1, PowPower
  <2>2. Pow(i, 2) = e
    BY PowSmall
  <2>3. Same(Pow(e, h \div 2), -1, n)
    <3> HIDE DEF e
    <3> QED
      BY <1>1, <1>2, <1>3, MinusOnePowers DEF e
  <2> QED
    BY <1>1, <2>1, <2>2, <2>3
<1> HIDE DEF u, v, b
<1> DEFINE w == u * v
<1>10. w \in Int /\ Same(w, 1, n)
  <2>1. w \in Int
    BY <1>8, Z3
  <2>2. w % n = 1 /\ 1 % n = 1
    BY <1>1, <1>7, <1>8, Signs2
  <2> QED
    BY <2>1, <2>2 DEF Same
<1>11. Same(w, -u, n)
  <2>1. Same(u, u, n) /\ -1 \in Int
    BY DEF Same
  <2>2. Same(u * v, u * (-1), n)
    BY <1>1, <1>8, <1>9, <2>1, SameResults
  <2>3. u * (-1) = -u
    BY <1>8
  <2> QED
    BY <2>2, <2>3
<1> HIDE DEF w
<1>12. Same(0 - (-u), 0 - 1, n)
  <2>1. Same(-u, 1, n) /\ -u \in Int /\ 0 \in Int /\ 1 \in Int /\ Same(0, 0, n)
    BY <1>8, <1>10, <1>11 DEF Same
  <2> QED
    BY <1>1, <2>1, SameResults
<1>13. 0 - (-u) = u /\ 0 - 1 = -1
  BY <1>8
<1> QED
  BY <1>12, <1>13 DEF u, h

\* A number that is even is a power of two times an odd one.
LEMMA TwoPart ==
    ASSUME NEW n \in Nat \ {0}, n % 2 = 0
    PROVE  \E s \in 1 .. n : n % 2^s = 0 /\ (n \div 2^s) % 2 = 1
<1> DEFINE C == { s \in 0 .. n : n % 2^s = 0 }
           T == { k \in Nat : k < 2^k }
<1>1. \A k \in Nat : 2^k \in Nat \ {0} /\ 2^(k + 1) = 2 * 2^k
  BY TwoPowers
<1>2. \A k \in Nat : k < 2^k
  <2> SUFFICES ASSUME NEW k \in Nat PROVE k \in T
    OBVIOUS
  <2>1. 0 \in T
    BY TwoPowers
  <2>2. ASSUME NEW j \in 0 .. k - 1, j \in T PROVE j + 1 \in T
    <3> DEFINE v == 2^j
    <3>1. v \in Nat \ {0} /\ 2^(j + 1) = 2 * v /\ j < v
      BY <1>1, <2>2
    <3> HIDE DEF v
    <3>2. j + 1 < 2^(j + 1)
      BY <3>1
    <3> QED
      BY <3>2
  <2> HIDE DEF T
  <2>3. \A j \in 0 .. k : j \in T
    BY <2>1, <2>2, Induction
  <2> QED
    BY <2>3
<1>3. 1 \in C
  <2>1. 2^1 = 2
    <3>1. 2^(0 + 1) = 2 * 2^0 /\ 0 + 1 = 1
      BY <1>1
    <3> QED
      BY <3>1, TwoPowers
  <2> QED
    BY <2>1
<1>4. PICK s \in C : \A j \in C : j <= s
  <2>1. C \in SUBSET (0 .. n) /\ C # {} /\ n \in Nat
    BY <1>3
  <2> HIDE DEF C
  <2> QED
    BY <2>1, Largest
<1>5. s \in Nat /\ s \in 1 .. n /\ n % 2^s = 0
  <2>1. s \in 0 .. n /\ n % 2^s = 0
    OBVIOUS
  <2> HIDE DEF C
  <2>2. 1 <= s
    BY <1>3, <1>4
  <2> QED
    BY <2>1, <2>2
<1> DEFINE v == 2^s
           q == n \div v
<1>6. v \in Nat \ {0} /\ 2^(s + 1) = 2 * v
  BY <1>1, <1>5
<1>7. q \in Int /\ n = v * q
  <2>1. n \in Int /\ q \in Int /\ n = v * q + (n % v)
    <3> HIDE DEF v
    <3> QED
      BY <1>6, DivMod
  <2>2. n % v = 0
    BY <1>5
  <2> HIDE DEF v, q
  <2>3. v * q \in Int
    BY <1>6, <2>1, Z3
  <2> DEFINE w == v * q
  <2> HIDE DEF w
  <2>4. n = w
    BY <2>1, <2>2, <2>3 DEF w
  <2> QED
    BY <2>1, <2>4 DEF w
<1> HIDE DEF v, q
<1>8. q % 2 = 1
  <2> SUFFICES ASSUME q % 2 # 1 PROVE FALSE
    OBVIOUS
  <2> DEFINE d == q \div 2
             v2 == 2 * v
  <2>1. d \in Int /\ q = 2 * d
    BY <1>7
  <2> HIDE DEF d
  <2>2. v2 \in Nat \ {0} /\ n = v2 * d /\ d >= 1
    <3>1. n = (2 * v) * d
      BY <1>6, <1>7, <2>1, Z3
    <3>2. d >= 1
      <4> SUFFICES ASSUME d <= 0 PROVE FALSE
        BY <2>1
      <4>1. v2 * d <= 0
        BY <1>6, <2>1, Z3
      <4> HIDE DEF v2
      <4> QED
        BY <3>1, <4>1 DEF v2
    <3> QED
      BY <1>6, <3>1, <3>2
  <2>3. n % v2 = 0 /\ v2 <= n
    <3> HIDE DEF v2
    <3>1. v2 * d + 0 = n /\ d \in Int /\ 0 \in 0 .. v2 - 1
      <4>1. v2 * d \in Int
        BY <2>1, <2>2, Z3
      <4> QED
        BY <2>1, <2>2, <4>1
    <3>2. (v2 * d + 0) % v2 = 0
      BY <2>2, <3>1, DivModUnique
    <3>3. v2 * d >= v2
      BY <2>1, <2>2, Z3
    <3> QED
      BY <2>2, <3>1, <3>2, <3>3
  <2>4. 2^(s + 1) = v2
    BY <1>6
  <2>5. s + 1 < 2^(s + 1)
    BY <1>2, <1>5
  <2> HIDE DEF v2
  <2>6. s + 1 \in 0 .. n
    BY <1>5, <2>2, <2>3, <2>4, <2>5
  <2>7. s + 1 \in C
    BY <2>3, <2>4, <2>6
  <2> QED
    BY <1>4, <1>5, <2>7
<1> QED
  BY <1>5, <1>8 DEF v, q

-----------------------------------------------------------------------------
\* The powers of two are those of the number two.
LEMMA TwoIsPow == \A k \in Nat : 2^k = Pow(2, k)
<1> SUFFICES ASSUME NEW k \in Nat PROVE 2^k = Pow(2, k)
  OBVIOUS
<1> DEFINE T == { j \in Nat : 2^j = Pow(2, j) }
<1>1. 2 \in Int /\ 0 \in T
  BY PowSteps, TwoPowers
<1>2. ASSUME NEW j \in 0 .. k - 1, j \in T PROVE j + 1 \in T
  <2>0. j \in Nat /\ 2 \in Int
    OBVIOUS
  <2> HIDE DEF T
  <2>1. 2^(j + 1) = 2 * 2^j
    BY <2>0, TwoPowers
  <2>3. Pow(2, j + 1) = 2 * Pow(2, j)
    BY <2>0, PowSteps
  <2> QED
    BY <1>2, <2>1, <2>3 DEF T
<1> HIDE DEF T
<1>3. \A j \in 0 .. k : j \in T
  BY <1>1, <1>2, Induction
<1> QED
  BY <1>3 DEF T

\* A power of two to a sum.
LEMMA TwoSum ==
    ASSUME NEW j \in Nat, NEW k \in Nat
    PROVE  2^(j + k) = 2^j * 2^k
<1>1. 2 \in Int /\ j + k \in Nat
  OBVIOUS
<1>2. Pow(2, j + k) = Pow(2, j) * Pow(2, k)
  BY <1>1, PowSum
<1> QED
  BY <1>1, <1>2, TwoIsPow

\* A power of zero.
LEMMA PowZero ==
    ASSUME NEW n \in Nat \ {0}, NEW b \in Int, b % n = 0, NEW k \in Nat \ {0}
    PROVE  Pow(b, k) % n = 0
<1> DEFINE w == Pow(b, k - 1)
<1>1. k - 1 \in Nat /\ (k - 1) + 1 = k
  OBVIOUS
<1>2. w \in Int /\ Pow(b, k) = b * w
  <2>1. w \in Int /\ Pow(b, (k - 1) + 1) = b * w
    BY <1>1, PowSteps
  <2> QED
    BY <1>1, <2>1
<1> HIDE DEF w
<1>3. 0 % n = 0
  <2>1. 0 \in 0 .. n - 1
    OBVIOUS
  <2> QED
    BY <2>1, Remainders
<1>4. Same(b * w, 0 * w, n)
  <2>1. Same(b, 0, n) /\ Same(w, w, n) /\ 0 \in Int
    BY <1>3 DEF Same
  <2> QED
    BY <1>2, <2>1, SameResults
<1>5. 0 * w = 0
  BY <1>2
<1> QED
  BY <1>2, <1>3, <1>4, <1>5 DEF Same

\* A power of a power, of a number known by its remainder.
LEMMA PowOfPow ==
    ASSUME NEW n \in Nat \ {0}, NEW b \in Int, NEW j \in Nat, NEW k \in Nat,
           NEW d \in Int, Same(d, Pow(b, j), n)
    PROVE  Same(Pow(d, k), Pow(b, j * k), n)
<1> DEFINE w == Pow(b, j)
<1>1. w \in Int /\ Pow(b, j * k) = Pow(w, k)
  BY PowSteps, PowPower
<1> HIDE DEF w
<1>2. Same(Pow(d, k), Pow(w, k), n)
  BY <1>1, PowSame DEF w
<1> QED
  BY <1>1, <1>2

-----------------------------------------------------------------------------
\* n - 1 is 2^e times the odd number q.
Split(n, e, q) == e \in Nat \ {0} /\ q \in Nat /\ q % 2 = 1 /\ n - 1 = 2^e * q

\* What half of n - 1 is.
LEMMA SplitHalf ==
    ASSUME NEW n, Prime(n), n > 2, NEW e, NEW q, Split(n, e, q)
    PROVE  /\ n \in Nat \ {0} /\ 2^e \in Nat /\ 2^(e - 1) \in Nat /\ e - 1 \in Nat
           /\ n - 1 = q * 2^e /\ (n - 1) \div 2 = q * 2^(e - 1)
<1> DEFINE k == 2^(e - 1)
           l == 2^e
<1>1. e - 1 \in Nat /\ k \in Nat /\ l = 2 * k
  <2>1. e - 1 \in Nat /\ (e - 1) + 1 = e
    BY DEF Split
  <2>2. k \in Nat /\ 2^((e - 1) + 1) = 2 * k
    BY <2>1, TwoPowers
  <2> QED
    BY <2>1, <2>2
<1>2. n - 1 = l * q /\ q \in Nat
  BY DEF Split
<1>3. n \in Nat \ {0} /\ (n - 1) \div 2 \in Nat /\ n - 1 = 2 * ((n - 1) \div 2)
  <2>1. n \in Nat \ {0}
    BY DEF Prime
  <2> QED
    BY <2>1, Halved
<1> DEFINE h == (n - 1) \div 2
           hh == q * k
<1> HIDE DEF k, l, h
<1>4. l * q = q * l /\ l * q = 2 * hh /\ hh \in Nat
  BY <1>1, <1>2, Z3
<1> HIDE DEF hh
<1>5. h = hh
  BY <1>2, <1>3, <1>4 DEF h
<1> QED
  BY <1>1, <1>2, <1>3, <1>4, <1>5 DEF h, hh, k, l

\* What holds in each round of Tonelli-Shanks for the argument a: i, d, w and v
\* are the variables m, c, t and r of the loop.
Round(n, e, q, a, i, d, w, v) ==
    /\ i \in 1 .. e /\ d \in 0 .. n - 1 /\ w \in 0 .. n - 1 /\ v \in 0 .. n - 1
    /\ Same(v * v, a * w, n)
    /\ Same(Pow(d, 2^(i - 1)), -1, n)
    /\ w = 0 => a % n = 0
    /\ w # 0 => Same(Pow(w, 2^e), 1, n)
    /\ i < e => Same(Pow(w, 2^(i - 1)), 1, n)
    /\ i = e => Same(w, Pow(a, q), n)

\* The variables the loop starts with are those of a round.
LEMMA FirstRound ==
    ASSUME NEW n, Prime(n), n > 2, NEW e, NEW q, Split(n, e, q), NEW a \in Int,
           NEW g \in Int, Same(Pow(g, (n - 1) \div 2), -1, n)
    PROVE  Round(n, e, q, a, e, Pow(g, q) % n, Pow(a, q) % n, Pow(a, (q + 1) \div 2) % n)
<1> DEFINE d == Pow(g, q) % n
           w == Pow(a, q) % n
           j == (q + 1) \div 2
           v == Pow(a, j) % n
           k == 2^(e - 1)
           l == 2^e
<1>1. n \in Nat \ {0} /\ n \in Nat /\ l \in Nat /\ k \in Nat /\ e - 1 \in Nat
      /\ n - 1 = q * l /\ (n - 1) \div 2 = q * k
  BY SplitHalf
<1>2. e \in Nat \ {0} /\ q \in Nat \ {0} /\ q \in Nat /\ j \in Nat /\ j + j = q + 1
  BY DEF Split
<1> HIDE DEF k, l, j
<1>3. Pow(g, q) \in Int /\ Pow(a, q) \in Int /\ Pow(a, j) \in Int
  BY <1>2, PowSteps
<1>4. d \in 0 .. n - 1 /\ d \in Int /\ Same(d, Pow(g, q), n)
  BY <1>1, <1>3, SameRemainder
<1>5. w \in 0 .. n - 1 /\ w \in Int /\ Same(w, Pow(a, q), n)
  BY <1>1, <1>3, SameRemainder
<1>6. v \in 0 .. n - 1 /\ v \in Int /\ Same(v, Pow(a, j), n)
  BY <1>1, <1>3, SameRemainder
<1>7. Same(Pow(d, k), -1, n)
  <2>1. Same(Pow(d, k), Pow(g, q * k), n)
    <3> HIDE DEF d
    <3> QED
      BY <1>1, <1>2, <1>4, PowOfPow
  <2> QED
    BY <1>1, <2>1 DEF Same
<1>8. w = 0 => a % n = 0
  BY <1>2, PowNonzero
<1>9. ASSUME w # 0 PROVE Same(Pow(w, l), 1, n)
  <2>1. a % n # 0
    BY <1>1, <1>2, <1>9, PowZero
  <2>2. Pow(a, n - 1) % n = 1 /\ 1 % n = 1
    BY <1>1, <2>1, Fermat, Signs2
  <2>3. Same(Pow(w, l), Pow(a, q * l), n)
    <3> HIDE DEF w
    <3> QED
      BY <1>1, <1>2, <1>5, PowOfPow
  <2> QED
    BY <1>1, <2>2, <2>3 DEF Same
<1>10. Same(v * v, a * w, n)
  <2> DEFINE y == Pow(a, j)
             z == Pow(a, q)
  <2>1. y \in Int /\ z \in Int /\ y * y = a * z
    <3>1. Pow(a, j + j) = y * y
      BY <1>2, PowSum
    <3>2. Pow(a, q + 1) = a * z
      BY <1>2, PowSteps
    <3> QED
      BY <1>2, <1>3, <3>1, <3>2
  <2>2. Same(v, y, n) /\ Same(w, z, n)
    BY <1>5, <1>6
  <2> HIDE DEF v, w, y, z
  <2>3. Same(v * v, y * y, n)
    BY <1>1, <1>6, <2>1, <2>2, SameResults
  <2>4. Same(a * w, a * z, n)
    <3>1. Same(a, a, n)
      BY DEF Same
    <3> QED
      BY <1>1, <1>5, <2>1, <2>2, <3>1, SameResults
  <2> QED
    BY <2>1, <2>3, <2>4 DEF Same
<1>11. e \in 1 .. e /\ ~(e < e)
  BY <1>2
<1> HIDE DEF d, w, v
<1>12. Round(n, e, q, a, e, d, w, v)
  BY <1>4, <1>5, <1>6, <1>7, <1>8, <1>9, <1>10, <1>11 DEF Round, k, l
<1> QED
  BY <1>12 DEF d, w, v, j

\* The loop gives up only in its first round, and only if a is no square.
LEMMA LastRound ==
    ASSUME NEW n, Prime(n), n > 2, NEW e, NEW q, Split(n, e, q), NEW a \in Int,
           NEW i, NEW d, NEW w, NEW v, Round(n, e, q, a, i, d, w, v), w # 0,
           \A j \in 0 .. i - 1 : Pow(w, 2^j) % n # 1
    PROVE  a % n # 0 /\ Same(Pow(a, (n - 1) \div 2), -1, n)
<1> DEFINE k == 2^(e - 1)
<1>1. n \in Nat \ {0} /\ n \in Nat /\ k \in Nat /\ (n - 1) \div 2 = q * k
  BY SplitHalf
<1>2. i \in 1 .. e /\ i - 1 \in 0 .. i - 1 /\ e \in Nat \ {0} /\ q \in Nat /\ q \in Nat \ {0}
      /\ w \in Int
  BY DEF Round, Split
<1>3. 1 % n = 1
  BY <1>1, Signs2
<1>4. ~ Same(Pow(w, 2^(i - 1)), 1, n)
  BY <1>2, <1>3 DEF Same
<1>5. i = e /\ Same(w, Pow(a, q), n)
  BY <1>2, <1>4 DEF Round
<1>6. Same(Pow(w, k), Pow(a, q * k), n)
  BY <1>1, <1>2, <1>5, PowOfPow
<1>7. ~ Same(Pow(a, (n - 1) \div 2), 1, n)
  BY <1>1, <1>4, <1>5, <1>6 DEF Same
<1>8. a % n # 0
  <2>1. w % n = w
    BY <1>1, Remainders DEF Round
  <2>2. a % n = 0 => Pow(a, q) % n = 0
    BY <1>1, <1>2, PowZero
  <2> QED
    BY <1>5, <2>1, <2>2 DEF Same
<1> QED
  BY <1>7, <1>8, Euler

\* One more round.
LEMMA NextRound ==
    ASSUME NEW n, Prime(n), n > 2, NEW e, NEW q, Split(n, e, q), NEW a \in Int,
           NEW i, NEW d, NEW w, NEW v, Round(n, e, q, a, i, d, w, v), w # 0, w # 1,
           NEW j \in 0 .. i - 1, Pow(w, 2^j) % n = 1,
           \A k \in 0 .. i - 1 : Pow(w, 2^k) % n = 1 => j <= k,
           NEW b, b = Pow(d, 2^(i - j - 1)) % n
    PROVE  Round(n, e, q, a, j, (b * b) % n, (w * ((b * b) % n)) % n, (v * b) % n)
<1> DEFINE l == 2^(j - 1)
           z == Pow(w, l)
           y == Pow(d, 2^(i - j - 1))
           bb == b * b
           d2 == bb % n
           wd == w * d2
           w2 == wd % n
           vb == v * b
           v2 == vb % n
<1>1. n \in Nat \ {0} /\ n \in Nat
  BY DEF Prime
<1>2. /\ i \in 1 .. e /\ e \in Nat \ {0} /\ d \in Int /\ w \in Int /\ v \in Int
      /\ w \in 0 .. n - 1
  BY <1>1 DEF Round, Split
<1>3. j \in 1 .. e /\ j < e /\ j \in Nat
  <2>1. j # 0
    <3> SUFFICES ASSUME j = 0 PROVE FALSE
      OBVIOUS
    <3>1. Pow(w, 2^0) = w
      BY <1>2, TwoPowers, PowSmall
    <3>2. w % n = w
      BY <1>1, <1>2, Remainders
    <3> QED
      BY <3>1, <3>2
  <2> QED
    BY <1>2, <2>1
<1>4. j - 1 \in Nat /\ l \in Nat \ {0} /\ l \in Nat /\ 2^j = l * 2
  <2>1. j - 1 \in Nat /\ (j - 1) + 1 = j
    BY <1>3
  <2>2. l \in Nat \ {0} /\ 2^((j - 1) + 1) = 2 * l
    BY <2>1, TwoPowers
  <2> HIDE DEF l
  <2>3. 2 * l = l * 2
    BY <2>2
  <2> QED
    BY <2>1, <2>2, <2>3
\* The square of z is one and z is not.
<1>5. z \in Int /\ Same(z, -1, n)
  <2>1. z \in Int
    BY <1>2, <1>4, PowSteps
  <2>2. Pow(w, l * 2) = Pow(z, 2) /\ Pow(z, 2) = z * z
    <3>1. 2 \in Nat
      OBVIOUS
    <3> QED
      BY <1>2, <1>4, <2>1, <3>1, PowPower, PowSmall
  <2>3. 1 % n = 1
    BY <1>1, Signs2
  <2>4. Same(z * z, 1, n)
    BY <1>4, <2>2, <2>3 DEF Same
  <2>5. z % n # 1
    <3>1. j - 1 \in 0 .. i - 1 /\ ~(j <= j - 1)
      BY <1>2, <1>3
    <3> QED
      BY <3>1
  <2> HIDE DEF z
  <2> QED
    BY <2>1, <2>3, <2>4, <2>5, RootsOfOne DEF Same
<1>6. y \in Int /\ b \in Int /\ Same(b, y, n)
  <2>1. i - j - 1 \in Nat
    BY <1>2, <1>3
  <2>2. 2^(i - j - 1) \in Nat
    BY <2>1, TwoPowers
  <2>3. y \in Int
    BY <1>2, <2>2, PowSteps
  <2> HIDE DEF y
  <2> QED
    BY <1>1, <2>3, SameRemainder DEF y
<1>7. bb \in Int /\ d2 \in Int /\ d2 \in 0 .. n - 1 /\ Same(d2, bb, n)
  <2>1. bb \in Int
    BY <1>6, Z3
  <2> HIDE DEF bb
  <2> QED
    BY <1>1, <2>1, SameRemainder
<1>8. Same(Pow(d2, l), -1, n)
  <2> DEFINE k == 2^(i - j - 1)
  <2>1. k \in Nat /\ k * 2 \in Nat /\ (k * 2) * l = 2^(i - 1)
    <3>1. i - j - 1 \in Nat /\ i - j \in Nat /\ (i - j - 1) + 1 = i - j
          /\ (i - j) + (j - 1) = i - 1
      BY <1>2, <1>3
    <3>2. k \in Nat /\ 2^(i - j) = 2 * k
      <4>1. k \in Nat /\ 2^((i - j - 1) + 1) = 2 * k
        BY <3>1, TwoPowers
      <4> QED
        BY <3>1, <4>1
    <3>3. 2^((i - j) + (j - 1)) = 2^(i - j) * l
      BY <1>4, <3>1, TwoSum
    <3> HIDE DEF k, l
    <3>4. 2 * k = k * 2 /\ k * 2 \in Nat
      BY <3>2
    <3> QED
      BY <3>1, <3>2, <3>3, <3>4
  <2>2. y * y = Pow(d, k * 2)
    <3>1. 2 \in Nat
      OBVIOUS
    <3> HIDE DEF k
    <3> QED
      BY <1>2, <1>6, <2>1, <3>1, PowPower, PowSmall DEF k
  <2>3. Same(d2, Pow(d, k * 2), n)
    <3> HIDE DEF d2, y
    <3>1. Same(bb, y * y, n)
      BY <1>1, <1>6, SameResults
    <3> QED
      BY <1>7, <2>2, <3>1 DEF Same
  <2> DEFINE kk == k * 2
  <2>4. kk \in Nat /\ Same(d2, Pow(d, kk), n) /\ kk * l = 2^(i - 1)
    BY <2>1, <2>3
  <2> HIDE DEF kk, l, d2
  <2>5. Same(Pow(d2, l), Pow(d, kk * l), n)
    BY <1>1, <1>2, <1>4, <1>7, <2>4, PowOfPow
  <2>6. Same(Pow(d, 2^(i - 1)), -1, n)
    BY DEF Round
  <2> QED
    BY <2>4, <2>5, <2>6 DEF Same
<1> HIDE DEF d2
<1>9. wd \in Int /\ w2 \in Int /\ w2 \in 0 .. n - 1 /\ Same(w2, wd, n)
  <2>1. wd \in Int
    BY <1>2, <1>7, Z3
  <2> HIDE DEF wd
  <2> QED
    BY <1>1, <2>1, SameRemainder
<1>10. Same(Pow(w2, l), 1, n)
  <2> DEFINE o == Pow(d2, l)
  <2>1. o \in Int /\ Pow(wd, l) = z * o
    BY <1>2, <1>4, <1>7, PowSteps, PowTimes, ZenonT(30)
  <2>2. Same(Pow(w2, l), Pow(wd, l), n)
    <3> HIDE DEF w2, wd
    <3> QED
      BY <1>1, <1>4, <1>9, PowSame
  <2>3. Same(z, -1, n) /\ Same(o, -1, n) /\ -1 \in Int
    BY <1>5, <1>8
  <2> HIDE DEF o, z
  <2>4. Same(z * o, (-1) * (-1), n)
    BY <1>1, <1>5, <2>1, <2>3, SameResults
  <2>5. (-1) * (-1) = 1
    OBVIOUS
  <2> QED
    BY <2>1, <2>2, <2>4, <2>5 DEF Same
<1> HIDE DEF wd
<1>11. w2 # 0
  <2> SUFFICES ASSUME w2 = 0 PROVE FALSE
    OBVIOUS
  <2>1. w2 % n = 0
    <3>1. 0 \in 0 .. n - 1
      BY <1>1
    <3> QED
      BY <1>1, <3>1, Remainders
  <2>2. Pow(w2, l) % n = 0
    <3> HIDE DEF w2
    <3> QED
      BY <1>1, <1>4, <1>9, <2>1, PowZero
  <2>3. 1 % n = 1
    BY <1>1, Signs2
  <2> QED
    BY <1>10, <2>2, <2>3 DEF Same
<1> HIDE DEF w2
<1>12. Same(Pow(w2, 2^e), 1, n)
  <2> DEFINE k == 2^(e - j + 1)
             o == Pow(w2, l)
  <2>1. k \in Nat /\ 2^e = l * k
    <3>1. e - j + 1 \in Nat /\ (j - 1) + (e - j + 1) = e
      BY <1>2, <1>3
    <3> QED
      BY <1>4, <3>1, TwoPowers, TwoSum, ZenonT(30)
  <2>2. o \in Int /\ Pow(w2, l * k) = Pow(o, k)
    BY <1>4, <1>9, <2>1, PowSteps, PowPower
  <2>3. Same(o, 1, n) /\ 1 \in Int
    BY <1>10
  <2> HIDE DEF k, o
  <2>4. Same(Pow(o, k), Pow(1, k), n)
    BY <1>1, <2>1, <2>2, <2>3, PowSame
  <2> QED
    BY <2>1, <2>2, <2>4, PowOne
<1>13. vb \in Int /\ v2 \in Int /\ v2 \in 0 .. n - 1 /\ Same(v2, vb, n)
  <2>0. v \in Int /\ b \in Int
    BY <1>2, <1>6
  <2>1. vb \in Int
    BY <2>0, Z3
  <2> HIDE DEF vb
  <2> QED
    BY <1>1, <2>1, SameRemainder
<1>14. Same(v2 * v2, a * w2, n)
  <2> DEFINE vv == v * v
             aw == a * w
  <2>1. vv \in Int /\ aw \in Int /\ vb * vb = vv * bb /\ aw * bb = a * (w * bb)
        /\ w * bb \in Int
    <3>1. a \in Int /\ v \in Int /\ w \in Int /\ b \in Int
      BY <1>2, <1>6
    <3> QED
      BY <3>1, Z3
  <2>2. Same(vv, aw, n)
    BY DEF Round
  <2>3. Same(v2 * v2, vb * vb, n)
    <3> HIDE DEF v2, vb
    <3> QED
      BY <1>1, <1>13, SameResults
  <2>4. Same(vv * bb, aw * bb, n)
    <3>1. Same(bb, bb, n)
      BY DEF Same
    <3> HIDE DEF vv, aw, bb
    <3> QED
      BY <1>1, <1>7, <2>1, <2>2, <3>1, SameResults
  <2>5. Same(w2, w * bb, n)
    <3>1. Same(w, w, n)
      BY DEF Same
    <3> HIDE DEF bb
    <3>2. Same(w * d2, w * bb, n)
      BY <1>1, <1>2, <1>7, <3>1, SameResults
    <3> QED
      BY <1>9, <3>2 DEF wd, Same
  <2>6. Same(a * w2, a * (w * bb), n)
    <3> DEFINE o == w * bb
    <3>1. Same(a, a, n) /\ o \in Int /\ Same(w2, o, n)
      BY <2>1, <2>5 DEF Same
    <3> HIDE DEF o
    <3>2. Same(a * w2, a * o, n)
      BY <1>1, <1>9, <3>1, SameResults
    <3> QED
      BY <3>2 DEF o
  <2> QED
    BY <2>1, <2>3, <2>4, <2>6 DEF Same
<1> HIDE DEF v2
<1>15. Round(n, e, q, a, j, d2, w2, v2)
  BY <1>3, <1>7, <1>8, <1>9, <1>10, <1>11, <1>12, <1>13, <1>14 DEF Round, l
<1> QED
  BY <1>15 DEF d2, w2, v2, bb, wd, vb

-----------------------------------------------------------------------------
\* The exponent of Euler's criterion.
HalfPower(n) == (n - 1) \div 2

\* A non-residue is the square of no number.
LEMMA NoRootOf ==
    ASSUME NEW n, Prime(n), n > 2, NEW a \in Int, a % n # 0,
           Same(Pow(a, HalfPower(n)), -1, n), NEW y \in Int
    PROVE  ~ Same(y * y, a, n)
<1>1. Same(y * y, a, n) => Pow(a, HalfPower(n)) % n = 1
  BY Residue DEF HalfPower
<1>2. n \in Nat /\ (-1) % n = n - 1
  BY Signs2, Halved
<1> QED
  BY <1>1, <1>2 DEF Same

\* The product of two non-residues passes Euler's criterion.
LEMMA TwoNonresidues ==
    ASSUME NEW n, Prime(n), n > 2, NEW a \in Int, NEW g \in Int,
           Same(Pow(a, HalfPower(n)), -1, n), Same(Pow(g, HalfPower(n)), -1, n)
    PROVE  (a * g) % n \in Int /\ ~ Same(Pow((a * g) % n, HalfPower(n)), -1, n)
<1> DEFINE ag == a * g
           d == ag % n
           h == HalfPower(n)
           y == Pow(a, h)
           z == Pow(g, h)
<1>1. n \in Nat /\ n \in Nat \ {0} /\ h \in Nat
  BY Halved DEF HalfPower
<1>2. ag \in Int
  BY Z3
<1>3. d \in Int /\ Same(d, ag, n)
  <2> HIDE DEF ag
  <2> QED
    BY <1>1, <1>2, SameRemainder
<1>4. y \in Int /\ z \in Int /\ Pow(ag, h) = y * z
  <2> HIDE DEF h
  <2> QED
    BY <1>1, PowSteps, PowTimes
<1>5. Same(Pow(d, h), Pow(ag, h), n)
  <2> HIDE DEF d, ag, h
  <2> QED
    BY <1>1, <1>2, <1>3, PowSame
<1>6. Same(y * z, (-1) * (-1), n)
  <2>1. Same(y, -1, n) /\ Same(z, -1, n) /\ -1 \in Int
    OBVIOUS
  <2> HIDE DEF y, z
  <2> QED
    BY <1>1, <1>4, <2>1, SameResults
<1>7. (-1) * (-1) = 1 /\ 1 % n = 1 /\ (-1) % n = n - 1 /\ n - 1 # 1
  BY <1>1, Signs2
<1> HIDE DEF d, y, z
<1>8. Pow(d, h) % n = 1
  BY <1>4, <1>5, <1>6, <1>7 DEF Same
<1> QED
  BY <1>3, <1>7, <1>8 DEF Same, d, h

\* For n = 3 mod 4 the power (n+1)/4 is the root, if there is one.
LEMMA FastRoot ==
    ASSUME NEW n, Prime(n), n > 2, n % 4 = 3, NEW a \in Int,
           NEW y, y = Pow(a, (n + 1) \div 4) % n
    PROVE  /\ y \in 0 .. n - 1
           /\ (y * y) % n = a % n \/ (a % n # 0 /\ Same(Pow(a, HalfPower(n)), -1, n))
<1> DEFINE h == HalfPower(n)
           j == (n + 1) \div 4
           b == Pow(a, j)
           z == Pow(a, h)
<1>1. /\ n \in Nat \ {0} /\ n \in Nat /\ h \in Nat /\ j \in Nat /\ j + j = h + 1
  <2>1. n \in Nat /\ h \in Nat /\ n - 1 = 2 * h /\ n \in Nat \ {0}
    BY Halved DEF HalfPower
  <2> HIDE DEF h
  <2>2. j \in Nat /\ n + 1 = 4 * j
    BY <2>1
  <2> HIDE DEF j
  <2> QED
    BY <2>1, <2>2
<1> HIDE DEF h, j
<1>2. b \in Int /\ z \in Int /\ b * b = a * z
  <2>1. Pow(a, j + j) = b * b /\ Pow(a, h + 1) = a * z
    BY <1>1, PowSum, PowSteps
  <2> QED
    BY <1>1, <2>1, PowSteps
<1>3. y \in 0 .. n - 1 /\ y \in Int /\ Same(y, b, n)
  <2> HIDE DEF b
  <2> QED
    BY <1>1, <1>2, SameRemainder DEF b, j
<1> HIDE DEF b, z
<1>4. Same(y * y, a * z, n)
  BY <1>1, <1>2, <1>3, SameResults
<1>5. Same(a, a, n) /\ Same(z, z, n) /\ 0 \in Int /\ 1 \in Int
  BY DEF Same
<1>6. CASE a % n = 0
  <2>1. 0 % n = 0
    <3>1. 0 \in 0 .. n - 1
      BY <1>1
    <3> QED
      BY <1>1, <3>1, Remainders
  <2>2. Same(a, 0, n)
    BY <1>6, <2>1 DEF Same
  <2>3. Same(a * z, 0 * z, n)
    BY <1>1, <1>2, <1>5, <2>2, SameResults
  <2>4. 0 * z = 0
    BY <1>2
  <2> QED
    BY <1>3, <1>4, <1>6, <2>1, <2>3, <2>4 DEF Same
<1>7. CASE Same(z, 1, n)
  <2>1. Same(a * z, a * 1, n)
    BY <1>1, <1>2, <1>5, <1>7, SameResults
  <2>2. a * 1 = a
    OBVIOUS
  <2> QED
    BY <1>3, <1>4, <2>1, <2>2 DEF Same
<1>8. a % n # 0 => Same(z, 1, n) \/ Same(z, -1, n)
  BY Euler DEF z, h, HalfPower
<1> QED
  BY <1>3, <1>6, <1>7, <1>8 DEF z, h

\* A function that multiplies each time computes the remainders of powers too.
Multiplies(f, b, n, k) ==
    f = [e \in 0 .. k |-> IF e = 0 THEN 1 ELSE (f[e - 1] * b) % n]

\* One multiplication more gives the next power.
LEMMA MultiplyStep ==
    ASSUME NEW n \in Nat \ {0}, NEW b \in Int, NEW e \in Nat \ {0}
    PROVE  ((Pow(b, e - 1) % n) * b) % n = Pow(b, e) % n
<1> DEFINE u == Pow(b, e - 1)
<1>1. u \in Int /\ Pow(b, e) = b * u /\ u * b = b * u
  <2>1. e - 1 \in Nat /\ (e - 1) + 1 = e
    OBVIOUS
  <2>2. u \in Int /\ Pow(b, (e - 1) + 1) = b * u
    BY <2>1, PowSteps
  <2> HIDE DEF u
  <2>3. u * b = b * u
    BY <2>2, Z3
  <2> QED
    BY <2>1, <2>2, <2>3
<1> HIDE DEF u
<1>2. u % n \in Int /\ Same(u % n, u, n) /\ Same(b, b, n)
  BY <1>1, SameRemainder DEF Same
<1>3. Same((u % n) * b, u * b, n)
  BY <1>1, <1>2, SameResults
<1> QED
  BY <1>1, <1>3 DEF Same, u

\* There is such a function, and its last value is the remainder of the power.
LEMMA Multiply ==
    ASSUME NEW n \in Nat, n >= 2, NEW b \in Int, NEW k \in Nat
    PROVE  /\ \E f : Multiplies(f, b, n, k)
           /\ \A f : Multiplies(f, b, n, k) => f[k] = Pow(b, k) % n
<1>1. n \in Nat \ {0} /\ Pow(b, 0) % n = 1
  <2>1. n \in Nat \ {0} /\ 1 \in 0 .. n - 1
    OBVIOUS
  <2> QED
    BY <2>1, PowSteps, Remainders
<1>2. \E f : Multiplies(f, b, n, k)
  <2> DEFINE f == [e \in 0 .. k |-> Pow(b, e) % n]
             val(e) == IF e = 0 THEN 1 ELSE (f[e - 1] * b) % n
  <2>1. ASSUME NEW e \in 0 .. k
        PROVE  Pow(b, e) % n = val(e)
    <3>1. CASE e = 0
      BY <1>1, <3>1
    <3>2. CASE e # 0
      <4>1. e \in Nat \ {0} /\ e - 1 \in 0 .. k
        BY <3>2
      <4>2. f[e - 1] = Pow(b, e - 1) % n
        BY <4>1
      <4>3. ((Pow(b, e - 1) % n) * b) % n = Pow(b, e) % n
        BY <1>1, <4>1, MultiplyStep
      <4> HIDE DEF f
      <4> QED
        BY <3>2, <4>2, <4>3
    <3> QED
      BY <3>1, <3>2
  <2> HIDE DEF val
  <2>2. f = [e \in 0 .. k |-> val(e)]
    BY <2>1
  <2> HIDE DEF f
  <2> QED
    BY <2>2 DEF Multiplies, val
<1>3. ASSUME NEW f, Multiplies(f, b, n, k)
      PROVE  f[k] = Pow(b, k) % n
  <2> DEFINE T == { e \in Nat : f[e] = Pow(b, e) % n }
  <2>1. 0 \in T
    BY <1>1, <1>3 DEF Multiplies
  <2>2. ASSUME NEW e \in 0 .. k - 1, e \in T
        PROVE  e + 1 \in T
    <3>1. e + 1 \in 0 .. k /\ e + 1 # 0 /\ (e + 1) - 1 = e /\ e + 1 \in Nat \ {0}
      OBVIOUS
    <3>2. f[e + 1] = (f[e] * b) % n
      <4> HIDE DEF T
      <4> QED
        BY <1>3, <3>1 DEF Multiplies
    <3>3. ((Pow(b, e) % n) * b) % n = Pow(b, e + 1) % n
      BY <1>1, <3>1, MultiplyStep
    <3> QED
      BY <2>2, <3>1, <3>2, <3>3
  <2> HIDE DEF T
  <2>3. \A e \in 0 .. k : e \in T
    BY <2>1, <2>2, Induction
  <2> QED
    BY <2>3 DEF T
<1> QED
  BY <1>2, <1>3

-----------------------------------------------------------------------------
\* A multiple of the divisor adds to the quotient.
LEMMA QuotientSum ==
    ASSUME NEW n \in Nat \ {0}, NEW k \in Int, NEW i \in Int
    PROVE  (n * k + i) \div n = k + (i \div n)
<1> DEFINE q == i \div n
           r == i % n
           s == k + q
<1>1. q \in Int /\ r \in 0 .. n - 1 /\ i = n * q + r
  BY DivMod
<1> HIDE DEF q, r
<1>2. s \in Int /\ n * k + i = n * s + r
  BY <1>1, Z3
<1> HIDE DEF s
<1>3. (n * s + r) \div n = s
  BY <1>1, <1>2, DivModUnique
<1> QED
  BY <1>2, <1>3 DEF s, q

\* Two divisions in a row are one.
LEMMA QuotientTwice ==
    ASSUME NEW n \in Nat \ {0}, NEW m \in Nat \ {0}, NEW i \in Int
    PROVE  (i \div n) \div m = i \div (n * m)
<1> DEFINE q == i \div n
           r == i % n
           s == q \div m
           t == q % m
           nm == n * m
           u == r + n * t
<1>1. q \in Int /\ r \in 0 .. n - 1 /\ i = n * q + r
  BY DivMod
<1> HIDE DEF q, r
<1>2. s \in Int /\ t \in 0 .. m - 1 /\ q = m * s + t
  BY <1>1, DivMod
<1> HIDE DEF s, t
<1>3. u \in 0 .. nm - 1
  BY <1>1, <1>2, Horner
<1>4. i = nm * s + u
  BY <1>1, <1>2, Z3
<1>5. nm \in Nat \ {0}
  BY Product
<1> HIDE DEF u, nm
<1>6. (nm * s + u) \div nm = s
  BY <1>2, <1>3, <1>5, DivModUnique
<1> QED
  BY <1>4, <1>6 DEF s, q, nm

\* A quotient lies between the bounds of the number and zero.
LEMMA QuotientBounds ==
    ASSUME NEW n \in Nat \ {0}, NEW i \in Int, NEW low \in Int, NEW high \in Int,
           low <= 0, 0 < high, low <= i, i < high
    PROVE  i \div n \in Int /\ low <= i \div n /\ i \div n < high
<1> DEFINE q == i \div n
           r == i % n
           nq == n * q
<1>1. q \in Int /\ r \in 0 .. n - 1 /\ i = n * q + r
  BY DivMod
<1> HIDE DEF q, r
<1>2. nq \in Int /\ (q >= 0 => nq >= q) /\ (q < 0 => nq + n <= q + 1)
  BY <1>1, Z3
<1>3. i = nq + r
  BY <1>1
<1> HIDE DEF nq
<1>4. low <= q /\ q < high
  BY <1>1, <1>2, <1>3
<1> QED
  BY <1>1, <1>4 DEF q

-----------------------------------------------------------------------------
\* The binary digits of an integer, in two's complement.
Digit(i, j) == (i \div 2^j) % 2

\* A digit is zero or one.
LEMMA DigitTyped ==
    ASSUME NEW i \in Int, NEW j \in Nat
    PROVE  Digit(i, j) \in {0, 1} /\ i \div 2^j \in Int
<1> DEFINE q == i \div 2^j
<1>1. 2^j \in Nat \ {0}
  BY TwoPowers
<1>2. q \in Int
  BY <1>1, DivMod
<1> HIDE DEF q
<1>3. q % 2 \in {0, 1}
  BY <1>2
<1> QED
  BY <1>2, <1>3 DEF Digit, q

\* A digit more of what is left below a power of two.
LEMMA LowDigits ==
    ASSUME NEW i \in Int, NEW k \in Nat
    PROVE  i % 2^(k + 1) = (i % 2^k) + 2^k * Digit(i, k)
<1> DEFINE n == 2^k
           q == i \div n
           r == i % n
           s == q \div 2
           t == q % 2
           u == r + n * t
           nm == n * 2
<1>1. n \in Nat \ {0} /\ 2^(k + 1) = n * 2
  <2>1. 2^k \in Nat \ {0} /\ 2^(k + 1) = 2 * 2^k
    BY TwoPowers
  <2> QED
    BY <2>1
<1> HIDE DEF n
<1>2. q \in Int /\ r \in 0 .. n - 1 /\ i = n * q + r
  BY <1>1, DivMod
<1> HIDE DEF q, r
<1>3. s \in Int /\ t \in 0 .. 2 - 1 /\ q = 2 * s + t
  BY <1>2
<1> HIDE DEF s, t
<1>4. u \in 0 .. (n * 2) - 1
  <2>1. 2 \in Nat \ {0}
    OBVIOUS
  <2> QED
    BY <1>1, <1>2, <1>3, <2>1, Horner
<1>5. i = nm * s + u /\ nm \in Nat \ {0}
  BY <1>1, <1>2, <1>3, Z3
<1>6. u \in 0 .. nm - 1
  BY <1>4
<1> HIDE DEF u, nm
<1>7. (nm * s + u) % nm = u
  BY <1>3, <1>5, <1>6, DivModUnique
<1> QED
  BY <1>1, <1>5, <1>7 DEF Digit, nm, u, r, t, q, n

\* The digits determine what is left below a power of two.
LEMMA DigitsBelow ==
    ASSUME NEW i \in Int, NEW j \in Int, NEW n \in Nat,
           \A k \in 0 .. n - 1 : Digit(i, k) = Digit(j, k)
    PROVE  i % 2^n = j % 2^n
<1> DEFINE T == { k \in Nat : i % 2^k = j % 2^k }
<1>1. 0 \in T
  <2>1. i % 1 = 0 /\ j % 1 = 0
    OBVIOUS
  <2> QED
    BY <2>1, TwoPowers
<1>2. ASSUME NEW k \in 0 .. n - 1, k \in T PROVE k + 1 \in T
  <2>1. k \in Nat /\ k + 1 \in Nat /\ Digit(i, k) = Digit(j, k)
    OBVIOUS
  <2>2. i % 2^(k + 1) = (i % 2^k) + 2^k * Digit(i, k)
    BY <2>1, LowDigits
  <2>3. j % 2^(k + 1) = (j % 2^k) + 2^k * Digit(j, k)
    BY <2>1, LowDigits
  <2>4. i % 2^k = j % 2^k
    BY <1>2
  <2> QED
    BY <2>1, <2>2, <2>3, <2>4
<1> HIDE DEF T
<1>3. \A k \in 0 .. n : k \in T
  BY <1>1, <1>2, Induction
<1>4. n \in T
  BY <1>3
<1> QED
  BY <1>4 DEF T

\* The digits of a remainder, of a multiple and of a quotient.
LEMMA DigitOfRemainder ==
    ASSUME NEW i \in Int, NEW n \in Nat, NEW j \in 0 .. n - 1
    PROVE  Digit(i % 2^n, j) = Digit(i, j)
<1> DEFINE N == 2^n
           m == 2^j
           h == 2^(n - 1 - j)
           q == i \div N
           r == i % N
           k == (2 * h) * q
           s == r \div m
<1>1. N \in Nat \ {0} /\ m \in Nat \ {0} /\ h \in Nat \ {0} /\ N = m * (2 * h)
  <2>1. j \in Nat /\ n - 1 - j \in Nat /\ (n - 1 - j) + 1 \in Nat /\ j + ((n - 1 - j) + 1) = n
    OBVIOUS
  <2>2. N \in Nat \ {0} /\ m \in Nat \ {0} /\ h \in Nat \ {0}
    BY <2>1, TwoPowers
  <2>3. 2^((n - 1 - j) + 1) = 2 * h
    BY <2>1, TwoPowers
  <2>4. 2^(j + ((n - 1 - j) + 1)) = m * 2^((n - 1 - j) + 1)
    BY <2>1, TwoSum
  <2> QED
    BY <2>1, <2>2, <2>3, <2>4
<1> HIDE DEF N, m, h
<1>2. q \in Int /\ r \in 0 .. N - 1 /\ i = N * q + r
  BY <1>1, DivMod
<1>3. r \in Int
  BY <1>1, <1>2
<1> HIDE DEF q, r
<1>4. k \in Int /\ i = m * k + r
  BY <1>1, <1>2, <1>3, Z3
<1>5. h * q \in Int /\ k = 2 * (h * q)
  BY <1>1, <1>2, Z3
<1> HIDE DEF k
<1>6. (m * k + r) \div m = k + s
  BY <1>1, <1>3, <1>4, QuotientSum
<1>7. s \in Int
  BY <1>1, <1>3, DivMod
<1> HIDE DEF s
<1>8. (k + s) % 2 = s % 2
  <2> DEFINE l == h * q
  <2>1. l \in Int /\ k = 2 * l
    BY <1>5
  <2> HIDE DEF l
  <2> QED
    BY <1>7, <2>1
<1> QED
  BY <1>4, <1>6, <1>8 DEF Digit, s, r, N, m

\* Multiplied by a power of two, the digits move up.
LEMMA DigitOfMultiple ==
    ASSUME NEW i \in Int, NEW n \in Nat, NEW j \in Nat
    PROVE  Digit(i * 2^n, j) = IF j < n THEN 0 ELSE Digit(i, j - n)
<1> DEFINE N == 2^n
           m == 2^j
           iN == i * N
<1>1. N \in Nat \ {0} /\ m \in Nat \ {0}
  BY TwoPowers
<1>2. CASE j < n
  <2> DEFINE h == 2^(n - 1 - j)
             k == i * h
  <2>1. h \in Nat \ {0} /\ N = m * (2 * h)
    <3>1. n - 1 - j \in Nat /\ (n - 1 - j) + 1 \in Nat /\ j + ((n - 1 - j) + 1) = n
      BY <1>2
    <3>2. h \in Nat \ {0}
      BY <3>1, TwoPowers
    <3>3. 2^((n - 1 - j) + 1) = 2 * h
      BY <3>1, TwoPowers
    <3>4. 2^(j + ((n - 1 - j) + 1)) = m * 2^((n - 1 - j) + 1)
      BY <3>1, TwoSum
    <3> QED
      BY <3>1, <3>2, <3>3, <3>4
  <2> HIDE DEF N, m, h
  <2>2. k \in Int /\ iN = m * (2 * k) + 0
    BY <1>1, <2>1, Z3
  <2> HIDE DEF k, iN
  <2>3. (m * (2 * k) + 0) \div m = 2 * k
    <3>1. 0 \in 0 .. m - 1 /\ 2 * k \in Int
      BY <1>1, <2>2
    <3> QED
      BY <1>1, <3>1, DivModUnique
  <2>4. (2 * k) % 2 = 0
    BY <2>2
  <2> QED
    BY <1>2, <2>2, <2>3, <2>4 DEF Digit, iN, N, m
<1>3. CASE n <= j
  <2> DEFINE h == 2^(j - n)
             q == i \div h
             r == i % h
             Nr == N * r
  <2>1. h \in Nat \ {0} /\ m = N * h
    <3>1. j - n \in Nat /\ n + (j - n) = j
      BY <1>3
    <3> QED
      BY <3>1, TwoPowers, TwoSum
  <2> HIDE DEF N, m, h
  <2>2. iN \in Int /\ iN = N * i
    BY <1>1, Z3
  <2> HIDE DEF iN
  <2>3. (N * i) \div N = i
    <3>1. 0 \in 0 .. N - 1 /\ N * i + 0 = N * i
      BY <1>1, <2>2
    <3>2. (N * i + 0) \div N = i
      BY <1>1, <3>1, DivModUnique
    <3> QED
      BY <3>1, <3>2
  <2>4. (iN \div N) \div h = iN \div (N * h)
    BY <1>1, <2>1, <2>2, QuotientTwice
  <2>5. iN \div m = i \div h
    BY <2>1, <2>2, <2>3, <2>4
  <2>6. Digit(i * 2^n, j) = Digit(i, j - n)
    BY <2>5 DEF Digit, iN, N, m, h
  <2>7. ~(j < n)
    BY <1>3
  <2> QED
    BY <2>6, <2>7, Zenon
<1> QED
  BY <1>2, <1>3

\* Divided by a power of two, the digits move down.
LEMMA DigitOfQuotient ==
    ASSUME NEW i \in Int, NEW n \in Nat, NEW j \in Nat
    PROVE  Digit(i \div 2^n, j) = Digit(i, j + n)
<1>1. 2^n \in Nat \ {0} /\ 2^j \in Nat \ {0} /\ 2^(j + n) = 2^n * 2^j
  <2>1. j + n = n + j
    OBVIOUS
  <2> QED
    BY <2>1, TwoPowers, TwoSum
<1>2. (i \div 2^n) \div 2^j = i \div (2^n * 2^j)
  BY <1>1, QuotientTwice
<1> QED
  BY <1>1, <1>2 DEF Digit

\* Above the topmost digit there are zeros, or ones in a negative number.
LEMMA DigitsAbove ==
    ASSUME NEW i \in Int, NEW n \in Nat, NEW j \in Nat, n <= j
    PROVE  /\ 0 <= i /\ i < 2^n => Digit(i, j) = 0
           /\ -2^n <= i /\ i < 0 => Digit(i, j) = 1
<1> DEFINE N == 2^n
           m == 2^j
           h == 2^(j - n)
<1>1. N \in Nat \ {0} /\ m \in Nat \ {0} /\ h \in Nat \ {0} /\ m = N * h
  <2>1. j - n \in Nat /\ n + (j - n) = j
    OBVIOUS
  <2> QED
    BY <2>1, TwoPowers, TwoSum
<1> HIDE DEF N, m, h
<1>2. N <= m
  BY <1>1, Z3
<1>3. ASSUME 0 <= i, i < N PROVE i \div m = 0
  <2>1. i \in 0 .. m - 1 /\ 0 \in Int
    BY <1>1, <1>2, <1>3
  <2>2. (m * 0 + i) \div m = 0
    BY <1>1, <2>1, DivModUnique
  <2> QED
    BY <1>1, <2>2
<1>4. ASSUME -N <= i, i < 0 PROVE i \div m = -1
  <2>1. i + m \in 0 .. m - 1 /\ -1 \in Int
    BY <1>1, <1>2, <1>4
  <2>2. (m * (-1) + (i + m)) \div m = -1
    BY <1>1, <2>1, DivModUnique
  <2>3. m * (-1) + (i + m) = i
    BY <1>1
  <2> QED
    BY <2>2, <2>3
<1>5. 0 % 2 = 0 /\ (-1) % 2 = 1
  <2>1. -1 \in Int /\ 1 \in 0 .. 2 - 1 /\ 2 \in Nat \ {0}
    OBVIOUS
  <2>2. (2 * (-1) + 1) % 2 = 1
    BY <2>1, DivModUnique
  <2>3. 2 * (-1) + 1 = -1
    OBVIOUS
  <2> QED
    BY <2>2, <2>3
<1>6. Digit(i, j) = (i \div m) % 2
  BY DEF Digit, m
<1>7. /\ 0 <= i /\ i < N => Digit(i, j) = 0
      /\ -N <= i /\ i < 0 => Digit(i, j) = 1
  BY <1>3, <1>4, <1>5, <1>6
<1> QED
  BY <1>7 DEF N

-----------------------------------------------------------------------------
\* The multiples of a number.
Multiple(i, n) == \E k \in Int : i = n * k

\* The multiples are the numbers without a remainder.
LEMMA MultipleIsZero ==
    ASSUME NEW n \in Nat \ {0}, NEW i \in Int
    PROVE  i % n = 0 <=> Multiple(i, n)
<1>1. ASSUME i % n = 0 PROVE Multiple(i, n)
  <2>1. i \div n \in Int /\ i = n * (i \div n) + (i % n)
    BY DivMod
  <2>2. n * (i \div n) \in Int
    BY <2>1, Z3
  <2>3. i = n * (i \div n)
    BY <1>1, <2>1, <2>2
  <2> QED
    BY <2>1, <2>3 DEF Multiple
<1>2. ASSUME Multiple(i, n) PROVE i % n = 0
  <2>1. PICK k \in Int : i = n * k
    BY <1>2 DEF Multiple
  <2>2. 0 \in 0 .. n - 1 /\ n * k + 0 = i
    BY <2>1
  <2>3. (n * k + 0) % n = 0
    BY <2>2, DivModUnique
  <2> QED
    BY <2>2, <2>3
<1> QED
  BY <1>1, <1>2

\* Equal remainders have the numbers whose difference is a multiple.
LEMMA MultipleSame ==
    ASSUME NEW n \in Nat \ {0}, NEW i \in Int, NEW j \in Int
    PROVE  Same(i, j, n) <=> Multiple(i - j, n)
<1>1. i - j \in Int
  OBVIOUS
<1> QED
  BY <1>1, SameDifference, MultipleIsZero

\* Sums, differences and products of multiples.
LEMMA Multiples2 ==
    ASSUME NEW n \in Int, NEW i \in Int, NEW j \in Int, Multiple(i, n)
    PROVE  /\ Multiple(j, n) => Multiple(i + j, n) /\ Multiple(i - j, n)
           /\ i * j \in Int /\ Multiple(i * j, n) /\ Multiple(j * i, n)
<1>1. PICK k \in Int : i = n * k
  BY DEF Multiple
<1>2. ASSUME Multiple(j, n)
      PROVE  Multiple(i + j, n) /\ Multiple(i - j, n)
  <2>1. PICK l \in Int : j = n * l
    BY <1>2 DEF Multiple
  <2>2. k + l \in Int /\ k - l \in Int /\ i + j = n * (k + l) /\ i - j = n * (k - l)
    BY <1>1, <2>1, Z3
  <2> QED
    BY <2>2 DEF Multiple
<1>3. k * j \in Int /\ i * j = n * (k * j) /\ j * i = n * (k * j) /\ i * j \in Int
  BY <1>1, Z3
<1> QED
  BY <1>2, <1>3 DEF Multiple

\* Multiples of multiples, and products of multiples.
LEMMA MultipleChain ==
    ASSUME NEW n \in Int, NEW m \in Int, NEW i \in Int, NEW j \in Int
    PROVE  /\ Multiple(n, m) /\ Multiple(i, n) => Multiple(i, m)
           /\ Multiple(i, n) /\ Multiple(j, m) => Multiple(i * j, n * m)
<1>1. ASSUME NEW k \in Int, NEW l \in Int, n = m * k, i = n * l
      PROVE  Multiple(i, m)
  <2>1. k * l \in Int /\ i = m * (k * l)
    BY <1>1, Z3
  <2> QED
    BY <2>1 DEF Multiple
<1>2. ASSUME NEW k \in Int, NEW l \in Int, i = n * k, j = m * l
      PROVE  Multiple(i * j, n * m)
  <2>1. k * l \in Int /\ i * j = (n * m) * (k * l)
    BY <1>2, Z3
  <2> QED
    BY <2>1 DEF Multiple
<1> QED
  BY <1>1, <1>2 DEF Multiple

\* What two numbers without a common divisor divide, their product divides.
LEMMA MultipleOfBoth ==
    ASSUME NEW n \in Int, NEW m \in Int, NEW i \in Int, Multiple(i, n), Multiple(i, m),
           NEW k \in Int, NEW l \in Int, n * k + m * l = 1
    PROVE  Multiple(i, n * m)
<1>1. PICK a \in Int : i = n * a
  BY DEF Multiple
<1>2. PICK b \in Int : i = m * b
  BY DEF Multiple
<1> DEFINE nk == n * k
           ml == m * l
           c == b * k + a * l
<1>3. nk \in Int /\ ml \in Int /\ c \in Int /\ nk + ml = 1
  BY Z3
<1>4. i * nk = (n * m) * (b * k)
  BY <1>2, Z3
<1>5. i * ml = (n * m) * (a * l)
  BY <1>1, Z3
<1>6. (n * m) * (b * k) + (n * m) * (a * l) = (n * m) * c
  BY <1>1, <1>2, Z3
<1> HIDE DEF nk, ml, c
<1>7. i = i * nk + i * ml
  BY <1>3, Z3
<1> QED
  BY <1>3, <1>4, <1>5, <1>6, <1>7 DEF Multiple

\* A prime can be inverted modulo what it does not divide.
LEMMA PrimeInverted ==
    ASSUME NEW n, Prime(n), NEW m \in Nat \ {0}, m % n # 0
    PROVE  \E k \in 0 .. m - 1 : (n * k) % m = 1 % m
<1>1. n \in Nat \ {0} /\ n \in Int /\ 1 % n = 1
  <2>1. n \in Nat /\ n >= 2
    BY DEF Prime
  <2>2. 1 \in 0 .. n - 1
    BY <2>1
  <2> QED
    BY <2>1, <2>2, Remainders
<1>2. PICK y \in Int : (m * y) % n = 1
  <2>1. m \in Int
    OBVIOUS
  <2> QED
    BY <2>1, PrimeInverts
<1> DEFINE my == m * y
<1>3. my \in Int
  BY Z3
<1>4. Multiple(my - 1, n)
  <2> HIDE DEF my
  <2>1. Same(my, 1, n) /\ 1 \in Int
    BY <1>1, <1>2 DEF Same, my
  <2> QED
    BY <1>1, <1>3, <2>1, MultipleSame
<1>5. PICK z \in Int : my - 1 = n * z
  BY <1>4 DEF Multiple
<1> DEFINE k == (-z) % m
           nz == n * (-z)
<1>6. -z \in Int /\ k \in 0 .. m - 1 /\ k \in Int /\ Same(k, -z, m)
  <2>1. -z \in Int
    OBVIOUS
  <2> QED
    BY <2>1, SameRemainder
<1>7. nz \in Int /\ nz = 1 + m * (-y) /\ -y \in Int
  <2>1. n * (-z) = -(n * z) /\ m * (-y) = -my
    BY <1>1, Z3
  <2> DEFINE d == n * z
             e == m * (-y)
  <2>2. d \in Int /\ my - 1 = d /\ nz = -d /\ e = -my
    BY <1>3, <1>5, <2>1
  <2> HIDE DEF d, e, my, nz
  <2>3. nz \in Int /\ nz = 1 + e
    BY <1>3, <2>2
  <2> QED
    BY <2>3 DEF e
<1>8. Same(nz, 1, m)
  <2> HIDE DEF nz
  <2>1. 1 \in Int /\ (1 + m * (-y)) % m = 1 % m
    <3>1. 1 \in Int /\ -y \in Int
      OBVIOUS
    <3> QED
      BY <3>1, Congruent
  <2> QED
    BY <1>7, <2>1 DEF Same
<1> HIDE DEF k
<1>9. Same(n * k, nz, m)
  <2>1. Same(n, n, m)
    BY DEF Same
  <2> QED
    BY <1>1, <1>6, <2>1, SameResults
<1> HIDE DEF nz
<1>10. (n * k) % m = 1 % m
  BY <1>8, <1>9 DEF Same
<1> QED
  BY <1>6, <1>10

\* What is raised to 3 n l and has a cube root that is the n-th and the l-th
\* root of a number w is w again, if and only if n divides w; in logarithms
\* modulo n q.
LEMMA PowerOfRoots ==
    ASSUME NEW n \in Nat \ {0}, NEW q \in Nat \ {0}, NEW l \in Int, NEW i \in Int, NEW j \in Int,
           Same(n * i, 1, q), Same(l * j, 1, q),
           NEW w \in Int, NEW c \in Int, Same(c * 3, (w * i) * j, n * q)
    PROVE  Same(c * (3 * n * l), w, n * q) <=> Multiple(w, n)
<1> DEFINE g == n * q
           ni == n * i
           lj == l * j
           wij == (w * i) * j
           nl == n * l
           e == ni * lj
           cl == c * (3 * n * l)
<1>1. g \in Nat \ {0} /\ g \in Int
  BY Product
<1>2. ni \in Int /\ lj \in Int /\ wij \in Int /\ nl \in Int /\ c * 3 \in Int
  <2>1. ni \in Int /\ lj \in Int /\ nl \in Int
    BY Z3
  <2>2. w * i \in Int
    BY Z3
  <2>3. (w * i) * j \in Int
    BY <2>2, Z3
  <2> QED
    BY <2>1, <2>3
<1>3. e \in Int /\ Multiple(e - 1, q)
  <2> HIDE DEF ni, lj
  <2>1. Same(ni, 1, q) /\ Same(lj, 1, q) /\ 1 \in Int
    BY DEF ni, lj
  <2>2. Same(ni * lj, 1 * 1, q)
    BY <1>2, <2>1, SameResults
  <2>3. ni * lj \in Int
    BY <1>2, Z3
  <2>4. 1 * 1 = 1
    OBVIOUS
  <2> QED
    BY <2>1, <2>2, <2>3, <2>4, MultipleSame
<1>4. cl = (c * 3) * nl /\ cl \in Int
  BY Z3
<1>5. wij * nl = w * e /\ w * e \in Int
  BY Z3
<1>6. Same(cl, w * e, g)
  <2> HIDE DEF wij, nl, g, cl, e
  <2>1. Same(c * 3, wij, g) /\ Same(nl, nl, g)
    BY DEF Same, g, wij
  <2>2. Same((c * 3) * nl, wij * nl, g)
    BY <1>1, <1>2, <2>1, SameResults
  <2> QED
    BY <1>4, <1>5, <2>2
<1>7. ASSUME Multiple(w, n) PROVE Same(cl, w, g)
  <2> DEFINE e1 == e - 1
  <2>1. w * e - w = w * e1 /\ e1 \in Int
    <3> HIDE DEF e
    <3> QED
      BY <1>3, Z3
  <2>2. Multiple(e1, q)
    BY <1>3
  <2> HIDE DEF e1, e
  <2>3. Multiple(w * e1, n * q)
    <3>1. n \in Int /\ q \in Int
      OBVIOUS
    <3> QED
      BY <1>7, <2>1, <2>2, <3>1, MultipleChain
  <2>4. Same(w * e, w, g)
    <3> HIDE DEF g
    <3>1. Multiple(w * e - w, g)
      BY <2>1, <2>3 DEF g
    <3> QED
      BY <1>1, <1>5, <3>1, MultipleSame
  <2> QED
    BY <1>6, <2>4 DEF Same
<1>8. ASSUME Same(cl, w, g) PROVE Multiple(w, n)
  <2>1. Multiple(cl - w, g)
    <3> HIDE DEF cl, g
    <3> QED
      BY <1>1, <1>4, <1>8, MultipleSame
  <2>2. Multiple(g, n)
    BY DEF Multiple
  <2>3. Multiple(cl, n)
    <3>1. (c * 3) * l \in Int /\ cl = n * ((c * 3) * l)
      BY Z3
    <3> QED
      BY <3>1 DEF Multiple
  <2> DEFINE d == cl - w
  <2> HIDE DEF cl, g
  <2>4. d \in Int /\ cl - d = w /\ n \in Int
    BY <1>4
  <2>5. Multiple(d, n)
    BY <1>1, <2>1, <2>2, <2>4, MultipleChain
  <2> HIDE DEF d
  <2> QED
    BY <1>4, <2>3, <2>4, <2>5, Multiples2
<1> QED
  BY <1>7, <1>8

-----------------------------------------------------------------------------
\* What RootOfRest assumes of its parameters.
RootConditions(n, m, e, g, t, l, li, f, a, b, s, c) ==
    /\ n \in Nat \ {0} /\ m \in Nat \ {0} /\ e \in Nat \ {0} /\ g = n * 27 * m * e
    /\ t \in Int /\ Same(27 * e * t, 1, m) /\ Same(10 * e * m, 1, 27)
    /\ l \in Int /\ li \in Int /\ Same(l * li, 1, e) /\ Multiple(l, n)
    /\ f \in Int /\ a \in Int /\ b \in Int /\ s \in Int /\ c \in Int
    /\ Same(a, (-(f * e * 27)) * t, g)
    /\ Multiple(f * e * m * 27, g) => Same(b, (-(f * e * m)) * 10, g)
    /\ Same(s, a + b, g) /\ Same(c, (f + s) * li, g)

\* The lambda-th root of f s, in logarithms modulo n * 27 * m * e: a and b take
\* from f what lies in the subgroups of order m and 27, if n divides f, and
\* the rest is in one where lambda has an inverse.
LEMMA RootOfRest ==
    ASSUME NEW n, NEW m, NEW e, NEW g, NEW t, NEW l, NEW li,
           NEW f, NEW a, NEW b, NEW s, NEW c,
           RootConditions(n, m, e, g, t, l, li, f, a, b, s, c)
    PROVE  Multiple(f, n) <=> Same(c * l, f + s, g) /\ Multiple(s * (27 * m), g)
<1> DEFINE m27 == 27 * m
           low == n * m27
           cl == c * l
           fs == f + s
           sm == s * m27
<1>0. /\ n \in Nat \ {0} /\ m \in Nat \ {0} /\ e \in Nat \ {0} /\ g = n * 27 * m * e
      /\ t \in Int /\ Same(27 * e * t, 1, m) /\ Same(10 * e * m, 1, 27)
      /\ l \in Int /\ li \in Int /\ Same(l * li, 1, e) /\ Multiple(l, n)
      /\ f \in Int /\ a \in Int /\ b \in Int /\ s \in Int /\ c \in Int
      /\ Same(a, (-(f * e * 27)) * t, g)
      /\ Multiple(f * e * m * 27, g) => Same(b, (-(f * e * m)) * 10, g)
      /\ Same(s, a + b, g) /\ Same(c, (f + s) * li, g)
  BY DEF RootConditions
<1> USE <1>0
<1>1. m27 \in Nat \ {0} /\ m27 \in Int /\ low \in Nat \ {0} /\ low \in Int
  <2>1. m27 \in Nat \ {0}
    OBVIOUS
  <2> HIDE DEF m27
  <2> QED
    BY <2>1, Product
<1>2. g = low * e /\ g \in Nat \ {0} /\ g \in Int
  <2>1. g = low * e
    BY Z3
  <2> HIDE DEF low
  <2> QED
    BY <1>1, <2>1, Product
<1>3. n \in Int /\ m \in Int /\ e \in Int /\ 27 \in Nat \ {0} /\ 1 \in Int
  OBVIOUS
<1>4. cl \in Int /\ fs \in Int /\ sm \in Int /\ l * li \in Int /\ (f + s) * li \in Int
  <2>1. cl \in Int /\ l * li \in Int
    BY Z3
  <2>2. fs \in Int /\ fs * li \in Int
    BY Z3
  <2>3. sm \in Int
    BY Z3
  <2> QED
    BY <2>1, <2>2, <2>3
<1>5. Multiple(g, n) /\ Multiple(g, low)
  <2>1. e \in Int /\ m27 * e \in Int /\ low * e = n * (m27 * e)
    BY <1>1, Z3
  <2> HIDE DEF low, m27
  <2> QED
    BY <1>2, <2>1 DEF Multiple
<1>6. Multiple(cl - fs, g) <=> Same(cl, fs, g)
  <2> HIDE DEF cl, fs
  <2> QED
    BY <1>2, <1>4, MultipleSame
<1>7. ASSUME Same(cl, fs, g), Multiple(sm, g)
      PROVE  Multiple(f, n)
  <2>1. PICK k \in Int : sm = g * k
    BY <1>7 DEF Multiple
  <2>2. s = n * (e * k) /\ e * k \in Int
    <3> DEFINE ek == e * k
               d == s - n * ek
    <3>1. ek \in Int /\ n * ek \in Int
      BY Z3
    <3>2. g * k = (n * ek) * m27
      BY <1>2, Z3
    <3> HIDE DEF ek
    <3>3. d \in Int
      BY <3>1
    <3>4. d * m27 = 0
      <4> HIDE DEF m27
      <4>1. d * m27 = s * m27 - (n * ek) * m27
        BY <1>1, <3>1, Z3
      <4>2. s * m27 = (n * ek) * m27 /\ s * m27 \in Int
        BY <1>4, <2>1, <3>2
      <4> QED
        BY <4>1, <4>2
    <3> HIDE DEF d, m27
    <3>5. d = 0
      BY <1>1, <3>3, <3>4, Z3
    <3> QED
      BY <3>1, <3>5 DEF d, ek
  <2>3. Multiple(s, n)
    BY <2>2 DEF Multiple
  <2>4. Multiple(cl, n)
    BY <1>3, Multiples2
  <2> DEFINE d == cl - fs
  <2>5. d \in Int /\ Multiple(d, n) /\ cl - d = fs
    <3> HIDE DEF cl, fs
    <3>1. d \in Int /\ cl - d = fs
      BY <1>4
    <3>2. Multiple(d, g)
      BY <1>6, <1>7
    <3> HIDE DEF d
    <3> QED
      BY <1>2, <1>3, <1>5, <3>1, <3>2, MultipleChain
  <2>6. Multiple(fs, n)
    <3> HIDE DEF cl, fs, d
    <3> QED
      BY <1>3, <1>4, <2>4, <2>5, Multiples2
  <2>7. Multiple(fs - s, n)
    <3> HIDE DEF fs
    <3> QED
      BY <1>3, <1>4, <2>3, <2>6, Multiples2
  <2>8. fs - s = f
    OBVIOUS
  <2> QED
    BY <2>7, <2>8
<1>8. ASSUME Multiple(f, n)
      PROVE  Same(cl, fs, g) /\ Multiple(sm, g)
  <2>1. PICK v \in Int : f = n * v
    BY <1>8 DEF Multiple
  <2> DEFINE fe == f * e
             k == 27 * t + 10 * m
             d == -(fe * k)
             ek == e * k
             w == 1 - ek
             fw == f * w
  <2>2. fe \in Int /\ k \in Int /\ d \in Int /\ ek \in Int /\ w \in Int /\ fw \in Int
    <3>1. fe \in Int /\ k \in Int
      BY Z3
    <3> HIDE DEF fe, k
    <3>2. fe * k \in Int /\ ek \in Int
      BY <3>1, Z3
    <3>3. d \in Int /\ w \in Int
      BY <3>2
    <3> HIDE DEF w
    <3>4. fw \in Int
      BY <3>3, Z3
    <3> QED
      BY <3>1, <3>2, <3>3, <3>4 DEF w
  <2>3. Same(s, d, g)
    <3> DEFINE da == (-(fe * 27)) * t
               db == (-(fe * m)) * 10
    <3>1. da \in Int /\ db \in Int /\ da + db = d
      <4> HIDE DEF fe
      <4>1. da \in Int /\ db \in Int /\ da + db = -(fe * (27 * t + 10 * m))
        BY <2>2, Z3
      <4> QED
        BY <4>1
    <3>2. Multiple(f * e * m * 27, g)
      <4>1. f * e * m * 27 = g * v
        BY <2>1, Z3
      <4> QED
        BY <4>1 DEF Multiple
    <3>3. Same(a, da, g) /\ Same(b, db, g)
      BY <3>2
    <3> HIDE DEF da, db, d
    <3>4. Same(a + b, da + db, g)
      BY <1>2, <3>1, <3>3, SameResults
    <3> QED
      BY <3>1, <3>4 DEF Same
  <2>4. Multiple(w, m)
    <3> DEFINE x == 27 * e * t
               y == m * (10 * e)
    <3>1. x \in Int /\ y \in Int /\ ek = x + y
      BY Z3
    <3>2. Multiple(y, m)
      BY DEF Multiple
    <3> HIDE DEF x, y, ek
    <3>3. Same(x, 1, m)
      BY DEF x
    <3>4. Multiple(x - 1, m)
      BY <1>3, <3>1, <3>3, MultipleSame
    <3>5. x - 1 \in Int /\ 0 \in Int /\ (x - 1) + y \in Int
      BY <3>1
    <3>6. Multiple((x - 1) + y, m)
      BY <1>3, <3>1, <3>2, <3>4, <3>5, Multiples2
    <3>7. Multiple(0, m)
      <4>1. 0 = m * 0
        OBVIOUS
      <4> QED
        BY <4>1 DEF Multiple
    <3>8. Multiple(0 - ((x - 1) + y), m)
      BY <1>3, <3>5, <3>6, <3>7, Multiples2
    <3>9. 0 - ((x - 1) + y) = w
      BY <3>1
    <3> QED
      BY <3>8, <3>9
  <2>5. Multiple(10 * e * m - 1, 27) /\ 10 * e * m \in Int
    <3> DEFINE x == 10 * e * m
    <3>1. x \in Int
      BY Z3
    <3>2. Same(x, 1, 27)
      OBVIOUS
    <3> HIDE DEF x
    <3>3. Multiple(x - 1, 27)
      BY <1>3, <3>1, <3>2, MultipleSame
    <3> QED
      BY <3>1, <3>3 DEF x
  <2>6. PICK j \in Int : 10 * e * m - 1 = 27 * j
    BY <2>5 DEF Multiple
  <2>7. Multiple(w, 27)
    <3> DEFINE x == 10 * e * m
               et == e * t
    <3>1. x \in Int /\ et \in Int /\ ek = 27 * et + x
      BY Z3
    <3>2. x - 1 = 27 * j
      BY <2>6
    <3> HIDE DEF x, et, ek
    <3>3. w = 27 * (-(et + j)) /\ -(et + j) \in Int
      BY <3>1, <3>2
    <3> HIDE DEF w
    <3> QED
      BY <3>3 DEF Multiple
  <2>8. Multiple(w, 27 * m)
    <3> DEFINE x == 10 * e * m
               y == m * (10 * e)
    <3>1. y = x /\ y \in Int
      BY Z3
    <3>2. x - 1 = 27 * j
      BY <2>6
    <3> HIDE DEF x, y
    <3>3. 27 * (-j) + y = 1 /\ -j \in Int /\ 27 \in Int
      BY <3>1, <3>2
    <3>4. 27 * (-j) + m * (10 * e) = 1 /\ 10 * e \in Int
      BY <3>3 DEF y
    <3> HIDE DEF w
    <3> QED
      BY <1>3, <2>2, <2>4, <2>7, <3>3, <3>4, MultipleOfBoth
  <2>9. Multiple(fw, low)
    <3> HIDE DEF w, m27
    <3> QED
      BY <1>1, <1>3, <1>8, <2>2, <2>8, MultipleChain DEF m27
  <2>10. Same(fs, fw, g)
    <3>1. fw = f + d
      <4> HIDE DEF k
      <4>1. fw = f - f * (e * k)
        BY <2>2, Z3
      <4>2. f * (e * k) = fe * k /\ fe * k \in Int
        BY <2>2, Z3
      <4> QED
        BY <4>1, <4>2
    <3>2. Same(f, f, g)
      BY DEF Same
    <3> HIDE DEF d, fw
    <3> QED
      BY <1>2, <2>2, <2>3, <3>1, <3>2, SameResults
  <2>11. Multiple(fs, low)
    <3> DEFINE x == fs - fw
    <3> HIDE DEF fs, fw, low
    <3>1. x \in Int /\ x + fw = fs
      BY <1>4, <2>2
    <3>2. Multiple(x, g)
      BY <1>2, <1>4, <2>2, <2>10, MultipleSame
    <3> HIDE DEF x
    <3>3. Multiple(x, low)
      BY <1>1, <1>2, <1>5, <3>1, <3>2, MultipleChain
    <3> QED
      BY <1>1, <2>2, <2>9, <3>1, <3>3, Multiples2
  <2>12. Same(cl, fs, g)
    <3> DEFINE x == l * li
               y == x - 1
    <3> HIDE DEF fs, low
    <3>1. x \in Int /\ y \in Int
      BY <1>4
    <3>2. Multiple(y, e)
      <4> HIDE DEF x
      <4>1. Same(x, 1, e)
        BY DEF x
      <4> QED
        BY <1>3, <3>1, <4>1, MultipleSame
    <3>3. Multiple(fs * y, low * e)
      <4> HIDE DEF y
      <4> QED
        BY <1>1, <1>3, <1>4, <2>11, <3>1, <3>2, MultipleChain
    <3>4. Same(cl, (fs * li) * l, g)
      <4>1. Same(c, fs * li, g) /\ Same(l, l, g) /\ fs * li \in Int
        BY <1>4 DEF Same, fs
      <4> QED
        BY <1>2, <4>1, SameResults
    <3>5. (fs * li) * l \in Int /\ (fs * li) * l - fs = fs * y
      BY <1>4, Z3
    <3>6. Same((fs * li) * l, fs, g)
      <4> DEFINE z == (fs * li) * l
      <4>1. Multiple(z - fs, g) /\ z \in Int
        BY <1>2, <3>3, <3>5
      <4> HIDE DEF z
      <4>2. Same(z, fs, g)
        BY <1>2, <1>4, <4>1, MultipleSame
      <4> QED
        BY <4>2 DEF z
    <3> QED
      BY <3>4, <3>6 DEF Same
  <2>13. Multiple(sm, g)
    <3> DEFINE dm == d * m27
               vk == -(v * k)
    <3>1. dm \in Int /\ vk \in Int /\ dm = g * vk
      <4> HIDE DEF k
      <4>1. v * k \in Int /\ (fe * k) * m27 = g * (v * k)
        BY <2>1, <2>2, Z3
      <4>2. dm = -((fe * k) * m27)
        BY <2>2, Z3
      <4>3. g * (-(v * k)) = -(g * (v * k))
        BY <1>2, <2>2, Z3
      <4>4. dm \in Int
        <5> HIDE DEF d, m27
        <5> QED
          BY <1>1, <2>2, Z3
      <4>5. vk \in Int
        BY <4>1
      <4> QED
        BY <4>1, <4>2, <4>3, <4>4, <4>5
    <3>2. Multiple(dm, g)
      BY <3>1 DEF Multiple
    <3>3. Same(sm, dm, g)
      <4> HIDE DEF d, m27
      <4>1. Same(m27, m27, g)
        BY DEF Same
      <4> QED
        BY <1>1, <1>2, <2>2, <2>3, <4>1, SameResults
    <3> HIDE DEF sm, dm
    <3>4. dm % g = 0 /\ sm % g = 0
      BY <1>2, <3>1, <3>2, <3>3, MultipleIsZero DEF Same
    <3> QED
      BY <1>2, <1>4, <3>4, MultipleIsZero
  <2> QED
    BY <2>12, <2>13
<1> QED
  BY <1>7, <1>8
-----------------------------------------------------------------------------
\* The sums of the first values of a function on the naturals.
TotalsOf(f) == CHOOSE g \in [Nat -> Int] : g[0] = 0 /\ \A i \in Nat : g[i + 1] = g[i] + f[i]
Total(f, n) == TotalsOf(f)[n]

\* The recursion defines a function, which obeys it.
LEMMA TotalSteps ==
    ASSUME NEW f \in [Nat -> Int]
    PROVE  /\ Total(f, 0) = 0
           /\ \A i \in Nat : Total(f, i) \in Int /\ Total(f, i + 1) = Total(f, i) + f[i]
<1> DEFINE H == UNION { [0 .. i - 1 -> Int] : i \in Nat }
           step == [ih \in Nat \X H |->
                      IF ih[1] = 0 THEN 0 ELSE ih[2][ih[1] - 1] + f[ih[1] - 1]]
<1>1. ASSUME NEW i \in Nat, NEW h \in [0 .. i - 1 -> Int]
      PROVE  /\ step[<<i, h>>] = IF i = 0 THEN 0 ELSE h[i - 1] + f[i - 1]
             /\ step[<<i, h>>] \in Int
  <2>1. h \in H
    OBVIOUS
  <2>2. step[<<i, h>>] = IF i = 0 THEN 0 ELSE h[i - 1] + f[i - 1]
    <3> HIDE DEF H
    <3> QED
      BY <2>1
  <2>3. i # 0 => h[i - 1] \in Int /\ f[i - 1] \in Int
    OBVIOUS
  <2> HIDE DEF step
  <2> QED
    BY <2>2, <2>3
<1> HIDE DEF step
<1>2. PICK g \in [Nat -> Int] : Unfolds(g, step)
  <2>1. \A i \in Nat : \A h \in [0 .. i - 1 -> Int] : step[<<i, h>>] \in Int
    BY <1>1
  <2> QED
    BY <2>1, CourseOfValues
<1>3. ASSUME NEW i \in Nat
      PROVE  g[i] = IF i = 0 THEN 0 ELSE g[i - 1] + f[i - 1]
  <2> DEFINE h == [j \in 0 .. i - 1 |-> g[j]]
  <2>1. h \in [0 .. i - 1 -> Int] /\ (i # 0 => h[i - 1] = g[i - 1])
    OBVIOUS
  <2>2. g[i] = step[<<i, h>>]
    BY <1>2 DEF Unfolds
  <2> HIDE DEF h
  <2> QED
    BY <1>1, <2>1, <2>2
<1>4. g[0] = 0 /\ \A i \in Nat : g[i + 1] = g[i] + f[i]
  <2>1. \A i \in Nat : i + 1 \in Nat /\ i + 1 # 0 /\ (i + 1) - 1 = i
    OBVIOUS
  <2> QED
    BY <1>3, <2>1
<1>5. /\ TotalsOf(f) \in [Nat -> Int] /\ TotalsOf(f)[0] = 0
      /\ \A i \in Nat : TotalsOf(f)[i + 1] = TotalsOf(f)[i] + f[i]
  BY <1>4 DEF TotalsOf
<1> QED
  BY <1>5 DEF Total

\* h is f and c times g, below n.
Joins(h, f, g, c, n) == \A i \in 0 .. n - 1 : h[i] = f[i] + c * g[i]

\* Where one function combines two others, its sums combine theirs.
LEMMA TotalLinear ==
    ASSUME NEW f \in [Nat -> Int], NEW g \in [Nat -> Int], NEW h \in [Nat -> Int],
           NEW c \in Int, NEW n \in Nat,
           Joins(h, f, g, c, n)
    PROVE  Total(h, n) = Total(f, n) + c * Total(g, n)
<1> DEFINE T == { i \in Nat : Total(h, i) = Total(f, i) + c * Total(g, i) }
<1>1. 0 \in T
  <2>1. Total(f, 0) = 0 /\ Total(g, 0) = 0 /\ Total(h, 0) = 0
    BY TotalSteps
  <2>2. 0 = 0 + c * 0
    BY Z3
  <2> QED
    BY <2>1, <2>2
<1>2. ASSUME NEW i \in 0 .. n - 1, i \in T PROVE i + 1 \in T
  <2> DEFINE F == Total(f, i)
             G == Total(g, i)
             K == Total(h, i)
             p == f[i]
             q == g[i]
             r == h[i]
  <2>1. i \in Nat /\ i + 1 \in Nat
    OBVIOUS
  <2>2. /\ F \in Int /\ Total(f, i + 1) = F + p
        /\ G \in Int /\ Total(g, i + 1) = G + q
        /\ K \in Int /\ Total(h, i + 1) = K + r
    BY <2>1, TotalSteps
  <2>3. p \in Int /\ q \in Int /\ r = p + c * q /\ K = F + c * G
    BY <1>2, <2>1 DEF Joins
  <2> HIDE DEF F, G, K, p, q, r, T
  <2>4. K + r = (F + p) + c * (G + q)
    BY <2>2, <2>3, Z3
  <2>5. Total(h, i + 1) = Total(f, i + 1) + c * Total(g, i + 1)
    BY <2>2, <2>4
  <2> QED
    BY <2>1, <2>5 DEF T
<1> HIDE DEF T
<1>3. \A i \in 0 .. n : i \in T
  BY <1>1, <1>2, Induction
<1> QED
  BY <1>3 DEF T

\* Functions that agree have the same sums; where they differ in one place the
\* sums differ by as much.
LEMMA TotalPoint ==
    ASSUME NEW f \in [Nat -> Int], NEW g \in [Nat -> Int], NEW n \in Nat, NEW x \in Nat,
           \A i \in 0 .. n - 1 : i # x => f[i] = g[i]
    PROVE  Total(f, n) = Total(g, n) + (IF x < n THEN f[x] - g[x] ELSE 0)
<1> DEFINE T == { i \in Nat :
                    Total(f, i) = Total(g, i) + (IF x < i THEN f[x] - g[x] ELSE 0) }
<1>1. 0 \in T
  BY TotalSteps
<1>2. ASSUME NEW i \in 0 .. n - 1, i \in T PROVE i + 1 \in T
  <2> DEFINE F == Total(f, i)
             G == Total(g, i)
             d == f[x] - g[x]
  <2>1. i \in Nat /\ i + 1 \in Nat
    OBVIOUS
  <2>2. /\ F \in Int /\ Total(f, i + 1) = F + f[i]
        /\ G \in Int /\ Total(g, i + 1) = G + g[i]
        /\ F = G + (IF x < i THEN d ELSE 0)
    BY <1>2, <2>1, TotalSteps
  <2>3. d \in Int /\ f[i] \in Int /\ g[i] \in Int
        /\ f[i] = g[i] + (IF x = i THEN d ELSE 0)
    BY <2>1
  <2> HIDE DEF F, G, d
  <2>4. F + f[i] = (G + g[i]) + (IF x < i + 1 THEN d ELSE 0)
    BY <2>1, <2>2, <2>3
  <2> QED
    BY <2>1, <2>2, <2>4 DEF d
<1> HIDE DEF T
<1>3. \A i \in 0 .. n : i \in T
  BY <1>1, <1>2, Induction
<1> QED
  BY <1>3 DEF T

-----------------------------------------------------------------------------
\* A function on the naturals that is zero outside of a set.
Within(f, S) == [i \in Nat |-> IF i \in S THEN f[i] ELSE 0]

\* g adds up the values of f on each subset of S, one member after the other in
\* the order in which they are chosen.
AddsUp(g, f, S) ==
    g = [s \in SUBSET S |->
           IF s = {} THEN 0
           ELSE f[CHOOSE x \in s : TRUE] + g[s \ {CHOOSE x \in s : TRUE}]]

\* There is such a function, and the order is of no consequence: what it gives
\* is the sum of the first values of the function that is zero outside.
LEMMA SetTotal ==
    ASSUME NEW f \in [Nat -> Int], NEW n \in Nat, NEW S \in SUBSET (0 .. n - 1)
    PROVE  /\ \E g : AddsUp(g, f, S)
           /\ \A g : AddsUp(g, f, S) => g[S] = Total(Within(f, S), n)
<1> DEFINE sum(s) == Total(Within(f, s), n)
           one(s) == CHOOSE x \in s : TRUE
<1>1. ASSUME NEW s \in SUBSET S
      PROVE  Within(f, s) \in [Nat -> Int] /\ sum(s) \in Int
  <2>1. Within(f, s) \in [Nat -> Int]
    BY DEF Within
  <2> QED
    BY <2>1, TotalSteps
<1>2. sum({}) = 0
  <2> DEFINE z == Within(f, {})
             c == 0
  <2>1. z \in [Nat -> Int] /\ Joins(z, z, z, 1, n)
    BY DEF Within, Joins
  <2>2. 1 \in Int
    OBVIOUS
  <2> HIDE DEF z
  <2>3. Total(z, n) = Total(z, n) + 1 * Total(z, n)
    BY <2>1, <2>2, TotalLinear
  <2>4. Total(z, n) \in Int
    BY <2>1, TotalSteps
  <2>5. \A t \in Int : t = t + 1 * t => t = 0
    OBVIOUS
  <2>6. Total(z, n) = 0
    BY <2>3, <2>4, <2>5, Zenon
  <2> QED
    BY <2>6 DEF z
<1>3. ASSUME NEW s \in SUBSET S, s # {}
      PROVE  /\ one(s) \in s /\ one(s) \in Nat /\ s \ {one(s)} \in SUBSET S
             /\ sum(s) = f[one(s)] + sum(s \ {one(s)})
  <2> DEFINE x == one(s)
             t == s \ {x}
             F == Within(f, s)
             G == Within(f, t)
  <2>1. x \in s
    BY <1>3
  <2> HIDE DEF x
  <2>2. x \in 0 .. n - 1
    BY <2>1
  <2>3. t \in SUBSET S /\ x \in Nat /\ x < n
    BY <2>1, <2>2
  <2>4. F \in [Nat -> Int] /\ G \in [Nat -> Int] /\ sum(t) \in Int
    BY <1>1, <2>3
  <2>5. (\A i \in 0 .. n - 1 : i # x => F[i] = G[i]) /\ F[x] = f[x] /\ G[x] = 0
    BY <2>1, <2>3 DEF Within
  <2>6. f[x] \in Int
    BY <2>3
  <2> HIDE DEF F, G, t, sum
  <2>7. Total(F, n) = Total(G, n) + (IF x < n THEN F[x] - G[x] ELSE 0)
    BY <2>3, <2>4, <2>5, TotalPoint
  <2>8. sum(s) = Total(F, n) /\ sum(t) = Total(G, n)
    BY DEF F, G, sum
  <2>9. sum(s) = f[x] + sum(t)
    BY <2>3, <2>4, <2>5, <2>6, <2>7, <2>8
  <2> QED
    BY <2>1, <2>3, <2>9 DEF x, t
<1> HIDE DEF sum, one
<1>4. \E g : AddsUp(g, f, S)
  <2> DEFINE g == [s \in SUBSET S |-> sum(s)]
             h == [s \in SUBSET S |-> IF s = {} THEN 0 ELSE f[one(s)] + g[s \ {one(s)}]]
  <2>1. ASSUME NEW s \in SUBSET S
        PROVE  sum(s) = IF s = {} THEN 0 ELSE f[one(s)] + g[s \ {one(s)}]
    <3>1. CASE s = {}
      BY <1>2, <3>1
    <3>2. CASE s # {}
      <4>1. s \ {one(s)} \in SUBSET S /\ sum(s) = f[one(s)] + sum(s \ {one(s)})
        BY <1>3, <3>2
      <4>2. g[s \ {one(s)}] = sum(s \ {one(s)})
        BY <4>1
      <4> HIDE DEF g
      <4> QED
        BY <3>2, <4>1, <4>2
    <3> QED
      BY <3>1, <3>2
  <2>2. g = h
    <3>1. \A s \in SUBSET S : g[s] = h[s]
      BY <2>1
    <3> QED
      BY <3>1
  <2>3. AddsUp(g, f, S)
    BY <2>2 DEF AddsUp, one
  <2> QED
    BY <2>3
<1>5. ASSUME NEW g, AddsUp(g, f, S) PROVE g[S] = sum(S)
  <2>1. ASSUME NEW s \in SUBSET S
        PROVE  g[s] = IF s = {} THEN 0 ELSE f[one(s)] + g[s \ {one(s)}]
    BY <1>5 DEF AddsUp, one
  <2> DEFINE Bad == { s \in SUBSET S : g[s] # sum(s) }
             C == { Cardinality(s) : s \in Bad }
  <2>2. ASSUME NEW s \in SUBSET S PROVE IsFiniteSet(s) /\ Cardinality(s) \in Nat
    <3>1. IsFiniteSet(0 .. n - 1)
      <4>1. 0 \in Int /\ n - 1 \in Int
        OBVIOUS
      <4> QED
        BY <4>1, FS_Interval
    <3>2. s \in SUBSET (0 .. n - 1)
      OBVIOUS
    <3>3. IsFiniteSet(s)
      BY <3>1, <3>2, FS_Subset
    <3> QED
      BY <3>3, FS_CardinalityType
  <2>3. Bad = {}
    <3> SUFFICES ASSUME Bad # {} PROVE FALSE
      OBVIOUS
    <3>1. C \in SUBSET Nat /\ C # {}
      BY <2>2
    <3>2. PICK k \in C : \A j \in C : k <= j
      <4> HIDE DEF C
      <4> QED
        BY <3>1, Least
    <3>3. PICK s \in Bad : k = Cardinality(s)
      OBVIOUS
    <3>4. s \in SUBSET S /\ g[s] # sum(s) /\ s # {}
      BY <1>2, <2>1
    <3>5. s \ {one(s)} \in SUBSET S /\ one(s) \in s /\ sum(s) = f[one(s)] + sum(s \ {one(s)})
      BY <1>3, <3>4
    <3> DEFINE t == s \ {one(s)}
    <3>6. t \in SUBSET S /\ Cardinality(t) = Cardinality(s) - 1
      <4>1. IsFiniteSet(s)
        BY <2>2, <3>4
      <4> QED
        BY <3>5, <4>1, FS_RemoveElement
    <3>7. t \notin Bad
      <4>1. Cardinality(s) \in Nat /\ Cardinality(t) \in Nat
        BY <2>2, <3>4, <3>6
      <4>2. SUFFICES ASSUME t \in Bad PROVE FALSE
        OBVIOUS
      <4>3. Cardinality(t) \in C
        BY <4>2
      <4>4. k <= Cardinality(t)
        BY <3>2, <4>3
      <4> HIDE DEF t, C, Bad
      <4> QED
        BY <3>3, <3>6, <4>1, <4>4
    <3>8. g[t] = sum(t)
      BY <3>6, <3>7
    <3>9. g[s] = f[one(s)] + g[t]
      BY <2>1, <3>4
    <3>10. sum(s) = f[one(s)] + sum(t)
      BY <3>5
    <3> HIDE DEF t
    <3> QED
      BY <3>4, <3>8, <3>9, <3>10, Zenon
  <2>4. S \in SUBSET S
    OBVIOUS
  <2> QED
    BY <2>3, <2>4
<1> QED
  BY <1>4, <1>5 DEF sum

-----------------------------------------------------------------------------
\* The unit of place i in a number whose digits have w bits.
Place(w, i) == 2^(w * i)

\* The units, one from the other.
LEMMA Places ==
    ASSUME NEW w \in Nat, NEW i \in Nat, NEW j \in Nat
    PROVE  /\ w * i \in Nat /\ Place(w, i) \in Nat \ {0} /\ 2^w \in Nat \ {0}
           /\ Place(w, 0) = 1 /\ Place(1, i) = 2^i
           /\ Place(w, i + j) = Place(w, i) * Place(w, j)
           /\ Place(w, i + 1) = Place(w, i) * 2^w
<1>1. /\ w * i \in Nat /\ w * j \in Nat /\ w * 0 = 0 /\ 1 * i = i
      /\ w * (i + j) = (w * i) + (w * j) /\ w * (i + 1) = (w * i) + w
  BY Z3
<1> DEFINE x == w * i
           y == w * j
<1>2. /\ 2^x \in Nat \ {0} /\ 2^w \in Nat \ {0} /\ 2^(x + y) = 2^x * 2^y
      /\ 2^(x + w) = 2^x * 2^w /\ 2^0 = 1
  <2>1. x \in Nat /\ y \in Nat
    BY <1>1
  <2> HIDE DEF x, y
  <2> QED
    BY <2>1, TwoPowers, TwoSum
<1> QED
  BY <1>1, <1>2 DEF Place

\* The remainder by a product, in two digits.
LEMMA RemainderSplits ==
    ASSUME NEW n \in Nat \ {0}, NEW m \in Nat \ {0}, NEW i \in Int
    PROVE  i % (n * m) = (i % n) + n * ((i \div n) % m)
<1> DEFINE q == i \div n
           r == i % n
           s == q \div m
           t == q % m
           nm == n * m
           u == r + n * t
<1>1. q \in Int /\ r \in 0 .. n - 1 /\ i = n * q + r
  BY DivMod
<1> HIDE DEF q, r
<1>2. s \in Int /\ t \in 0 .. m - 1 /\ q = m * s + t
  BY <1>1, DivMod
<1> HIDE DEF s, t
<1>3. u \in 0 .. nm - 1
  BY <1>1, <1>2, Horner
<1>4. i = nm * s + u
  BY <1>1, <1>2, Z3
<1>5. nm \in Nat \ {0}
  BY Product
<1> HIDE DEF u, nm
<1>6. (nm * s + u) % nm = u
  BY <1>2, <1>3, <1>5, DivModUnique
<1> QED
  BY <1>4, <1>6 DEF u, t, q, r, nm

\* From one place to the next: the digit, and what is left of it.
LEMMA NextPlace ==
    ASSUME NEW w \in Nat, NEW i \in Nat, NEW v \in Int
    PROVE  /\ v \div Place(w, i) \in Int /\ v \div Place(w, i + 1) \in Int
           /\ (v \div Place(w, i)) % 2^w \in 0 .. 2^w - 1
           /\ v \div Place(w, i)
                = 2^w * (v \div Place(w, i + 1)) + ((v \div Place(w, i)) % 2^w)
           /\ v \div Place(w, i + 1) = (v \div Place(w, i)) \div 2^w
           /\ v % Place(w, i + 1)
                = (v % Place(w, i)) + Place(w, i) * ((v \div Place(w, i)) % 2^w)
<1> DEFINE n == Place(w, i)
           m == 2^w
           q == v \div n
<1>1. n \in Nat \ {0} /\ m \in Nat \ {0} /\ Place(w, i + 1) = n * m
  BY Places
<1> HIDE DEF n, m
<1>2. q \in Int
  BY <1>1, DivMod
<1>3. q \div m = v \div (n * m)
  BY <1>1, QuotientTwice
<1>4. v % (n * m) = (v % n) + n * (q % m)
  BY <1>1, RemainderSplits
<1> HIDE DEF q
<1>5. q \div m \in Int /\ q % m \in 0 .. m - 1 /\ q = m * (q \div m) + (q % m)
  BY <1>1, <1>2, DivMod
<1> QED
  BY <1>1, <1>2, <1>3, <1>4, <1>5 DEF n, m, q

-----------------------------------------------------------------------------
\* v is the number whose n digits of w bits are d.
IsNumber(v, d, w, n) ==
    /\ v \in 0 .. Place(w, n) - 1
    /\ \A i \in 0 .. n - 1 :
          d[i] \in 0 .. 2^w - 1 /\ (v \div Place(w, i)) % 2^w = d[i]

\* The sum of the digits, each times its unit, is that number.
LEMMA SumOfDigits ==
    ASSUME NEW w \in Nat, NEW n \in Nat, NEW d, NEW f \in [Nat -> Int],
           \A i \in 0 .. n - 1 : d[i] \in 0 .. 2^w - 1 /\ f[i] = d[i] * Place(w, i)
    PROVE  IsNumber(Total(f, n), d, w, n)
<1> DEFINE B == 2^w
           T == { k \in Nat : IsNumber(Total(f, k), d, w, k) }
<1>0. B \in Nat \ {0}
  BY Places
<1>1. 0 \in T
  <2>1. Total(f, 0) = 0 /\ Place(w, 0) = 1
    BY TotalSteps, Places
  <2> QED
    BY <2>1 DEF IsNumber
<1>2. ASSUME NEW k \in 0 .. n - 1, k \in T PROVE k + 1 \in T
  <2> DEFINE t == Total(f, k)
             u == Place(w, k)
             c == d[k]
             v == t + c * u
  <2>1. k \in Nat /\ k + 1 \in Nat
    OBVIOUS
  <2>2. c \in 0 .. B - 1 /\ c \in Int /\ f[k] = c * u
    BY <1>0
  <2>3. t \in Int /\ Total(f, k + 1) = v
    BY <2>1, <2>2, TotalSteps
  <2>4. IsNumber(t, d, w, k)
    BY <1>2
  <2>5. u \in Nat \ {0} /\ Place(w, k + 1) = u * B /\ t \in 0 .. u - 1
    BY <2>1, <2>4, Places DEF IsNumber
  <2> HIDE DEF T, B, u, c, t
  <2>6. v \in 0 .. (u * B) - 1 /\ v \in Int
    <3>1. t + u * c \in 0 .. (u * B) - 1 /\ t + u * c = v
      <4>1. t + u * c \in 0 .. (u * B) - 1
        BY <1>0, <2>2, <2>5, Horner
      <4>2. u * c = c * u
        BY <2>2, <2>5, Z3
      <4> QED
        BY <4>1, <4>2
    <3> QED
      BY <3>1
  <2>7. ASSUME NEW i \in 0 .. k
        PROVE  d[i] \in 0 .. B - 1 /\ (v \div Place(w, i)) % B = d[i]
    <3>0. d[i] \in 0 .. B - 1
      <4>1. i \in 0 .. n - 1
        OBVIOUS
      <4> QED
        BY <4>1 DEF B
    <3>1. CASE i = k
      <4>1. v \div u = c
        <5>1. (u * c + t) \div u = c
          BY <2>2, <2>5, DivModUnique
        <5>2. u * c + t = v
          BY <2>2, <2>5, Z3
        <5> QED
          BY <5>1, <5>2
      <4>2. c % B = c
        BY <1>0, <2>2, Remainders
      <4> QED
        BY <3>0, <3>1, <4>1, <4>2 DEF u, c
    <3>2. CASE i < k
      <4> DEFINE a == Place(w, i)
                 b == Place(w, k - 1 - i)
                 e == b * c
      <4>1. /\ i \in Nat /\ k - i \in Nat /\ k - 1 - i \in Nat /\ i + (k - i) = k
            /\ (k - 1 - i) + 1 = k - i
        BY <3>2
      <4>2. a \in Nat \ {0} /\ b \in Nat \ {0} /\ u = a * (b * B)
        <5>1. Place(w, i + (k - i)) = Place(w, i) * Place(w, k - i)
          BY <4>1, Places
        <5>2. Place(w, (k - 1 - i) + 1) = Place(w, k - 1 - i) * B
          BY <4>1, Places DEF B
        <5> QED
          BY <4>1, <5>1, <5>2, Places DEF u
      <4> HIDE DEF a, b
      <4>3. e \in Int /\ v = a * (B * e) + t /\ B * e \in Int
        BY <1>0, <2>2, <2>5, <4>2, Z3
      <4>4. (a * (B * e) + t) \div a = (B * e) + (t \div a)
        BY <2>3, <4>2, <4>3, QuotientSum
      <4> HIDE DEF e, v
      <4> DEFINE q == t \div a
      <4>5. q \in Int /\ q % B = d[i]
        <5>1. i \in 0 .. k - 1
          BY <3>2
        <5>2. (t \div a) % B = d[i]
          BY <2>4, <5>1 DEF IsNumber, a, B
        <5> QED
          BY <2>3, <4>2, <5>2, DivMod
      <4> HIDE DEF q
      <4>6. (q + B * e) % B = q % B
        BY <1>0, <4>3, <4>5, Congruent
      <4>7. B * e + q = q + B * e
        BY <4>3, <4>5
      <4> QED
        BY <3>0, <4>3, <4>4, <4>5, <4>6, <4>7 DEF a, q
    <3> QED
      BY <3>1, <3>2
  <2>8. IsNumber(v, d, w, k + 1)
    <3>1. (k + 1) - 1 = k
      BY <2>1
    <3> HIDE DEF v
    <3> QED
      BY <2>5, <2>6, <2>7, <3>1 DEF IsNumber, B
  <2> HIDE DEF v
  <2> QED
    BY <2>1, <2>3, <2>8 DEF T
<1> HIDE DEF T
<1>3. \A k \in 0 .. n : k \in T
  BY <1>1, <1>2, Induction
<1> QED
  BY <1>3 DEF T

\* i has these digits, and any others above them.
HasDigits(i, d, w, n) == \A k \in 0 .. n - 1 : (i \div Place(w, k)) % 2^w = d[k]

\* A number is determined by its digits: what has the same ones is equal to it
\* up to a multiple of the unit above them.
LEMMA SameDigits ==
    ASSUME NEW w \in Nat, NEW n \in Nat, NEW d, NEW v, IsNumber(v, d, w, n), NEW i \in Int,
           HasDigits(i, d, w, n)
    PROVE  v = i % Place(w, n)
<1>1. v \in 0 .. Place(w, n) - 1 /\ Place(w, n) \in Nat \ {0} /\ v \in Int
  BY Places DEF IsNumber
<1> DEFINE T == { k \in Nat : v % Place(w, k) = i % Place(w, k) }
<1>2. 0 \in T
  <2>1. v % 1 = 0 /\ i % 1 = 0
    BY <1>1
  <2> QED
    BY <2>1, Places
<1>3. ASSUME NEW k \in 0 .. n - 1, k \in T PROVE k + 1 \in T
  <2>1. k \in Nat /\ k + 1 \in Nat
    OBVIOUS
  <2>2. (v \div Place(w, k)) % 2^w = (i \div Place(w, k)) % 2^w
    BY DEF IsNumber, HasDigits
  <2>3. v % Place(w, k) = i % Place(w, k)
    BY <1>3
  <2> HIDE DEF T
  <2>4. v % Place(w, k + 1) = (v % Place(w, k)) + Place(w, k) * ((v \div Place(w, k)) % 2^w)
    BY <1>1, <2>1, NextPlace
  <2>5. i % Place(w, k + 1) = (i % Place(w, k)) + Place(w, k) * ((i \div Place(w, k)) % 2^w)
    BY <2>1, NextPlace
  <2>6. v % Place(w, k + 1) = i % Place(w, k + 1)
    BY <2>2, <2>3, <2>4, <2>5, Zenon
  <2> QED
    BY <2>1, <2>6 DEF T
<1> HIDE DEF T
<1>4. n \in T
  <2>1. \A k \in 0 .. n : k \in T
    BY <1>2, <1>3, Induction
  <2> QED
    BY <2>1
<1>5. v % Place(w, n) = v
  BY <1>1, Remainders
<1> QED
  BY <1>4, <1>5 DEF T

\* The bits of a number are those of its digits.
LEMMA BitsOfDigits ==
    ASSUME NEW w \in Nat, NEW v \in Int, NEW i \in Nat, NEW j \in 0 .. w - 1
    PROVE  Digit(v, w * i + j) = Digit((v \div Place(w, i)) % 2^w, j)
<1> DEFINE x == w * i
           q == v \div 2^x
<1>1. x \in Nat /\ j \in Nat /\ 2^x \in Nat \ {0}
  BY Places DEF Place
<1> HIDE DEF x
<1>2. q \in Int
  BY <1>1, DivMod
<1>3. Digit(q, j) = Digit(v, j + x)
  BY <1>1, DigitOfQuotient
<1> HIDE DEF q
<1>4. Digit(q % 2^w, j) = Digit(q, j)
  BY <1>2, DigitOfRemainder
<1>5. j + x = x + j
  BY <1>1
<1> QED
  BY <1>3, <1>4, <1>5 DEF x, q, Place

\* Every position is one of a place.
LEMMA Positions ==
    ASSUME NEW w \in Nat \ {0}, NEW n \in Nat, NEW p \in 0 .. (w * n) - 1
    PROVE  \E i \in 0 .. n - 1, j \in 0 .. w - 1 : p = w * i + j
<1>0. p \in Nat
  <2>1. w * n \in Int
    BY Z3
  <2> QED
    BY <2>1
<1> DEFINE i == p \div w
           j == p % w
<1>1. i \in Int /\ j \in 0 .. w - 1 /\ p = w * i + j
  BY <1>0, DivMod
<1> HIDE DEF i, j
<1>2. i \in 0 .. n - 1
  BY <1>0, <1>1, Z3
<1> QED
  BY <1>1, <1>2

-----------------------------------------------------------------------------
\* The sum of the powers of two with the exponents in a set is the number that
\* has its ones there.
LEMMA SetOfOnes ==
    ASSUME NEW n \in Nat, NEW S \in SUBSET (0 .. n - 1), NEW f \in [Nat -> Int],
           \A i \in 0 .. n - 1 : f[i] = 2^i, NEW g, AddsUp(g, f, S)
    PROVE  /\ g[S] \in 0 .. 2^n - 1
           /\ \A j \in 0 .. n - 1 : Digit(g[S], j) = IF j \in S THEN 1 ELSE 0
<1> DEFINE d == [i \in 0 .. n - 1 |-> IF i \in S THEN 1 ELSE 0]
           h == Within(f, S)
<1>1. g[S] = Total(h, n)
  BY SetTotal
<1>2. h \in [Nat -> Int]
  BY DEF Within
<1>3. 2^1 = 2
  <2>1. 2^(0 + 1) = 2 * 2^0 /\ 2^0 = 1 /\ 0 \in Nat /\ 0 + 1 = 1
    BY TwoPowers
  <2> QED
    BY <2>1
<1>4. ASSUME NEW i \in 0 .. n - 1
      PROVE  d[i] \in 0 .. 2^1 - 1 /\ h[i] = d[i] * Place(1, i) /\ Place(1, i) = 2^i
  <2>1. Place(1, i) = 2^i /\ 2^i \in Nat /\ 1 \in Nat
    BY Places, TwoPowers
  <2>2. d[i] \in 0 .. 2 - 1 /\ d[i] = IF i \in S THEN 1 ELSE 0
    OBVIOUS
  <2>3. h[i] = IF i \in S THEN 2^i ELSE 0
    BY DEF Within
  <2> HIDE DEF d, h
  <2>4. h[i] = d[i] * 2^i
    BY <2>1, <2>2, <2>3
  <2> QED
    BY <1>3, <2>1, <2>2, <2>4
<1> HIDE DEF d, h
<1>5. 1 \in Nat
  OBVIOUS
<1>6. IsNumber(Total(h, n), d, 1, n)
  BY <1>2, <1>4, <1>5, SumOfDigits
<1>7. Place(1, n) = 2^n
  BY <1>5, Places
<1>8. g[S] \in 0 .. 2^n - 1
  BY <1>1, <1>6, <1>7 DEF IsNumber
<1>9. ASSUME NEW j \in 0 .. n - 1
      PROVE  Digit(g[S], j) = IF j \in S THEN 1 ELSE 0
  <2>1. (g[S] \div Place(1, j)) % 2^1 = d[j]
    BY <1>1, <1>6 DEF IsNumber
  <2>2. d[j] = IF j \in S THEN 1 ELSE 0
    BY DEF d
  <2> QED
    BY <1>3, <1>4, <2>1, <2>2 DEF Digit
<1> QED
  BY <1>8, <1>9

\* That sum, as the recursion over the subsets gives it.
SumOfPowers(S) ==
    (CHOOSE g : g = [s \in SUBSET S |->
                       IF s = {} THEN 0
                       ELSE 2^(CHOOSE x \in s : TRUE) + g[s \ {CHOOSE x \in s : TRUE}]])[S]

\* Its ones are the exponents.
LEMMA OnesOfSum ==
    ASSUME NEW n \in Nat, NEW S \in SUBSET (0 .. n - 1)
    PROVE  /\ SumOfPowers(S) \in 0 .. 2^n - 1
           /\ \A j \in 0 .. n - 1 : Digit(SumOfPowers(S), j) = IF j \in S THEN 1 ELSE 0
<1> DEFINE f == [i \in Nat |-> 2^i]
           g == CHOOSE g : g = [s \in SUBSET S |->
                                  IF s = {} THEN 0
                                  ELSE 2^(CHOOSE x \in s : TRUE) + g[s \ {CHOOSE x \in s : TRUE}]]
<1>1. SumOfPowers(S) = g[S]
  BY DEF SumOfPowers
<1> DEFINE body(h) == [s \in SUBSET S |->
                         IF s = {} THEN 0
                         ELSE 2^(CHOOSE x \in s : TRUE) + h[s \ {CHOOSE x \in s : TRUE}]]
<1>2. ASSUME NEW h PROVE AddsUp(h, f, S) <=> h = body(h)
  <2> DEFINE other == [s \in SUBSET S |->
                         IF s = {} THEN 0
                         ELSE f[CHOOSE x \in s : TRUE] + h[s \ {CHOOSE x \in s : TRUE}]]
  <2>1. ASSUME NEW s \in SUBSET S, s # {}
        PROVE  f[CHOOSE x \in s : TRUE] = 2^(CHOOSE x \in s : TRUE)
    <3>1. (CHOOSE x \in s : TRUE) \in s
      BY <2>1
    <3>2. \A x \in s : x \in 0 .. n - 1
      OBVIOUS
    <3>3. \A x \in 0 .. n - 1 : x \in Nat
      OBVIOUS
    <3>4. (CHOOSE x \in s : TRUE) \in Nat
      BY <3>1, <3>2, <3>3, Zenon
    <3> QED
      BY <3>4
  <2> HIDE DEF f
  <2>2. other = body(h)
    BY <2>1
  <2> QED
    BY <2>2 DEF AddsUp
<1>3. f \in [Nat -> Int] /\ \A i \in 0 .. n - 1 : f[i] = 2^i
  BY TwoPowers
<1>5. AddsUp(g, f, S)
  <2>1. \E h : AddsUp(h, f, S)
    <3> HIDE DEF f
    <3> QED
      BY <1>3, SetTotal
  <2>2. \E h : h = body(h)
    <3> HIDE DEF body
    <3> QED
      BY <1>2, <2>1, Zenon
  <2>3. g = body(g)
    BY <2>2
  <2> QED
    BY <1>2, <2>3
<1> HIDE DEF f, g
<1>6. /\ g[S] \in 0 .. 2^n - 1
      /\ \A j \in 0 .. n - 1 : Digit(g[S], j) = IF j \in S THEN 1 ELSE 0
  BY <1>3, <1>5, SetOfOnes
<1> QED
  BY <1>1, <1>6

-----------------------------------------------------------------------------
\* The sum of n digits of w bits, each times its unit, as the recursion over the
\* subsets of the places gives it.
SumOfPlaces(d, w, n) ==
    (CHOOSE g :
        g = [s \in SUBSET (0 .. n - 1) |->
               IF s = {} THEN 0
               ELSE (d[CHOOSE x \in s : TRUE] * 2^(w * (CHOOSE x \in s : TRUE)))
                       + g[s \ {CHOOSE x \in s : TRUE}]])[0 .. n - 1]

\* It is the number with these digits.
LEMMA NumberOfDigits ==
    ASSUME NEW w \in Nat, NEW n \in Nat, NEW d, \A i \in 0 .. n - 1 : d[i] \in 0 .. 2^w - 1
    PROVE  IsNumber(SumOfPlaces(d, w, n), d, w, n)
<1> DEFINE S == 0 .. n - 1
           term(i) == d[i] * 2^(w * i)
           f == [i \in Nat |-> IF i \in S THEN term(i) ELSE 0]
           body(h) == [s \in SUBSET S |->
                         IF s = {} THEN 0
                         ELSE term(CHOOSE x \in s : TRUE) + h[s \ {CHOOSE x \in s : TRUE}]]
           g == CHOOSE g : g = body(g)
<1>1. SumOfPlaces(d, w, n) = g[S]
  BY DEF SumOfPlaces
<1>2. ASSUME NEW h PROVE AddsUp(h, f, S) <=> h = body(h)
  <2> DEFINE other == [s \in SUBSET S |->
                         IF s = {} THEN 0
                         ELSE f[CHOOSE x \in s : TRUE] + h[s \ {CHOOSE x \in s : TRUE}]]
  <2>1. ASSUME NEW s \in SUBSET S, s # {}
        PROVE  f[CHOOSE x \in s : TRUE] = term(CHOOSE x \in s : TRUE)
    <3>1. (CHOOSE x \in s : TRUE) \in s
      BY <2>1
    <3>2. \A x \in s : x \in S
      OBVIOUS
    <3>3. \A x \in S : x \in Nat
      OBVIOUS
    <3> HIDE DEF S, term
    <3>4. (CHOOSE x \in s : TRUE) \in Nat /\ (CHOOSE x \in s : TRUE) \in S
      BY <3>1, <3>2, <3>3, Zenon
    <3>5. \A x \in Nat : x \in S => f[x] = term(x)
      OBVIOUS
    <3> HIDE DEF f
    <3> QED
      BY <3>4, <3>5, Zenon
  <2> HIDE DEF f, term, S
  <2>2. other = body(h)
    BY <2>1
  <2> QED
    BY <2>2 DEF AddsUp
<1>3. ASSUME NEW i \in S
      PROVE  term(i) \in Int /\ f[i] = term(i) /\ term(i) = d[i] * Place(w, i)
  <2>1. i \in Nat /\ d[i] \in 0 .. 2^w - 1
    OBVIOUS
  <2>2. 2^w \in Nat \ {0} /\ Place(w, i) \in Nat \ {0} /\ 2^(w * i) = Place(w, i)
    BY <2>1, Places DEF Place
  <2>3. d[i] \in Int
    BY <2>1, <2>2
  <2>4. term(i) \in Int
    <3> DEFINE u == 2^(w * i)
               c == d[i]
    <3>1. u \in Int /\ c \in Int
      BY <2>2, <2>3
    <3> HIDE DEF u, c
    <3>2. c * u \in Int
      BY <3>1, Z3
    <3> QED
      BY <3>2 DEF u, c
  <2> HIDE DEF S
  <2>5. term(i) = d[i] * Place(w, i)
    BY <2>2
  <2> HIDE DEF term
  <2> QED
    BY <2>1, <2>4, <2>5
<1> HIDE DEF term
<1>4. f \in [Nat -> Int]
  BY <1>3
<1>5. AddsUp(g, f, S)
  <2>1. \E h : AddsUp(h, f, S)
    <3> HIDE DEF f
    <3> QED
      BY <1>4, SetTotal
  <2>2. \E h : h = body(h)
    <3> HIDE DEF body, S
    <3> QED
      BY <1>2, <2>1, Zenon
  <2>3. g = body(g)
    BY <2>2
  <2> HIDE DEF f
  <2> QED
    BY <1>2, <2>3
<1>6. Within(f, S) = f
  BY DEF Within
<1> HIDE DEF f, g
<1>7. g[S] = Total(f, n)
  BY <1>4, <1>5, <1>6, SetTotal
<1>8. IsNumber(Total(f, n), d, w, n)
  BY <1>3, <1>4, SumOfDigits
<1> QED
  BY <1>1, <1>7, <1>8

\* A column of a product: the products of the digits whose places add up to k.
SumOfColumn(d, e, k) ==
    (CHOOSE g :
        g = [s \in SUBSET (0 .. k) |->
               IF s = {} THEN 0
               ELSE (d[CHOOSE x \in s : TRUE] * e[k - (CHOOSE x \in s : TRUE)])
                       + g[s \ {CHOOSE x \in s : TRUE}]])[0 .. k]

\* It is the sum of the first k + 1 of them.
LEMMA ColumnTotal ==
    ASSUME NEW d, NEW e, NEW k \in Nat, NEW f \in [Nat -> Int],
           \A i \in Nat : f[i] = IF i \in 0 .. k THEN d[i] * e[k - i] ELSE 0
    PROVE  SumOfColumn(d, e, k) = Total(f, k + 1)
<1> DEFINE S == 0 .. k
           term(i) == d[i] * e[k - i]
           body(h) == [s \in SUBSET S |->
                         IF s = {} THEN 0
                         ELSE term(CHOOSE x \in s : TRUE) + h[s \ {CHOOSE x \in s : TRUE}]]
           g == CHOOSE g : g = body(g)
<1>1. SumOfColumn(d, e, k) = g[S]
  BY DEF SumOfColumn
<1>2. ASSUME NEW h PROVE AddsUp(h, f, S) <=> h = body(h)
  <2> DEFINE other == [s \in SUBSET S |->
                         IF s = {} THEN 0
                         ELSE f[CHOOSE x \in s : TRUE] + h[s \ {CHOOSE x \in s : TRUE}]]
  <2>1. ASSUME NEW s \in SUBSET S, s # {}
        PROVE  f[CHOOSE x \in s : TRUE] = term(CHOOSE x \in s : TRUE)
    <3>1. (CHOOSE x \in s : TRUE) \in s
      BY <2>1
    <3>2. \A x \in s : x \in S
      OBVIOUS
    <3>3. \A x \in S : x \in Nat
      OBVIOUS
    <3>4. \A x \in Nat : x \in S => f[x] = term(x)
      OBVIOUS
    <3> HIDE DEF S, term
    <3> QED
      BY <3>1, <3>2, <3>3, <3>4, Zenon
  <2> HIDE DEF term, S
  <2>2. other = body(h)
    BY <2>1
  <2> QED
    BY <2>2 DEF AddsUp
<1>3. S = 0 .. (k + 1) - 1 /\ k + 1 \in Nat
  BY Z3
<1>4. AddsUp(g, f, S)
  <2>1. \E h : AddsUp(h, f, S)
    <3>1. S \in SUBSET (0 .. (k + 1) - 1)
      BY <1>3
    <3> HIDE DEF S
    <3> QED
      BY <1>3, <3>1, SetTotal
  <2>2. \E h : h = body(h)
    <3> HIDE DEF body, S
    <3> QED
      BY <1>2, <2>1, Zenon
  <2>3. g = body(g)
    BY <2>2
  <2> QED
    BY <1>2, <2>3
<1>5. Within(f, S) = f
  BY DEF Within
<1> HIDE DEF g, S
<1>6. g[S] = Total(f, k + 1)
  <2>1. S \in SUBSET (0 .. (k + 1) - 1)
    BY <1>3
  <2> QED
    BY <1>3, <1>4, <1>5, <2>1, SetTotal, Zenon
<1> QED
  BY <1>1, <1>6

-----------------------------------------------------------------------------
\* A function each value of which is made of the one before.
StepsFrom(g, m, first, step) ==
    \A i \in 0 .. m : g[i] = IF i = 0 THEN first ELSE step[<<i, g[i - 1]>>]

\* There always is one.
LEMMA Stepwise ==
    ASSUME NEW m \in Nat, NEW V, NEW first \in V, NEW step \in [(0 .. m) \X V -> V]
    PROVE  \E g \in [0 .. m -> V] : StepsFrom(g, m, first, step)
<1> DEFINE prev == [i \in 0 .. m |-> i - 1]
           base == [i \in 0 .. m |-> first]
<1>1. prev \in [0 .. m -> Int] /\ base \in [0 .. m -> V]
  OBVIOUS
<1>2. \A i \in 0 .. m : prev[i] = i - 1 /\ base[i] = first /\ (i - 1 \in 0 .. i - 1 <=> i # 0)
  OBVIOUS
<1> HIDE DEF prev, base
<1>3. PICK g \in [0 .. m -> V] : LooksBack(g, m, prev, base, step)
  BY <1>1, Recursion
<1>4. ASSUME NEW i \in 0 .. m
      PROVE  g[i] = IF i = 0 THEN first ELSE step[<<i, g[i - 1]>>]
  <2>1. g[i] = IF prev[i] \in 0 .. i - 1 THEN step[<<i, g[prev[i]]>>] ELSE base[i]
    BY <1>3 DEF LooksBack
  <2>2. prev[i] = i - 1 /\ base[i] = first /\ (i - 1 \in 0 .. i - 1 <=> i # 0)
    BY <1>2
  <2> QED
    BY <2>1, <2>2, Zenon
<1> QED
  BY <1>4 DEF StepsFrom

-----------------------------------------------------------------------------
\* What is carried to the next place, and what stays.
LEMMA Carried ==
    ASSUME NEW B \in Nat \ {0}, NEW h \in Int, NEW t \in Int, NEW i \in Int, i = B * h + t
    PROVE  i \div B = h + (t \div B) /\ i % B = t % B
<1>1. (B * h + t) \div B = h + (t \div B)
  BY QuotientSum
<1>2. (t + B * h) % B = t % B
  BY Congruent
<1>3. t + B * h = i
  BY Z3
<1> QED
  BY <1>1, <1>2, <1>3

\* The quotients of a number by the units: its digits, one after the other.
LEMMA Quotients ==
    ASSUME NEW w \in Nat, NEW n \in Nat, NEW d, NEW v, IsNumber(v, d, w, n)
    PROVE  /\ v \in Int /\ v \div Place(w, 0) = v /\ v \div Place(w, n) = 0
           /\ \A i \in 0 .. n - 1 :
                 /\ v \div Place(w, i) \in Int /\ v \div Place(w, i + 1) \in Int /\ d[i] \in Int
                 /\ v \div Place(w, i) = 2^w * (v \div Place(w, i + 1)) + d[i]
<1>1. v \in Int /\ v \in 0 .. Place(w, n) - 1 /\ Place(w, n) \in Nat \ {0} /\ 2^w \in Nat \ {0}
  BY Places DEF IsNumber
<1>2. v \div Place(w, 0) = v
  <2>1. Place(w, 0) = 1 /\ v \div 1 = v
    BY <1>1, Places
  <2> QED
    BY <2>1
<1>3. v \div Place(w, n) = 0
  <2> DEFINE u == Place(w, n)
  <2>1. u \in Nat \ {0} /\ v \in 0 .. u - 1 /\ 0 \in Int /\ u * 0 + v = v
    BY <1>1
  <2> HIDE DEF u
  <2>2. (u * 0 + v) \div u = 0
    BY <2>1, DivModUnique
  <2> QED
    BY <2>1, <2>2 DEF u
<1>4. ASSUME NEW i \in 0 .. n - 1
      PROVE  /\ v \div Place(w, i) \in Int /\ v \div Place(w, i + 1) \in Int /\ d[i] \in Int
             /\ v \div Place(w, i) = 2^w * (v \div Place(w, i + 1)) + d[i]
  <2>1. i \in Nat /\ d[i] \in 0 .. 2^w - 1 /\ (v \div Place(w, i)) % 2^w = d[i]
    BY DEF IsNumber
  <2>2. /\ v \div Place(w, i) \in Int /\ v \div Place(w, i + 1) \in Int
        /\ v \div Place(w, i)
             = 2^w * (v \div Place(w, i + 1)) + ((v \div Place(w, i)) % 2^w)
    BY <1>1, <2>1, NextPlace
  <2>3. d[i] \in Int
    BY <1>1, <2>1
  <2> QED
    BY <2>1, <2>2, <2>3
<1> QED
  BY <1>1, <1>2, <1>3, <1>4

-----------------------------------------------------------------------------
\* r adds the digits d and e, with the carries c.
Adds(r, c, d, e, w, n) ==
    \A i \in 0 .. n - 1 :
       /\ c[i] = IF i = 0 THEN 0 ELSE (d[i - 1] + e[i - 1] + c[i - 1]) \div 2^w
       /\ r[i] = (d[i] + e[i] + c[i]) % 2^w

\* Digits added with carries are those of the sum.
LEMMA AddedDigits ==
    ASSUME NEW w \in Nat, NEW n \in Nat, NEW r, NEW c, NEW d, NEW e, NEW x, NEW y,
           IsNumber(x, d, w, n), IsNumber(y, e, w, n), Adds(r, c, d, e, w, n)
    PROVE  HasDigits(x + y, r, w, n)
<1> DEFINE B == 2^w
           q(v, i) == v \div Place(w, i)
           z == x + y
           T == { i \in Nat : i \in 0 .. n - 1 => c[i] = q(z, i) - q(x, i) - q(y, i) }
<1>1. B \in Nat \ {0} /\ x \in Int /\ y \in Int /\ z \in Int
  <2>1. x \in Int /\ y \in Int
    BY Quotients
  <2> QED
    BY <2>1, Places
<1>2. ASSUME NEW i \in 0 .. n - 1, i \in T
      PROVE  /\ c[i] \in Int /\ d[i] \in Int /\ e[i] \in Int
             /\ q(z, i) % B = (d[i] + e[i] + c[i]) % B
             /\ q(z, i + 1) = (q(x, i + 1) + q(y, i + 1)) + ((d[i] + e[i] + c[i]) \div B)
             /\ q(x, i + 1) \in Int /\ q(y, i + 1) \in Int
             /\ (d[i] + e[i] + c[i]) \div B \in Int
  <2> DEFINE X == q(x, i)
             Y == q(y, i)
             Z == q(z, i)
             X1 == q(x, i + 1)
             Y1 == q(y, i + 1)
             h == X1 + Y1
             t == d[i] + e[i] + c[i]
  <2>1. X \in Int /\ X1 \in Int /\ d[i] \in Int /\ X = B * X1 + d[i]
    BY Quotients
  <2>2. Y \in Int /\ Y1 \in Int /\ e[i] \in Int /\ Y = B * Y1 + e[i]
    BY Quotients
  <2>3. i \in Nat
    OBVIOUS
  <2>4. Z \in Int /\ q(z, i + 1) = Z \div B
    <3> HIDE DEF z
    <3> QED
      BY <1>1, <2>3, NextPlace
  <2>5. c[i] = Z - X - Y
    BY <1>2
  <2> HIDE DEF X, Y, Z, X1, Y1, B
  <2>6. c[i] \in Int /\ h \in Int /\ t \in Int /\ Z = B * h + t
    <3>1. c[i] \in Int /\ h \in Int /\ t \in Int
      BY <2>1, <2>2, <2>4, <2>5
    <3>2. B * h = B * X1 + B * Y1 /\ B * X1 \in Int /\ B * Y1 \in Int
      BY <1>1, <2>1, <2>2, Z3
    <3>3. Z = X + Y + c[i]
      BY <2>1, <2>2, <2>4, <2>5
    <3> QED
      BY <2>1, <2>2, <3>1, <3>2, <3>3
  <2> HIDE DEF h, t
  <2>7. Z \div B = h + (t \div B) /\ Z % B = t % B
    <3>1. Z \in Int /\ h \in Int /\ t \in Int /\ Z = B * h + t
      BY <2>4, <2>6
    <3> HIDE DEF z
    <3> QED
      BY <1>1, <3>1, Carried
  <2>8. t \div B \in Int
    BY <1>1, <2>6, DivMod
  <2> QED
    BY <2>1, <2>2, <2>4, <2>6, <2>7, <2>8 DEF h, t, X1, Y1, Z
<1>3. 0 \in T
  <2>1. q(x, 0) = x /\ q(y, 0) = y /\ q(z, 0) = z
    <3>1. Place(w, 0) = 1 /\ z \div 1 = z
      BY <1>1, Places
    <3> QED
      BY <3>1, Quotients
  <2>2. 0 \in 0 .. n - 1 => c[0] = 0
    BY DEF Adds
  <2> QED
    BY <1>1, <2>1, <2>2
<1>4. ASSUME NEW i \in 0 .. n - 1, i \in T PROVE i + 1 \in T
  <2> SUFFICES ASSUME i + 1 \in 0 .. n - 1
               PROVE  c[i + 1] = q(z, i + 1) - q(x, i + 1) - q(y, i + 1)
    OBVIOUS
  <2>1. c[i + 1] = (d[i] + e[i] + c[i]) \div B
    <3>1. i + 1 # 0 /\ (i + 1) - 1 = i
      OBVIOUS
    <3> QED
      BY <3>1 DEF Adds
  <2>2. /\ q(z, i + 1) = (q(x, i + 1) + q(y, i + 1)) + ((d[i] + e[i] + c[i]) \div B)
        /\ q(x, i + 1) \in Int /\ q(y, i + 1) \in Int
        /\ (d[i] + e[i] + c[i]) \div B \in Int
    BY <1>2, <1>4
  <2> DEFINE s == (d[i] + e[i] + c[i]) \div B
  <2> HIDE DEF s, q
  <2> QED
    BY <2>1, <2>2 DEF s
<1> HIDE DEF T
<1>5. \A i \in 0 .. n : i \in T
  BY <1>3, <1>4, Induction
<1>6. ASSUME NEW i \in 0 .. n - 1 PROVE (z \div Place(w, i)) % B = r[i]
  <2>1. i \in T
    BY <1>5
  <2>2. r[i] = (d[i] + e[i] + c[i]) % B
    BY DEF Adds
  <2> QED
    BY <1>2, <2>1, <2>2
<1> QED
  BY <1>6 DEF HasDigits

\* r subtracts the digits e from d, with the borrows c.
Subtracts(r, c, d, e, w, n) ==
    \A i \in 0 .. n - 1 :
       /\ c[i] = IF i > 0 /\ d[i - 1] - e[i - 1] - c[i - 1] < 0 THEN 1 ELSE 0
       /\ r[i] = (d[i] - e[i] - c[i]) % 2^w

\* Digits subtracted with borrows are those of the difference.
LEMMA SubtractedDigits ==
    ASSUME NEW w \in Nat, NEW n \in Nat, NEW r, NEW c, NEW d, NEW e, NEW x, NEW y,
           IsNumber(x, d, w, n), IsNumber(y, e, w, n), Subtracts(r, c, d, e, w, n)
    PROVE  HasDigits(x - y, r, w, n)
<1> DEFINE B == 2^w
           q(v, i) == v \div Place(w, i)
           z == x - y
           T == { i \in Nat : i \in 0 .. n - 1 => c[i] = q(x, i) - q(y, i) - q(z, i) }
<1>1. B \in Nat \ {0} /\ x \in Int /\ y \in Int /\ z \in Int
  <2>1. x \in Int /\ y \in Int
    BY Quotients
  <2> QED
    BY <2>1, Places
<1>2. ASSUME NEW i \in 0 .. n - 1, i \in T
      PROVE  /\ c[i] \in {0, 1} /\ d[i] \in 0 .. B - 1 /\ e[i] \in 0 .. B - 1
             /\ q(z, i) % B = (d[i] - e[i] - c[i]) % B
             /\ q(z, i + 1) = (q(x, i + 1) - q(y, i + 1)) + ((d[i] - e[i] - c[i]) \div B)
             /\ q(x, i + 1) \in Int /\ q(y, i + 1) \in Int
             /\ (d[i] - e[i] - c[i]) \div B \in Int
  <2> DEFINE X == q(x, i)
             Y == q(y, i)
             Z == q(z, i)
             X1 == q(x, i + 1)
             Y1 == q(y, i + 1)
             h == X1 - Y1
             t == d[i] - e[i] - c[i]
  <2>1. X \in Int /\ X1 \in Int /\ d[i] \in Int /\ X = B * X1 + d[i]
    BY Quotients
  <2>2. Y \in Int /\ Y1 \in Int /\ e[i] \in Int /\ Y = B * Y1 + e[i]
    BY Quotients
  <2>3. i \in Nat /\ c[i] \in {0, 1} /\ d[i] \in 0 .. B - 1 /\ e[i] \in 0 .. B - 1
    BY DEF Subtracts, IsNumber
  <2>4. Z \in Int /\ q(z, i + 1) = Z \div B
    <3> HIDE DEF z
    <3> QED
      BY <1>1, <2>3, NextPlace
  <2>5. c[i] = X - Y - Z
    BY <1>2
  <2> HIDE DEF X, Y, Z, X1, Y1, B
  <2>6. h \in Int /\ t \in Int /\ Z = B * h + t
    BY <1>1, <2>1, <2>2, <2>3, <2>4, <2>5, Z3
  <2> HIDE DEF h, t
  <2>7. Z \div B = h + (t \div B) /\ Z % B = t % B
    <3>1. Z \in Int /\ h \in Int /\ t \in Int /\ Z = B * h + t
      BY <2>4, <2>6
    <3> HIDE DEF z
    <3> QED
      BY <1>1, <3>1, Carried
  <2>8. t \div B \in Int
    BY <1>1, <2>6, DivMod
  <2> QED
    BY <2>1, <2>2, <2>3, <2>4, <2>6, <2>7, <2>8 DEF h, t, X1, Y1, Z
<1>3. 0 \in T
  <2>1. q(x, 0) = x /\ q(y, 0) = y /\ q(z, 0) = z
    <3>1. Place(w, 0) = 1 /\ z \div 1 = z
      BY <1>1, Places
    <3> QED
      BY <3>1, Quotients
  <2>2. 0 \in 0 .. n - 1 => c[0] = 0
    BY DEF Subtracts
  <2> QED
    BY <1>1, <2>1, <2>2
<1>4. ASSUME NEW i \in 0 .. n - 1, i \in T PROVE i + 1 \in T
  <2> SUFFICES ASSUME i + 1 \in 0 .. n - 1
               PROVE  c[i + 1] = q(x, i + 1) - q(y, i + 1) - q(z, i + 1)
    OBVIOUS
  <2> DEFINE t == d[i] - e[i] - c[i]
             s == t \div B
  <2>1. c[i + 1] = IF t < 0 THEN 1 ELSE 0
    <3>1. i + 1 > 0 /\ (i + 1) - 1 = i
      OBVIOUS
    <3> QED
      BY <3>1 DEF Subtracts
  <2>2. /\ q(z, i + 1) = (q(x, i + 1) - q(y, i + 1)) + s
        /\ q(x, i + 1) \in Int /\ q(y, i + 1) \in Int /\ s \in Int
        /\ c[i] \in {0, 1} /\ d[i] \in 0 .. B - 1 /\ e[i] \in 0 .. B - 1
    BY <1>2, <1>4
  <2> HIDE DEF B, q
  <2>3. t \in Int /\ t + B >= 0 /\ t < B
    <3>1. c[i] = 0 \/ c[i] = 1
      BY <2>2
    <3>2. /\ d[i] \in Int /\ 0 <= d[i] /\ d[i] < B
          /\ e[i] \in Int /\ 0 <= e[i] /\ e[i] < B
      BY <1>1, <2>2
    <3> QED
      BY <1>1, <3>1, <3>2
  <2> HIDE DEF t
  <2>4. s = IF t < 0 THEN -1 ELSE 0
    <3>1. CASE t < 0
      <4>1. t + B \in 0 .. B - 1 /\ -1 \in Int
        BY <1>1, <2>3, <3>1
      <4>2. (B * (-1) + (t + B)) \div B = -1
        BY <1>1, <4>1, DivModUnique
      <4>3. B * (-1) + (t + B) = t
        BY <1>1, <2>3
      <4> QED
        BY <3>1, <4>2, <4>3
    <3>2. CASE t >= 0
      <4>1. t \in 0 .. B - 1 /\ 0 \in Int /\ B * 0 + t = t
        BY <1>1, <2>3, <3>2
      <4>2. (B * 0 + t) \div B = 0
        BY <1>1, <4>1, DivModUnique
      <4> QED
        BY <3>2, <4>1, <4>2
    <3> QED
      BY <1>1, <2>3, <3>1, <3>2
  <2> HIDE DEF s
  <2> QED
    BY <1>1, <2>1, <2>2, <2>3, <2>4
<1> HIDE DEF T
<1>5. \A i \in 0 .. n : i \in T
  BY <1>3, <1>4, Induction
<1>6. ASSUME NEW i \in 0 .. n - 1 PROVE (z \div Place(w, i)) % B = r[i]
  <2>1. i \in T
    BY <1>5
  <2>2. r[i] = (d[i] - e[i] - c[i]) % B
    BY DEF Subtracts
  <2> QED
    BY <1>2, <2>1, <2>2
<1> QED
  BY <1>6 DEF HasDigits

-----------------------------------------------------------------------------
\* r multiplies the digits d and e: s adds up the columns, with the carries.
AddsColumns(r, s, d, e, w, n) ==
    \A k \in 0 .. n - 1 :
       /\ s[k] = SumOfColumn(d, e, k) + (IF k = 0 THEN 0 ELSE s[k - 1] \div 2^w)
       /\ r[k] = s[k] % 2^w

\* The digits d up to place k times what is left of y at the places that add up
\* to k, and at those one higher.
Left(f, d, y, w, k) ==
    \A i \in Nat : f[i] = IF i \in 0 .. k THEN d[i] * (y \div Place(w, k - i)) ELSE 0
LeftAbove(g, d, y, w, k) ==
    \A i \in Nat : g[i] = IF i \in 0 .. k THEN d[i] * (y \div Place(w, k + 1 - i)) ELSE 0

BothLeft(f, g, d, y, w, k) ==
    /\ f \in [Nat -> Int] /\ Left(f, d, y, w, k)
    /\ g \in [Nat -> Int] /\ LeftAbove(g, d, y, w, k)

\* A column is the difference of the two.
LEMMA ColumnSums ==
    ASSUME NEW w \in Nat, NEW n \in Nat, NEW d, NEW e, NEW x, NEW y, NEW k \in 0 .. n - 1,
           IsNumber(x, d, w, n), IsNumber(y, e, w, n), NEW f, NEW g, BothLeft(f, g, d, y, w, k)
    PROVE  /\ SumOfColumn(d, e, k) \in Int
           /\ Total(f, k + 1) = SumOfColumn(d, e, k) + 2^w * Total(g, k + 1)
<1> DEFINE B == 2^w
           h == [i \in Nat |-> IF i \in 0 .. k THEN d[i] * e[k - i] ELSE 0]
<1>0. /\ f \in [Nat -> Int] /\ Left(f, d, y, w, k)
      /\ g \in [Nat -> Int] /\ LeftAbove(g, d, y, w, k)
  BY DEF BothLeft
<1>1. B \in Nat \ {0} /\ k \in Nat /\ k + 1 \in Nat
  BY Places
<1>2. ASSUME NEW i \in 0 .. k
      PROVE  h[i] \in Int /\ f[i] = h[i] + B * g[i] /\ h[i] = d[i] * e[k - i]
  <2>1. i \in Nat /\ i \in 0 .. n - 1 /\ k - i \in 0 .. n - 1 /\ (k - i) + 1 = k + 1 - i
    OBVIOUS
  <2> DEFINE Y == y \div Place(w, k - i)
             Z == y \div Place(w, k + 1 - i)
             u == d[i]
             v == e[k - i]
  <2>2. u \in Int
    BY <2>1, Quotients
  <2>3. Y \in Int /\ Z \in Int /\ v \in Int /\ Y = B * Z + v
    BY <2>1, Quotients
  <2>4. h[i] = u * v /\ f[i] = u * Y /\ g[i] = u * Z
    BY <1>0, <2>1 DEF Left, LeftAbove
  <2> HIDE DEF Y, Z, u, v, B, h
  <2>5. u * v \in Int /\ u * Y = (u * v) + B * (u * Z)
    BY <1>1, <2>2, <2>3, Z3
  <2> QED
    BY <2>4, <2>5 DEF u, v
<1>3. h \in [Nat -> Int]
  BY <1>2
<1>4. SumOfColumn(d, e, k) = Total(h, k + 1)
  <2>1. \A i \in Nat : h[i] = IF i \in 0 .. k THEN d[i] * e[k - i] ELSE 0
    OBVIOUS
  <2> HIDE DEF h
  <2> QED
    BY <1>1, <1>3, <2>1, ColumnTotal
<1>5. Total(f, k + 1) = Total(h, k + 1) + B * Total(g, k + 1)
  <2>1. Joins(f, h, g, B, k + 1)
    BY <1>1, <1>2 DEF Joins
  <2>2. B \in Int
    BY <1>1
  <2> HIDE DEF h, B
  <2> QED
    BY <1>0, <1>1, <1>3, <2>1, <2>2, TotalLinear
<1>6. Total(h, k + 1) \in Int
  BY <1>1, <1>3, TotalSteps
<1> QED
  BY <1>4, <1>5, <1>6

\* The columns, with their carries, are the digits of the product.
LEMMA MultipliedDigits ==
    ASSUME NEW w \in Nat, NEW n \in Nat, NEW digits, NEW s, NEW d, NEW e, NEW x, NEW y,
           IsNumber(x, d, w, n), IsNumber(y, e, w, n), AddsColumns(digits, s, d, e, w, n)
    PROVE  HasDigits(x * y, digits, w, n)
<1> DEFINE B == 2^w
           q(v, i) == v \div Place(w, i)
           z == x * y
           col(k) == SumOfColumn(d, e, k)
           f(k) == [i \in Nat |-> IF i \in 0 .. k THEN d[i] * q(y, k - i) ELSE 0]
           g(k) == [i \in Nat |-> IF i \in 0 .. k THEN d[i] * q(y, k + 1 - i) ELSE 0]
           R(k) == Total(g(k), k + 1)
           W(k) == R(k) + q(x, k + 1) * y
           T == { k \in Nat : k \in 0 .. n - 1 =>
                                 s[k] \in Int /\ q(z, k) = B * W(k) + s[k] }
<1>1. B \in Nat \ {0} /\ x \in Int /\ y \in Int /\ z \in Int
  <2>1. x \in Int /\ y \in Int
    BY Quotients
  <2>2. B \in Nat \ {0}
    BY Places
  <2>3. x * y \in Int
    BY <2>1, Z3
  <2> QED
    BY <2>1, <2>2, <2>3
<1>2. \A i \in 0 .. n - 1 : d[i] \in Int
  BY Quotients
<1>3. \A i \in Nat : q(y, i) \in Int /\ q(x, i) \in Int /\ q(z, i) \in Int
                     /\ q(z, i + 1) = q(z, i) \div B
  <2> HIDE DEF z
  <2> QED
    BY <1>1, NextPlace
<1> HIDE DEF q
<1>4. ASSUME NEW k \in 0 .. n - 1
      PROVE  f(k) \in [Nat -> Int] /\ g(k) \in [Nat -> Int]
  <2>1. ASSUME NEW i \in 0 .. k
        PROVE  d[i] * q(y, k - i) \in Int /\ d[i] * q(y, k + 1 - i) \in Int
    <3>1. i \in 0 .. n - 1 /\ k - i \in Nat /\ k + 1 - i \in Nat
      OBVIOUS
    <3>2. d[i] \in Int /\ q(y, k - i) \in Int /\ q(y, k + 1 - i) \in Int
      BY <1>2, <1>3, <3>1
    <3> DEFINE u == d[i]
               a == q(y, k - i)
               b == q(y, k + 1 - i)
    <3> HIDE DEF u, a, b
    <3>3. u \in Int /\ a \in Int /\ b \in Int => u * a \in Int /\ u * b \in Int
      BY Z3
    <3> QED
      BY <3>2, <3>3 DEF u, a, b
  <2> QED
    BY <2>1
<1>5. ASSUME NEW k \in 0 .. n - 1
      PROVE  /\ col(k) \in Int /\ R(k) \in Int /\ W(k) \in Int
             /\ Total(f(k), k + 1) = col(k) + B * R(k)
  <2>1. f(k) \in [Nat -> Int] /\ g(k) \in [Nat -> Int]
    BY <1>4
  <2>2. Left(f(k), d, y, w, k) /\ LeftAbove(g(k), d, y, w, k)
    BY DEF q, Left, LeftAbove
  <2>3. k + 1 \in Nat
    OBVIOUS
  <2> HIDE DEF f, g
  <2>4. col(k) \in Int /\ Total(f(k), k + 1) = col(k) + B * R(k)
    <3>1. BothLeft(f(k), g(k), d, y, w, k)
      BY <2>1, <2>2 DEF BothLeft
    <3> HIDE DEF z, W, T
    <3> QED
      BY <3>1, ColumnSums
  <2>5. R(k) \in Int /\ q(x, k + 1) \in Int
    BY <1>3, <2>1, <2>3, TotalSteps
  <2> HIDE DEF R
  <2>6. W(k) \in Int
    <3> DEFINE u == q(x, k + 1)
    <3>1. u \in Int
      BY <2>5
    <3> HIDE DEF u
    <3>2. R(k) + u * y \in Int
      BY <1>1, <2>5, <3>1, Z3
    <3> QED
      BY <3>2 DEF u
  <2> QED
    BY <2>4, <2>5, <2>6
\* The digits of one factor times the other, up to the next place.
<1>6. ASSUME NEW k \in 0 .. n - 1, k + 1 \in 0 .. n - 1
      PROVE  Total(f(k + 1), (k + 1) + 1) = R(k) + d[k + 1] * y
  <2> DEFINE F == f(k + 1)
             G == g(k)
  <2>1. F \in [Nat -> Int] /\ G \in [Nat -> Int]
    BY <1>4, <1>6
  <2>2. \A i \in 0 .. (k + 1) - 1 : F[i] = G[i]
    OBVIOUS
  <2>3. k + 1 \in Nat /\ k + 1 \in 0 .. k + 1 /\ (k + 1) - (k + 1) = 0
    OBVIOUS
  <2>4. F[k + 1] = d[k + 1] * y
    <3>1. q(y, 0) = y
      BY Quotients DEF q
    <3> QED
      BY <2>3, <3>1
  <2> HIDE DEF F, G
  <2>5. Total(F, k + 1) = Total(G, k + 1) /\ Total(F, k + 1) \in Int
    <3>1. Total(F, k + 1) = Total(G, k + 1) + (IF k + 1 < k + 1 THEN F[k + 1] - G[k + 1] ELSE 0)
      BY <2>1, <2>2, <2>3, TotalPoint, SMTT(30)
    <3>2. Total(G, k + 1) \in Int
      BY <2>1, <2>3, TotalSteps
    <3> QED
      BY <2>3, <3>1, <3>2
  <2>6. Total(F, (k + 1) + 1) = Total(F, k + 1) + F[k + 1]
    BY <2>1, <2>3, TotalSteps
  <2> QED
    BY <2>4, <2>5, <2>6 DEF F, G
<1> HIDE DEF f, R
<1>7. 0 \in T
  <2> SUFFICES ASSUME 0 \in 0 .. n - 1 PROVE s[0] \in Int /\ q(z, 0) = B * W(0) + s[0]
    OBVIOUS
  <2>1. col(0) \in Int /\ R(0) \in Int /\ Total(f(0), 0 + 1) = col(0) + B * R(0)
    BY <1>5
  <2>2. Total(f(0), 0 + 1) = d[0] * y
    <3>1. f(0) \in [Nat -> Int]
      BY <1>4
    <3>2. f(0)[0] = d[0] * q(y, 0) /\ q(y, 0) = y
      BY Quotients DEF f, q
    <3>3. Total(f(0), 0) = 0 /\ Total(f(0), 0 + 1) = Total(f(0), 0) + f(0)[0]
      BY <3>1, TotalSteps
    <3>4. f(0)[0] \in Int
      BY <3>1
    <3> QED
      BY <3>2, <3>3, <3>4
  <2>3. s[0] = col(0)
    <3>1. s[0] = col(0) + 0
      BY DEF AddsColumns
    <3> QED
      BY <2>1, <3>1
  <2>4. x = B * q(x, 0 + 1) + d[0] /\ q(x, 0 + 1) \in Int /\ d[0] \in Int /\ q(z, 0) = z
    <3>1. q(x, 0) = x /\ q(x, 0) = B * q(x, 0 + 1) + d[0] /\ q(x, 0 + 1) \in Int /\ d[0] \in Int
      BY Quotients DEF q
    <3>2. q(z, 0) = z
      <4>1. Place(w, 0) = 1 /\ z \div 1 = z
        BY <1>1, Places
      <4> QED
        BY <4>1 DEF q
    <3> QED
      BY <3>1, <3>2
  <2> DEFINE a == q(x, 0 + 1)
             b == d[0]
             c == col(0)
             r == R(0)
  <2>5. a \in Int /\ b \in Int /\ c \in Int /\ r \in Int /\ x = B * a + b /\ b * y = c + B * r
    BY <2>1, <2>2, <2>4
  <2>6. q(z, 0) = x * y /\ W(0) = r + a * y /\ s[0] = c
    BY <2>3, <2>4
  <2> HIDE DEF a, b, c, r, B, W, z, col
  <2>7. x * y = B * (r + a * y) + c
    <3>1. x * y = B * (a * y) + b * y
      BY <1>1, <2>5, Z3
    <3>2. B * (r + a * y) = B * r + B * (a * y) /\ B * r \in Int /\ B * (a * y) \in Int
      BY <1>1, <2>5, Z3
    <3> QED
      BY <2>5, <3>1, <3>2
  <2> QED
    BY <2>5, <2>6, <2>7
<1>8. ASSUME NEW k \in 0 .. n - 1, k \in T PROVE k + 1 \in T
  <2> SUFFICES ASSUME k + 1 \in 0 .. n - 1
               PROVE  s[k + 1] \in Int /\ q(z, k + 1) = B * W(k + 1) + s[k + 1]
    OBVIOUS
  <2> DEFINE l == k + 1
             c == col(l)
             p == R(k)
             r == R(l)
             a == q(x, l)
             b == q(x, l + 1)
             t == d[l]
             o == s[k] \div B
  <2>1. l \in Nat /\ l \in 0 .. n - 1 /\ l # 0 /\ l - 1 = k /\ k \in Nat /\ l + 1 \in Nat
    OBVIOUS
  <2>2. s[k] \in Int /\ q(z, k) = B * W(k) + s[k]
    BY <1>8
  <2>3. W(k) \in Int /\ p \in Int
    BY <1>5
  <2>4. c \in Int /\ r \in Int /\ Total(f(l), l + 1) = c + B * r
    BY <1>5, <2>1
  <2>5. Total(f(l), l + 1) = p + t * y
    BY <1>6, <2>1
  <2>6. a \in Int /\ b \in Int /\ t \in Int /\ a = B * b + t
    BY <2>1, Quotients DEF q
  <2>7. s[l] = c + o
    BY <2>1 DEF AddsColumns
  <2>8. o \in Int
    BY <1>1, <2>2, DivMod
  <2>9. W(k) = p + a * y /\ W(l) = r + b * y
    OBVIOUS
  <2>10. q(z, l) = q(z, k) \div B /\ q(z, k) \in Int
    BY <1>3, <2>1
  <2> HIDE DEF l, c, p, r, a, b, t, o, W, z, col, B
  <2>11. q(z, l) = W(k) + o
    <3> DEFINE h == W(k)
               i == q(z, k)
               u == s[k]
    <3>1. h \in Int /\ i \in Int /\ u \in Int /\ i = B * h + u
      BY <2>2, <2>3, <2>10
    <3> HIDE DEF h, i, u
    <3>2. i \div B = h + (u \div B)
      BY <1>1, <3>1, Carried
    <3> QED
      BY <2>10, <3>2 DEF h, i, u, o
  <2>12. W(k) + o = B * (r + b * y) + (c + o)
    <3>1. a * y = B * (b * y) + t * y /\ t * y \in Int /\ B * (b * y) \in Int
      BY <1>1, <2>6, Z3
    <3>2. B * (r + b * y) = B * r + B * (b * y) /\ B * r \in Int
      BY <1>1, <2>4, <2>6, Z3
    <3>3. p + t * y = c + B * r
      BY <2>4, <2>5
    <3> QED
      BY <2>3, <2>4, <2>8, <2>9, <3>1, <3>2, <3>3
  <2>13. s[l] \in Int /\ q(z, l) = B * W(l) + s[l]
    BY <2>4, <2>7, <2>8, <2>9, <2>11, <2>12
  <2> QED
    BY <2>13 DEF l
<1> HIDE DEF T
<1>9. \A k \in 0 .. n : k \in T
  BY <1>7, <1>8, Induction
<1>10. ASSUME NEW k \in 0 .. n - 1 PROVE (z \div Place(w, k)) % B = digits[k]
  <2>1. k \in T /\ k \in Nat
    BY <1>9
  <2> DEFINE h == W(k)
             i == q(z, k)
             t == s[k]
  <2>2. h \in Int /\ i \in Int /\ t \in Int /\ i = B * h + t
    BY <1>3, <1>5, <2>1 DEF T
  <2> HIDE DEF h, i, t, B, z
  <2>3. i \div B = h + (t \div B) /\ i % B = t % B
    BY <1>1, <2>2, Carried
  <2>4. digits[k] = s[k] % B
    BY DEF AddsColumns, B
  <2> QED
    BY <2>3, <2>4 DEF i, t, q
<1> QED
  BY <1>10 DEF HasDigits

-----------------------------------------------------------------------------
\* A quotient grows with the number.
LEMMA QuotientGrows ==
    ASSUME NEW n \in Nat \ {0}, NEW i \in Int, NEW j \in Int, i <= j
    PROVE  i \div n <= j \div n
<1> DEFINE p == i \div n
           q == j \div n
           r == i % n
           s == j % n
<1>1. p \in Int /\ q \in Int /\ r \in 0 .. n - 1 /\ s \in 0 .. n - 1
      /\ i = n * p + r /\ j = n * q + s
  BY DivMod
<1> HIDE DEF p, q, r, s
<1>2. SUFFICES ASSUME p > q PROVE FALSE
  BY <1>1 DEF p, q
<1>3. n * p >= n * q + n /\ n * p \in Int /\ n * q \in Int
  BY <1>1, <1>2, Z3
<1> QED
  BY <1>1, <1>3

\* Of two numbers the one is smaller whose topmost differing digit is.
LEMMA TopDigits ==
    ASSUME NEW w \in Nat, NEW n \in Nat, NEW d, NEW e, NEW x, NEW y,
           IsNumber(x, d, w, n), IsNumber(y, e, w, n),
           NEW m \in 0 .. n - 1, d[m] # e[m], \A i \in m + 1 .. n - 1 : d[i] = e[i]
    PROVE  x < y <=> d[m] < e[m]
<1> DEFINE q(v, i) == v \div Place(w, i)
           B == 2^w
           T == { j \in Nat : q(x, n - j) = q(y, n - j) }
<1>1. m \in Nat /\ n - 1 - m \in Nat /\ m + 1 \in Nat /\ n - (n - 1 - m) = m + 1
  OBVIOUS
<1>2. x \in Int /\ y \in Int /\ B \in Nat \ {0} /\ Place(w, m) \in Nat \ {0}
  BY <1>1, Quotients, Places
<1>3. 0 \in T
  <2>1. q(x, n) = 0 /\ q(y, n) = 0 /\ n - 0 = n
    BY Quotients
  <2> QED
    BY <2>1
<1>4. ASSUME NEW j \in 0 .. (n - 1 - m) - 1, j \in T PROVE j + 1 \in T
  <2> DEFINE i == n - (j + 1)
  <2>1. i \in 0 .. n - 1 /\ i + 1 = n - j /\ i \in m + 1 .. n - 1 /\ j + 1 \in Nat
    BY <1>1
  <2> HIDE DEF i
  <2>2. q(x, i) = B * q(x, i + 1) + d[i]
    BY <2>1, Quotients
  <2>3. q(y, i) = B * q(y, i + 1) + e[i]
    BY <2>1, Quotients
  <2>4. q(x, i + 1) = q(y, i + 1) /\ d[i] = e[i]
    BY <1>4, <2>1
  <2> HIDE DEF q, B
  <2>5. q(x, i) = q(y, i)
    BY <2>2, <2>3, <2>4
  <2> QED
    BY <2>1, <2>5 DEF i
<1>5. q(x, m + 1) = q(y, m + 1)
  <2> HIDE DEF T
  <2>1. \A j \in 0 .. n - 1 - m : j \in T
    BY <1>1, <1>3, <1>4, Induction
  <2>2. n - 1 - m \in T
    BY <1>1, <2>1
  <2> QED
    BY <1>1, <2>2 DEF T
<1>6. /\ q(x, m) \in Int /\ q(x, m + 1) \in Int /\ d[m] \in Int
      /\ q(x, m) = B * q(x, m + 1) + d[m]
  BY Quotients
<1>7. /\ q(y, m) \in Int /\ q(y, m + 1) \in Int /\ e[m] \in Int
      /\ q(y, m) = B * q(y, m + 1) + e[m]
  BY Quotients
<1>8. (x <= y => q(x, m) <= q(y, m)) /\ (y <= x => q(y, m) <= q(x, m))
  BY <1>2, QuotientGrows
<1> DEFINE z == B * q(x, m + 1)
<1>9. z \in Int /\ q(x, m) = z + d[m] /\ q(y, m) = z + e[m]
  <2> DEFINE u == q(x, m + 1)
  <2>1. u \in Int
    BY <1>6
  <2> HIDE DEF u, B
  <2>2. B * u \in Int
    BY <1>2, <2>1, Z3
  <2> QED
    BY <1>5, <1>6, <1>7, <2>2 DEF u
<1> HIDE DEF z, q
<1> QED
  BY <1>2, <1>6, <1>7, <1>8, <1>9

\* The topmost bit of a number is that of its topmost digit.
LEMMA TopBit ==
    ASSUME NEW w \in Nat, NEW n \in Nat \ {0}, NEW d, NEW v, IsNumber(v, d, w, n),
           NEW h \in Nat \ {0}, 2^w = 2 * h
    PROVE  2 * v >= Place(w, n) <=> 2 * d[n - 1] >= 2^w
<1> DEFINE u == Place(w, n - 1)
           c == d[n - 1]
           r == v % u
<1>1. n - 1 \in 0 .. n - 1 /\ n - 1 \in Nat /\ (n - 1) + 1 = n
  OBVIOUS
<1>2. u \in Nat \ {0} /\ Place(w, n) = u * (2 * h)
  BY <1>1, Places
<1>3. v \in Int /\ c \in Int /\ v \div u = c
  <2> DEFINE B == 2^w
  <2>0. B \in Nat
    BY Places
  <2>1. v \in Int /\ v \div Place(w, n) = 0
    BY Quotients
  <2>2. c \in Int /\ v \div u = B * (v \div Place(w, (n - 1) + 1)) + c
    BY <1>1, Quotients
  <2> HIDE DEF u, c, B
  <2>3. B * 0 = 0
    BY <2>0
  <2> QED
    BY <1>1, <2>1, <2>2, <2>3
<1> HIDE DEF u, c
<1>4. r \in 0 .. u - 1 /\ v = u * c + r
  BY <1>2, <1>3, DivMod
<1> HIDE DEF r
<1>5. ASSUME c >= h PROVE 2 * v >= u * (2 * h)
  BY <1>2, <1>3, <1>4, <1>5, Z3
<1>6. ASSUME c < h PROVE 2 * v < u * (2 * h)
  <2>1. u * c + u <= u * h /\ u * c \in Int /\ u * h \in Int /\ u * (2 * h) = 2 * (u * h)
    BY <1>2, <1>3, <1>6, Z3
  <2> QED
    BY <1>2, <1>3, <1>4, <2>1
<1>7. u * (2 * h) \in Int
  BY <1>2, Z3
<1> QED
  BY <1>2, <1>3, <1>5, <1>6, <1>7 DEF c

-----------------------------------------------------------------------------
\* The ones that i and j have in common are those of c; those that one of
\* them has are those of v; those that only one of them has.
InCommon(c, i, j, n) ==
    \A k \in 0 .. n - 1 : Digit(c, k) = IF Digit(i, k) = 1 /\ Digit(j, k) = 1 THEN 1 ELSE 0
InEither(v, i, j, n) ==
    \A k \in 0 .. n - 1 : Digit(v, k) = IF Digit(i, k) = 1 \/ Digit(j, k) = 1 THEN 1 ELSE 0
InOne(v, i, j, n) ==
    \A k \in 0 .. n - 1 : Digit(v, k) = IF Digit(i, k) # Digit(j, k) THEN 1 ELSE 0

\* Integers, and the ones that two of them have in common.
OnesOf(x, i, j, c, n) ==
    n \in Nat /\ x \in Int /\ i \in Int /\ j \in Int /\ c \in Int /\ InCommon(c, i, j, n)

\* Exclusive and inclusive or, by the ones in common.
LEMMA BitwiseSums ==
    ASSUME NEW n, NEW i, NEW j, NEW c, NEW x, OnesOf(x, i, j, c, n)
    PROVE  /\ InOne(x, i, j, n)    => x % 2^n = (i % 2^n) + (j % 2^n) - 2 * (c % 2^n)
           /\ InEither(x, i, j, n) => x % 2^n = (i % 2^n) + (j % 2^n) - (c % 2^n)
<1>0. n \in Nat /\ x \in Int /\ i \in Int /\ j \in Int /\ c \in Int /\ InCommon(c, i, j, n)
  BY DEF OnesOf
<1> USE <1>0
<1>1. ASSUME NEW k \in Nat, NEW v \in Int
      PROVE  /\ v % 2^k \in Int /\ Digit(v, k) \in {0, 1} /\ 2^k \in Int
             /\ v % 2^(k + 1) = (v % 2^k) + 2^k * Digit(v, k)
  <2>1. 2^k \in Nat \ {0}
    BY TwoPowers
  <2>2. v % 2^k \in Int
    BY <2>1, Reduced
  <2>3. Digit(v, k) \in {0, 1}
    BY DigitTyped
  <2>4. v % 2^(k + 1) = (v % 2^k) + 2^k * Digit(v, k)
    BY LowDigits
  <2>5. 2^k \in Int
    BY <2>1
  <2> QED
    BY <2>2, <2>3, <2>4, <2>5, Zenon
<1>2. \A v \in Int : v % 2^0 = 0
  BY TwoPowers
<1>3. ASSUME NEW a \in {1, 2},
             \A k \in 0 .. n - 1 : Digit(x, k) = Digit(i, k) + Digit(j, k) - a * Digit(c, k)
      PROVE  x % 2^n = (i % 2^n) + (j % 2^n) - a * (c % 2^n)
  <2> DEFINE T == { k \in Nat : x % 2^k = (i % 2^k) + (j % 2^k) - a * (c % 2^k) }
  <2>1. 0 \in T
    <3>1. x % 2^0 = 0 /\ i % 2^0 = 0 /\ j % 2^0 = 0 /\ c % 2^0 = 0
      BY <1>2
    <3>2. a * 0 = 0
      OBVIOUS
    <3> QED
      BY <3>1, <3>2
  <2>2. ASSUME NEW k \in 0 .. n - 1, k \in T PROVE k + 1 \in T
    <3> DEFINE p(v) == v % 2^k
               b(v) == Digit(v, k)
               u == 2^k
               l == k + 1
    <3>1. k \in Nat /\ l \in Nat
      OBVIOUS
    <3>2. \A v \in Int : p(v) \in Int /\ b(v) \in {0, 1} /\ v % 2^l = p(v) + u * b(v)
      BY <1>1, <3>1
    <3>3. b(x) = b(i) + b(j) - a * b(c)
      BY <1>3
    <3>4. p(x) = p(i) + p(j) - a * p(c)
      BY <2>2
    <3>5. u \in Int
      BY <1>1, <3>1
    <3> HIDE DEF p, b, u, l, T
    <3>6. PICK bx \in {0, 1}, bi \in {0, 1}, bj \in {0, 1}, bc \in {0, 1} :
            bx = b(x) /\ bi = b(i) /\ bj = b(j) /\ bc = b(c)
      BY <3>2
    <3>7. PICK px \in Int, pi \in Int, pj \in Int, pc \in Int :
            px = p(x) /\ pi = p(i) /\ pj = p(j) /\ pc = p(c)
      BY <3>2
    <3>8. px + u * bx = (pi + u * bi) + (pj + u * bj) - a * (pc + u * bc)
      BY <3>3, <3>4, <3>5, <3>6, <3>7, Z3
    <3>9. /\ x % 2^l = px + u * bx /\ i % 2^l = pi + u * bi
          /\ j % 2^l = pj + u * bj /\ c % 2^l = pc + u * bc
      BY <3>2, <3>6, <3>7
    <3>10. x % 2^l = (i % 2^l) + (j % 2^l) - a * (c % 2^l)
      BY <3>8, <3>9
    <3> QED
      BY <3>1, <3>10 DEF l, T
  <2> HIDE DEF T
  <2>3. \A k \in 0 .. n : k \in T
    BY <2>1, <2>2, Induction
  <2> QED
    BY <2>3 DEF T
<1>4. ASSUME NEW k \in 0 .. n - 1
      PROVE  /\ Digit(i, k) \in {0, 1} /\ Digit(j, k) \in {0, 1}
             /\ Digit(c, k) = IF Digit(i, k) = 1 /\ Digit(j, k) = 1 THEN 1 ELSE 0
  BY DigitTyped DEF InCommon
<1>5. ASSUME \A k \in 0 .. n - 1 : Digit(x, k) = IF Digit(i, k) # Digit(j, k) THEN 1 ELSE 0
      PROVE  x % 2^n = (i % 2^n) + (j % 2^n) - 2 * (c % 2^n)
  <2>1. \A k \in 0 .. n - 1 : Digit(x, k) = Digit(i, k) + Digit(j, k) - 2 * Digit(c, k)
    BY <1>4, <1>5
  <2> QED
    BY <1>3, <2>1
<1>6. ASSUME \A k \in 0 .. n - 1 :
                Digit(x, k) = IF Digit(i, k) = 1 \/ Digit(j, k) = 1 THEN 1 ELSE 0
      PROVE  x % 2^n = (i % 2^n) + (j % 2^n) - (c % 2^n)
  <2>1. \A k \in 0 .. n - 1 : Digit(x, k) = Digit(i, k) + Digit(j, k) - 1 * Digit(c, k)
    BY <1>4, <1>6
  <2>2. x % 2^n = (i % 2^n) + (j % 2^n) - 1 * (c % 2^n)
    BY <1>3, <2>1
  <2>3. c % 2^n \in Int
    BY <1>1
  <2>4. 1 * (c % 2^n) = c % 2^n
    BY <2>3
  <2> QED
    BY <2>2, <2>4
<1> QED
  BY <1>5, <1>6 DEF InOne, InEither
=============================================================================
