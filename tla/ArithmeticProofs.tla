-------------------------- MODULE ArithmeticProofs --------------------------
(***************************************************************************)
(* The instructions that compute, for numbers and moduli of every size: the *)
(* multiplications, divisions and shifts of the Alu are those of the        *)
(* integers, those of the 256-bit numbers are arithmetic modulo 2^256, the  *)
(* modular precompiles are the field of ModP elements, the complex ones the *)
(* field of its pairs, and the hints of the curves are true.  What a step   *)
(* needs to know of the state is the type of the cells and of the           *)
(* registers.                                                               *)
(***************************************************************************)
EXTENDS MC_Arithmetic, MachineLemmas

\* The operands are words.
Operands == a \in Word /\ b \in Word

\* They are in the behaviours that issue instructions of the Alu.
AluInv == chip = "alu" => Operands

\* Every step of the client picks words again.
LEMMA OperandsKept == Spec => []AluInv
<1>1. Init => AluInv
  BY Words DEF Init, NoRegisters, Operands, AluInv
<1>2. ASSUME AluInv, [Next]_vars
      PROVE  AluInv'
  <2>1. CASE UNCHANGED vars
    BY <1>2, <2>1 DEF vars, Operands, AluInv
  <2>2. CASE Next
    <3>1. chip' = chip /\ (chip = "alu" => AluStep)
      BY <2>2 DEF Next, Int256Step, ModularStep, Fp2Step, CurveStep
    <3> QED
      BY <1>2, <3>1, Words, WrapTyped DEF Operands, AluStep, AluInv
  <2> QED
    BY <1>2, <2>1, <2>2
<1> QED
  BY <1>1, <1>2, PTL DEF Spec

\* A product whose upper word is in range is put together from its halves.
LEMMA SignedHalves ==
    ASSUME NEW p \in Int, NEW h \in Nat, WordSize = 2 * h, h > 0,
           -(h * WordSize) <= p, p < h * WordSize
    PROVE  Signed(upper(p)) * WordSize + Unsigned(p) = p
<1> DEFINE W == WordSize
           q == p \div W
           r == p % W
<1>1. W \in Nat \ {0} /\ W = 2 * h /\ -(h * W) <= p /\ p < h * W
  BY Sizes
<1>2. q \in Int /\ r \in 0 .. W - 1 /\ p = W * q + r
  BY <1>1, DivMod
<1>3. upper(p) = Unsigned(q) /\ Unsigned(p) = r
  BY DEF upper, Unsigned
<1> HIDE DEF W, q, r
<1>4. -h <= q /\ q < h
  BY <1>1, <1>2, Z3
<1>5. Signed(Unsigned(q)) = q
  <2>1. 2 * q < WordSize /\ -WordSize <= 2 * q
    BY <1>1, <1>2, <1>4 DEF W
  <2> QED
    BY <1>2, <2>1, SignedUnsigned
<1>6. q * W + r = p
  BY <1>1, <1>2, Z3
<1> QED
  BY <1>3, <1>5, <1>6 DEF W

\* Each upper word and the one lower word make up the product of the operands
\* in the readings of the instruction.
THEOREM ProductIsExact == Spec => []ExactProduct
<1>1. ASSUME Operands PROVE ExactProduct
  <2>1. PICK h \in Nat : /\ WordSize = 2 * h /\ h > 0
                         /\ \A w \in Word : Signed(w) = IF w < h THEN w ELSE w - 2 * h
    BY Signs
  <2> DEFINE W == WordSize
             sa == Signed(a)
             sb == Signed(b)
             low == Unsigned(a * b)
  <2>2. /\ W = 2 * h /\ W \in Nat \ {0}
        /\ a \in Int /\ 0 <= a /\ a < W
        /\ b \in Int /\ 0 <= b /\ b < W
    BY <1>1, <2>1, Words, Sizes DEF Operands
  <2>3. \E k, l \in Int : sa = a + W * k /\ sb = b + W * l
    <3>1. \E k \in {0, -1} : sa = a + W * k
      BY <1>1, <2>1, <2>2 DEF Operands
    <3>2. \E l \in {0, -1} : sb = b + W * l
      BY <1>1, <2>1, <2>2 DEF Operands
    <3> QED
      BY <3>1, <3>2
  <2>4. PICK k \in Int, l \in Int : sa = a + W * k /\ sb = b + W * l
    BY <2>3
  <2>5. /\ sa \in Int /\ -h <= sa /\ sa < h
        /\ sb \in Int /\ -h <= sb /\ sb < h
    BY <1>1, <2>1, <2>2 DEF Operands
  <2>6. Op(1, 0) = low /\ Op(1, 1) = upper(sa * sb)
        /\ Op(1, 2) = upper(sa * b) /\ Op(1, 3) = upper(a * b)
    BY DEF Op, op_value, m_op
  <2> HIDE DEF W, sa, sb
  <2>7. a * b \in Int
    BY <2>2, Z3
  <2>8. /\ sa * sb \in Int /\ -(h * W) <= sa * sb /\ sa * sb < h * W
        /\ sa * b \in Int /\ -(h * W) <= sa * b /\ sa * b < h * W
    BY <2>1, <2>2, <2>5, ProductBound
  <2>9. Unsigned(sa * sb) = low
    <3> DEFINE c == (a * l) + (k * b) + (W * (k * l))
    <3>1. c \in Int /\ sa * sb = a * b + W * c
      BY <2>2, <2>4, <2>7, Z3
    <3> HIDE DEF c
    <3>2. (a * b + W * c) % W = (a * b) % W
      BY <2>2, <2>7, <3>1, Congruent
    <3> QED
      BY <3>1, <3>2 DEF Unsigned, W
  <2>10. Unsigned(sa * b) = low
    <3>1. k * b \in Int /\ sa * b = a * b + W * (k * b)
      BY <2>2, <2>4, <2>7, Z3
    <3>2. (a * b + W * (k * b)) % W = (a * b) % W
      BY <2>2, <2>7, <3>1, Congruent
    <3> QED
      BY <3>1, <3>2 DEF Unsigned, W
  <2>11. Signed(upper(sa * sb)) * WordSize + low = sa * sb
    BY <2>1, <2>8, <2>9, SignedHalves DEF W
  <2>12. Signed(upper(sa * b)) * WordSize + low = sa * b
    BY <2>1, <2>8, <2>10, SignedHalves DEF W
  <2>13. upper(a * b) * WordSize + low = a * b
    <3> DEFINE p == a * b
               q == p \div W
               r == p % W
    <3>1. q \in Int /\ r \in 0 .. W - 1 /\ p = W * q + r
      BY <2>2, <2>7, DivMod
    <3>2. 0 <= p /\ p < W * W
      BY <2>2, Z3
    <3>3. upper(p) = q % W /\ low = r
      BY DEF upper, Unsigned, W
    <3> HIDE DEF p, q, r
    <3>4. 0 <= q /\ q < W
      BY <2>2, <3>1, <3>2, Z3
    <3>5. q % W = q
      <4>1. q \in 0 .. W - 1
        BY <3>1, <3>4, <2>2
      <4>2. (W * 0 + q) % W = q
        BY <2>2, <4>1, DivModUnique
      <4> QED
        BY <2>2, <3>1, <4>2
    <3>6. q * W + r = p
      BY <2>2, <3>1, Z3
    <3> QED
      BY <3>3, <3>5, <3>6 DEF p, W
  <2> QED
    BY <2>6, <2>11, <2>12, <2>13 DEF ExactProduct, sa, sb
<1>2. AluInv => ExactProduct
  BY <1>1 DEF AluInv, ExactProduct
<1> QED
  BY <1>2, OperandsKept, PTL

-----------------------------------------------------------------------------
\* Division that truncates: the remainder is smaller than the divisor and has
\* the sign of the dividend.
LEMMA Truncation ==
    ASSUME NEW i \in Int, NEW j \in Int, j # 0
    PROVE  /\ TruncDiv(i, j) \in Int
           /\ TruncRem(i, j) \in Int
           /\ j * TruncDiv(i, j) + TruncRem(i, j) = i
           /\ Abs(TruncRem(i, j)) < Abs(j)
           /\ TruncRem(i, j) # 0 => (TruncRem(i, j) < 0 <=> i < 0)
<1> DEFINE m == Abs(i)
           n == Abs(j)
           q == m \div n
           r == m % n
<1>1. m \in Nat /\ n \in Nat \ {0}
  BY DEF Abs
<1>2. q \in Int /\ r \in 0 .. n - 1 /\ m = n * q + r
  <2> HIDE DEF m, n
  <2> QED
    BY <1>1, DivMod
<1>3. /\ i < 0 => m = -i
      /\ i >= 0 => m = i
      /\ j < 0 => n = -j
      /\ j >= 0 => n = j
  BY DEF Abs
<1>4. TruncDiv(i, j) = IF (i < 0) = (j < 0) THEN q ELSE -q
  BY DEF TruncDiv
<1> HIDE DEF m, n, q, r
<1>5. n * q \in Int /\ n * (-q) = -(n * q) /\ (-n) * q = -(n * q) /\ (-n) * (-q) = n * q
  BY <1>1, <1>2, Z3
<1>6. CASE i >= 0
  <2>1. TruncRem(i, j) = r
    <3>1. CASE j > 0
      BY <1>2, <1>3, <1>4, <1>5, <1>6, <3>1 DEF TruncRem
    <3>2. CASE j < 0
      <4>1. TruncDiv(i, j) = -q /\ j = -n /\ i = n * q + r
        BY <1>2, <1>3, <1>4, <1>6, <3>2
      <4> QED
        BY <1>2, <1>5, <4>1 DEF TruncRem
    <3> QED
      BY <3>1, <3>2
  <2> QED
    BY <1>1, <1>2, <1>3, <1>4, <1>5, <1>6, <2>1, Z3 DEF TruncRem, Abs, n
<1>7. CASE i < 0
  <2>1. TruncRem(i, j) = -r
    <3>1. CASE j > 0
      <4>1. TruncDiv(i, j) = -q /\ j = n /\ i = -(n * q + r)
        BY <1>2, <1>3, <1>4, <1>7, <3>1
      <4> QED
        BY <1>2, <1>5, <4>1 DEF TruncRem
    <3>2. CASE j < 0
      <4>1. TruncDiv(i, j) = q /\ j = -n /\ i = -(n * q + r)
        BY <1>2, <1>3, <1>4, <1>7, <3>2
      <4> QED
        BY <1>2, <1>5, <4>1 DEF TruncRem
    <3> QED
      BY <3>1, <3>2
  <2> QED
    BY <1>1, <1>2, <1>3, <1>4, <1>5, <1>7, <2>1, Z3 DEF TruncRem, Abs, n
<1> QED
  BY <1>6, <1>7

\* DIV and REM, by a divisor that is not zero, when the quotient fits.
LEMMA SignedParts ==
    ASSUME NEW v \in Word, NEW w \in Word, w # 0, ~(v = MinSigned /\ w = AllOnes)
    PROVE  /\ wrapping_add(Unsigned(div(v, w) * w), rem(v, w)) = v
           /\ Abs(Signed(rem(v, w))) < Abs(Signed(w))
           /\ Signed(rem(v, w)) # 0 => (Signed(rem(v, w)) < 0 <=> Signed(v) < 0)
<1>1. PICK h \in Nat : /\ WordSize = 2 * h /\ h > 0
                       /\ \A u \in Word : Signed(u) = IF u < h THEN u ELSE u - 2 * h
  BY Signs
<1> DEFINE W == WordSize
           i == Signed(v)
           j == Signed(w)
           Q == TruncDiv(i, j)
           R == TruncRem(i, j)
<1>2. /\ W = 2 * h /\ W \in Nat \ {0}
      /\ v \in Int /\ w \in Int /\ 0 <= w /\ w < W
  BY <1>1, Words, Sizes
<1>3. /\ i \in Int /\ j \in Int /\ j # 0 /\ -h <= j /\ j < h
      /\ \E k \in {0, -1} : i = v + W * k
      /\ \E l \in {0, -1} : j = w + W * l
  BY <1>1, <1>2
<1>4. PICK k \in {0, -1}, l \in {0, -1} : i = v + W * k /\ j = w + W * l
  BY <1>3
<1>5. div(v, w) = Unsigned(Q) /\ rem(v, w) = Unsigned(R)
  BY DEF div, rem
<1> HIDE DEF W, i, j
<1>6. /\ Q \in Int /\ R \in Int /\ j * Q + R = i
      /\ Abs(R) < Abs(j)
      /\ R # 0 => (R < 0 <=> i < 0)
  BY <1>3, Truncation
<1> HIDE DEF Q, R
<1>7. Signed(Unsigned(R)) = R
  <2>1. -h < R /\ R < h
    BY <1>1, <1>3, <1>6 DEF Abs
  <2>2. 2 * R < WordSize /\ -WordSize <= 2 * R
    BY <1>1, <1>6, <2>1
  <2> QED
    BY <1>6, <2>2, SignedUnsigned
<1>8. wrapping_add(Unsigned(Unsigned(Q) * w), Unsigned(R)) = v
  <2> DEFINE q == Q % W
             r == R % W
             m == Q \div W
             n == R \div W
  <2>1. /\ q \in Int /\ m \in Int /\ Q = W * m + q
        /\ r \in Int /\ n \in Int /\ R = W * n + r
    <3>0. Q \in Int /\ R \in Int /\ W \in Nat \ {0}
      BY <1>2, <1>6
    <3>1. q \in Int /\ m \in Int /\ Q = W * m + q
      BY <3>0, DivMod
    <3>2. r \in Int /\ n \in Int /\ R = W * n + r
      BY <3>0, DivMod
    <3> QED
      BY <3>1, <3>2
  <2>2. Unsigned(Q) = q /\ Unsigned(R) = r
    BY DEF Unsigned, W
  <2> HIDE DEF q, r, m, n
  <2> DEFINE c == (k - (Q * l)) - ((m * w) + n)
  <2>3. c \in Int /\ q * w + r = v + W * c
    <3>1. k \in Int /\ l \in Int
      BY <1>4
    <3>2. /\ q * w = Q * w - W * (m * w)
          /\ j * Q = w * Q + W * (Q * l)
          /\ Q * w \in Int /\ m * w \in Int /\ Q * l \in Int /\ j * Q \in Int
      BY <1>2, <1>3, <1>4, <1>6, <2>1, <3>1, Z3
    <3>3. /\ r = R - W * n
          /\ R = v + W * k - j * Q
      BY <1>2, <1>3, <1>4, <1>6, <2>1, <3>1, Z3
    <3>4. W * c = W * k - W * (Q * l) - W * (m * w) - W * n
      BY <1>2, <1>6, <2>1, <3>1, <3>2, Z3
    <3> QED
      BY <1>2, <1>6, <2>1, <3>1, <3>2, <3>3, <3>4, Z3
  <2> HIDE DEF c
  <2>4. wrapping_add(Unsigned(q * w), r) = v
    <3> DEFINE p == q * w
    <3>1. p \in Int /\ p + r = v + WordSize * c
      BY <1>2, <2>1, <2>3, Z3 DEF W
    <3> HIDE DEF p
    <3>2. wrapping_add(Unsigned(p), r) = (p + r) % WordSize
      BY <2>1, <3>1, InnerReduction
    <3>3. (v + WordSize * c) % WordSize = v
      BY <2>3, WordReduced
    <3> QED
      BY <3>1, <3>2, <3>3 DEF p
  <2> QED
    BY <2>2, <2>4
<1> QED
  BY <1>5, <1>6, <1>7, <1>8 DEF i, j

\* The quotient that does not fit: the dividend, and no remainder.
LEMMA OverflowParts ==
    /\ wrapping_add(Unsigned(div(MinSigned, AllOnes) * AllOnes), rem(MinSigned, AllOnes))
         = MinSigned
    /\ Signed(rem(MinSigned, AllOnes)) = 0
    /\ Abs(Signed(AllOnes)) = 1
<1>1. PICK h \in Nat : /\ WordSize = 2 * h /\ h > 0
                       /\ \A u \in Word : Signed(u) = IF u < h THEN u ELSE u - 2 * h
  BY Signs
<1>2. WordSize >= 16
  BY Sizes
<1>3. MinSigned = h /\ MinSigned \in Word
  <2>1. WordSize \div 2 = h
    BY <1>1
  <2> QED
    BY <1>1, <2>1, Words DEF MinSigned
<1>4. AllOnes = WordSize - 1 /\ AllOnes \in Word /\ AllOnes # 0 /\ 0 \in Word
  BY <1>1, <1>2, Words DEF AllOnes
<1>5. Signed(0) = 0 /\ Signed(AllOnes) = -1
  BY <1>1, <1>2, <1>4
<1>6. div(MinSigned, AllOnes) = h /\ rem(MinSigned, AllOnes) = 0
  BY <1>3, <1>4 DEF div, rem
<1> DEFINE p == h * AllOnes
<1>7. p \in Int /\ p + 0 = h + WordSize * (h - 1)
  <2> DEFINE W == WordSize
  <2>1. W = 2 * h /\ h \in Int /\ AllOnes = W - 1
    BY <1>1, <1>4
  <2> HIDE DEF W
  <2>2. /\ h * W \in Int /\ h * (W - 1) = h * W - h
        /\ W * (h - 1) = h * W - W
    BY <2>1, Z3
  <2>3. h * AllOnes = h * W - h
    BY <2>1, <2>2
  <2>4. h * W - h = h + (h * W - W)
    BY <2>1, <2>2
  <2> QED
    BY <2>1, <2>2, <2>3, <2>4 DEF W
<1>8. div(MinSigned, AllOnes) * AllOnes = p
  BY <1>6
<1> HIDE DEF p
<1>9. wrapping_add(Unsigned(p), 0) = h
  <2>1. wrapping_add(Unsigned(p), 0) = (p + 0) % WordSize
    BY <1>7, InnerReduction
  <2>2. h \in Word /\ h - 1 \in Int
    BY <1>1, <1>3
  <2>3. (h + WordSize * (h - 1)) % WordSize = h
    BY <2>2, WordReduced
  <2> QED
    BY <1>7, <2>1, <2>3
<1>10. Signed(rem(MinSigned, AllOnes)) = 0 /\ Abs(Signed(AllOnes)) = 1
  <2>1. Signed(rem(MinSigned, AllOnes)) = 0
    BY <1>5, <1>6, Zenon
  <2>2. Signed(AllOnes) \in Int /\ Signed(AllOnes) + 1 = 0
    BY <1>5
  <2>3. \A i \in Int : i + 1 = 0 => Abs(i) = 1
    BY DEF Abs
  <2> QED
    BY <2>1, <2>2, <2>3
<1> QED
  BY <1>3, <1>6, <1>8, <1>9, <1>10, Zenon

\* DIVU and REMU, and any division by zero.
LEMMA UnsignedParts ==
    ASSUME NEW v \in Word, NEW w \in Word
    PROVE  /\ wrapping_add(Unsigned(divu(v, w) * w), remu(v, w)) = v
           /\ w # 0 => remu(v, w) < w
           /\ w = 0 => wrapping_add(Unsigned(div(v, w) * w), rem(v, w)) = v
<1>1. /\ v \in Int /\ w \in Int /\ w >= 0 /\ AllOnes \in Int /\ WordSize \in Int
      /\ WordSize * 0 = 0 /\ AllOnes * 0 = 0
  BY Words, Sizes DEF AllOnes
<1>2. wrapping_add(Unsigned(AllOnes * 0), v) = v
  <2>1. wrapping_add(Unsigned(0), v) = (0 + v) % WordSize
    BY <1>1, InnerReduction
  <2>2. 0 + v = v
    BY <1>1
  <2> QED
    BY <1>1, <2>1, <2>2, WordReduced
<1>3. ASSUME w # 0
      PROVE  wrapping_add(Unsigned((v \div w) * w), v % w) = v /\ v % w < w
  <2> DEFINE q == v \div w
             r == v % w
  <2>1. q \in Int /\ r \in 0 .. w - 1 /\ v = w * q + r
    <3>1. w \in Nat \ {0}
      BY <1>1, <1>3
    <3> QED
      BY <1>1, <3>1, DivMod
  <2> HIDE DEF q, r
  <2> DEFINE p == q * w
  <2>2. p \in Int /\ p + r = v
    <3>1. q * w = w * q /\ w * q \in Int
      BY <1>1, <2>1, Z3
    <3> QED
      BY <1>1, <2>1, <3>1
  <2>3. wrapping_add(Unsigned(p), r) = v
    <3> HIDE DEF p
    <3>1. wrapping_add(Unsigned(p), r) = (p + r) % WordSize
      BY <1>1, <2>1, <2>2, InnerReduction
    <3>2. v % WordSize = v
      BY WordReduced
    <3> QED
      BY <2>2, <3>1, <3>2
  <2> QED
    BY <1>1, <2>1, <2>3 DEF q, r
<1> QED
  BY <1>2, <1>3 DEF divu, remu, div, rem

\* Quotient and remainder fit together for every pair of words.
THEOREM DivisionFits == Spec => []DivisionIdentity
<1>1. ASSUME Operands PROVE DivisionIdentity
  <2>1. a \in Word /\ b \in Word
    BY <1>1 DEF Operands
  <2>2. /\ Op(1, 4) = div(a, b) /\ Op(1, 5) = divu(a, b)
        /\ Op(1, 6) = rem(a, b) /\ Op(1, 7) = remu(a, b)
    BY DEF Op, op_value, m_op
  <2>3. wrapping_add(Unsigned(div(a, b) * b), rem(a, b)) = a
    BY <2>1, SignedParts, OverflowParts, UnsignedParts
  <2>4. ASSUME b # 0
        PROVE  /\ Abs(Signed(rem(a, b))) < Abs(Signed(b))
               /\ Signed(rem(a, b)) # 0 => (Signed(rem(a, b)) < 0) = (Signed(a) < 0)
    <3>1. CASE a = MinSigned /\ b = AllOnes
      BY <3>1, OverflowParts DEF Abs
    <3>2. CASE ~(a = MinSigned /\ b = AllOnes)
      BY <2>1, <2>4, <3>2, SignedParts
    <3> QED
      BY <3>1, <3>2
  <2>5. b = 0 => div(a, b) = AllOnes
    BY DEF div
  <2>6. /\ wrapping_add(Unsigned(divu(a, b) * b), remu(a, b)) = a
        /\ b # 0 => remu(a, b) < b
    BY <2>1, UnsignedParts
  <2> QED
    BY <2>2, <2>3, <2>4, <2>5, <2>6 DEF DivisionIdentity
<1>2. AluInv => DivisionIdentity
  BY <1>1 DEF AluInv, DivisionIdentity
<1> QED
  BY <1>2, OperandsKept, PTL

-----------------------------------------------------------------------------
\* The modulus.
LEMMA ModulusPrime ==
    /\ Prime(ModP)
    /\ ModP \in Nat \ {0} /\ ModP \in Int /\ ModP >= 2
BY ArithmeticAssumption DEF Mod!ModulusAssumption, Prime

\* The results of do_mod_op are reduced.
LEMMA PutsReduced ==
    ASSUME cells \in [Cell -> Nat], NEW out \in Cell, NEW r \in Mod!Field, Mod!Write(out, r)
    PROVE  Mod!IntegersModP!Put(out, r) /\ cells' \in [Cell -> Nat]
<1>1. r \in Nat /\ r % ModP = r
  BY ModulusPrime, Remainders DEF Mod!Field
<1>2. /\ cells' = [cells EXCEPT ![out] = r]
      /\ UNCHANGED <<answer, outcome>>
  BY DEF Mod!Write
<1>3. cells' \in [Cell -> Nat]
  BY <1>1, <1>2
<1>4. [c \in Cell |-> cells'[c] % ModP] = [[c \in Cell |-> cells[c] % ModP] EXCEPT ![out] = r]
  BY <1>1, <1>2
<1>5. { c \in Cell : cells'[c] \in Mod!Field }
        = { c \in Cell : cells[c] \in Mod!Field } \cup {out}
  BY <1>2
<1> QED
  BY <1>2, <1>3, <1>4, <1>5 DEF Mod!IntegersModP!Put

\* Subtraction underflows only for an operand that is not reduced.
LEMMA SubtractsModP ==
    ASSUME NEW m \in Nat, NEW n \in Nat
    PROVE  /\ Mod!sub_underflows(m, n) => n \notin Mod!Field
           /\ ~Mod!sub_underflows(m, n) =>
                 Mod!mod_sub(m, n) = Mod!Minus(m % ModP, n % ModP)
<1>1. Mod!sub_underflows(m, n) => n \notin Mod!Field
  BY ModulusPrime DEF Mod!sub_underflows, Mod!Field
<1>2. Mod!mod_sub(m, n) = (m - n) % ModP
  <2>1. m \in Int /\ n \in Int
    OBVIOUS
  <2>2. (ModP + m - n) % ModP = (m - n) % ModP
    BY <2>1, ModulusPrime, Raised
  <2> QED
    BY <2>2 DEF Mod!mod_sub
<1>3. ((m % ModP) - (n % ModP)) % ModP = (m - n) % ModP
  <2>1. m \in Int /\ n \in Int
    OBVIOUS
  <2> QED
    BY <2>1, ModulusPrime, Reduced
<1> QED
  BY <1>1, <1>2, <1>3 DEF Mod!Minus

\* The quotient times the divisor is the dividend, for a divisor that is no
\* multiple of p; no other is inverted.
LEMMA DividesModP ==
    ASSUME NEW m \in Nat, NEW n \in Nat
    PROVE  /\ Mod!invertible(n) <=> n % ModP # 0
           /\ n % ModP # 0 =>
                 /\ (m * Mod!mod_inv(n)) % ModP \in Mod!Field
                 /\ Mod!Times((m * Mod!mod_inv(n)) % ModP, n % ModP) = m % ModP
<1> DEFINE f == Mod!extended_gcd
           x == f[<<n, ModP>>].x
           i == Mod!mod_inv(n)
<1>1. Euclid(f)
  BY EuclidFunctionDefined DEF Mod!extended_gcd, EuclidFunction, Euclid
<1> HIDE DEF f
<1>2. /\ x \in Int
      /\ f[<<n, ModP>>].g = 1 <=> n % ModP # 0
      /\ n % ModP # 0 => (n * (x % ModP)) % ModP = 1
  BY <1>1, ModulusPrime, EuclidInverts
<1>3. Mod!invertible(n) <=> n % ModP # 0
  <2>1. 0 % ModP = 0
    BY ModulusPrime, Remainders
  <2> QED
    BY <1>2, <2>1 DEF Mod!invertible, f
<1>4. i = x % ModP
  BY DEF Mod!mod_inv, f
<1> HIDE DEF x, i
<1>5. ASSUME n % ModP # 0
      PROVE  /\ (m * i) % ModP \in Mod!Field
             /\ Mod!Times((m * i) % ModP, n % ModP) = m % ModP
  <2>1. i \in Int
    BY <1>2, <1>4, ModulusPrime, Reduced
  <2> DEFINE e == m * i
             d == n * i
  <2>2. e \in Int /\ d \in Int /\ e * n = m * d
    BY <2>1, Z3
  <2> HIDE DEF e, d
  <2>0. m \in Int /\ n \in Int
    OBVIOUS
  <2>3. e % ModP \in Mod!Field
    BY <2>2, ModulusPrime, Reduced DEF Mod!Field
  <2>4. ((e % ModP) * (n % ModP)) % ModP = (e * n) % ModP
    BY <2>0, <2>2, ModulusPrime, Reduced
  <2>5. d % ModP = 1
    BY <1>2, <1>4, <1>5 DEF d
  <2>6. (m * (d % ModP)) % ModP = (m * d) % ModP
    BY <2>0, <2>2, ModulusPrime, Reduced
  <2> QED
    BY <2>2, <2>3, <2>4, <2>5, <2>6 DEF Mod!Times, e
<1> QED
  BY <1>3, <1>5 DEF i

\* Every instruction is the field's.
LEMMA ModularStepsField ==
    ASSUME cells \in [Cell -> Nat], Mod!Next
    PROVE  Mod!IntegersModP!Next /\ cells' \in [Cell -> Nat]
<1>1. PICK out \in Cell, i \in Cell, j \in Cell :
        \/ Mod!MOD_ADD(out, i, j) \/ Mod!MOD_SUB(out, i, j) \/ Mod!MOD_MUL(out, i, j)
        \/ Mod!MOD_DIV(out, i, j) \/ Mod!MOD_ISEQ(i, j)
  BY DEF Mod!Next
<1> DEFINE m == cells[i]
           n == cells[j]
           val == [c \in Cell |-> cells[c] % ModP]
<1>2. m \in Nat /\ n \in Nat /\ val[i] = m % ModP /\ val[j] = n % ModP
  OBVIOUS
<1>a. m \in Int /\ n \in Int
  BY <1>2
<1>3. \A k \in Int : k % ModP \in Mod!Field
  BY ModulusPrime, Reduced DEF Mod!Field
<1>4. ASSUME NEW op \in {"add", "sub", "mul", "div", "iseq"}, NEW d \in Cell,
             outcome = "running", insn' = <<op, d, i, j>>,
             Mod!IntegersModP!Execute(op, d, i, j)
      PROVE  Mod!IntegersModP!Next
  <2>1. insn'[1] = op /\ insn'[2] = d /\ insn'[3] = i /\ insn'[4] = j
    BY <1>4
  <2>2. insn' \in {"add", "sub", "mul", "div", "iseq"} \X Cell \X Cell \X Cell
    BY <1>4
  <2> QED
    BY <1>4, <2>1, <2>2
    DEF Mod!IntegersModP!Next, Mod!IntegersModP!Execute, Mod!IntegersModP!Put,
        Mod!IntegersModP!Divide, Mod!IntegersModP!DivideByZero, Mod!IntegersModP!Fail,
        Mod!IntegersModP!Panic, Mod!IntegersModP!IsEq
<1>5. CASE Mod!MOD_ADD(out, i, j)
  <2>1. (m + n) % ModP \in Mod!Field
    BY <1>2, <1>3
  <2>2. Mod!Write(out, (m + n) % ModP) /\ outcome = "running" /\ insn' = <<"add", out, i, j>>
    BY <1>5 DEF Mod!MOD_ADD, Mod!Issue
  <2>3. (m + n) % ModP = Mod!Plus(val[i], val[j])
    BY <1>2, <1>a, ModulusPrime, Reduced DEF Mod!Plus
  <2>4. Mod!IntegersModP!Put(out, Mod!Plus(val[i], val[j])) /\ cells' \in [Cell -> Nat]
    <3>1. PICK r \in Mod!Field : r = (m + n) % ModP
      BY <2>1
    <3>2. Mod!Write(out, r)
      BY <2>2, <3>1 DEF Mod!Write
    <3>3. Mod!IntegersModP!Put(out, r) /\ cells' \in [Cell -> Nat]
      BY <3>2, PutsReduced
    <3> QED
      BY <2>3, <3>1, <3>3 DEF Mod!IntegersModP!Put
  <2> QED
    BY <1>4, <2>2, <2>4 DEF Mod!IntegersModP!Execute
<1>6. CASE Mod!MOD_MUL(out, i, j)
  <2>1. (m * n) % ModP \in Mod!Field
    <3>1. m * n \in Int
      BY <1>2, Z3
    <3> QED
      BY <1>3, <3>1
  <2>2. Mod!Write(out, (m * n) % ModP) /\ outcome = "running" /\ insn' = <<"mul", out, i, j>>
    BY <1>6 DEF Mod!MOD_MUL, Mod!Issue
  <2>3. (m * n) % ModP = Mod!Times(val[i], val[j])
    <3> HIDE DEF m, n, val
    <3>1. ((m % ModP) * (n % ModP)) % ModP = (m * n) % ModP
      BY <1>a, ModulusPrime, Reduced
    <3> QED
      BY <1>2, <3>1 DEF Mod!Times
  <2>4. Mod!IntegersModP!Put(out, Mod!Times(val[i], val[j])) /\ cells' \in [Cell -> Nat]
    <3>1. PICK r \in Mod!Field : r = (m * n) % ModP
      BY <2>1
    <3>2. Mod!Write(out, r)
      BY <2>2, <3>1 DEF Mod!Write
    <3>3. Mod!IntegersModP!Put(out, r) /\ cells' \in [Cell -> Nat]
      BY <3>2, PutsReduced
    <3> QED
      BY <2>3, <3>1, <3>3 DEF Mod!IntegersModP!Put
  <2> QED
    BY <1>4, <2>2, <2>4 DEF Mod!IntegersModP!Execute
<1>7. CASE Mod!MOD_SUB(out, i, j)
  <2>1. outcome = "running" /\ insn' = <<"sub", out, i, j>>
    BY <1>7 DEF Mod!MOD_SUB, Mod!Issue
  <2>2. CASE Mod!sub_underflows(m, n)
    <3>1. n \notin Mod!Field
      BY <1>2, <2>2, SubtractsModP
    <3>2. Mod!End("panic")
      BY <1>7, <2>2 DEF Mod!MOD_SUB
    <3>3. Mod!IntegersModP!Panic(i, j) /\ cells' \in [Cell -> Nat]
      BY <3>1, <3>2 DEF Mod!End, Mod!IntegersModP!Panic, Mod!IntegersModP!Fail
    <3> QED
      BY <1>4, <2>1, <3>3 DEF Mod!IntegersModP!Execute
  <2>3. CASE ~Mod!sub_underflows(m, n)
    <3>1. Mod!mod_sub(m, n) = Mod!Minus(val[i], val[j])
      BY <1>2, <2>3, SubtractsModP
    <3>2. Mod!Minus(val[i], val[j]) \in Mod!Field
      <4>1. val[i] \in Int /\ val[j] \in Int
        BY <1>2, <1>3 DEF Mod!Field
      <4> HIDE DEF val
      <4> QED
        BY <1>3, <4>1 DEF Mod!Minus
    <3>3. PICK r \in Mod!Field : r = Mod!Minus(val[i], val[j])
      BY <3>2
    <3>4. Mod!Write(out, r)
      BY <1>7, <2>3, <3>1, <3>3 DEF Mod!MOD_SUB, Mod!Write
    <3>5. Mod!IntegersModP!Put(out, r) /\ cells' \in [Cell -> Nat]
      BY <3>4, PutsReduced
    <3>6. Mod!IntegersModP!Put(out, Mod!Minus(val[i], val[j]))
      BY <3>3, <3>5 DEF Mod!IntegersModP!Put
    <3> QED
      BY <1>4, <2>1, <3>5, <3>6 DEF Mod!IntegersModP!Execute
  <2> QED
    BY <2>2, <2>3
<1>8. CASE Mod!MOD_DIV(out, i, j)
  <2>1. outcome = "running" /\ insn' = <<"div", out, i, j>>
    BY <1>8 DEF Mod!MOD_DIV, Mod!Issue
  <2>2. CASE n % ModP = 0
    <3>1. Mod!End("CustomOp")
      BY <1>2, <1>8, <2>2, DividesModP DEF Mod!MOD_DIV
    <3>2. Mod!IntegersModP!DivideByZero(j) /\ cells' \in [Cell -> Nat]
      BY <1>2, <2>2, <3>1 DEF Mod!End, Mod!IntegersModP!DivideByZero, Mod!IntegersModP!Fail
    <3> QED
      BY <1>4, <2>1, <3>2 DEF Mod!IntegersModP!Execute
  <2>3. CASE n % ModP # 0
    <3> DEFINE v == (m * Mod!mod_inv(n)) % ModP
    <3>0. v \in Mod!Field /\ Mod!Times(v, val[j]) = val[i] /\ Mod!invertible(n)
      BY <1>2, <2>3, DividesModP
    <3>1. PICK q \in Mod!Field : q = v /\ Mod!Times(q, val[j]) = val[i]
      BY <3>0
    <3>2. Mod!Write(out, q)
      BY <1>8, <3>0, <3>1 DEF Mod!MOD_DIV, Mod!Write
    <3> HIDE DEF v
    <3>3. Mod!IntegersModP!Put(out, q) /\ cells' \in [Cell -> Nat]
      BY <3>2, PutsReduced
    <3>4. Mod!IntegersModP!Divide(out, i, j)
      BY <1>2, <2>3, <3>1, <3>3 DEF Mod!IntegersModP!Divide
    <3> QED
      BY <1>4, <2>1, <3>3, <3>4 DEF Mod!IntegersModP!Execute
  <2> QED
    BY <2>2, <2>3
<1>9. CASE Mod!MOD_ISEQ(i, j)
  <2>1. outcome = "running" /\ insn' = <<"iseq", i, i, j>>
    BY <1>9 DEF Mod!MOD_ISEQ, Mod!Issue
  <2>2. Mod!IntegersModP!IsEq(i, j) /\ cells' \in [Cell -> Nat]
    BY <1>9 DEF Mod!MOD_ISEQ, Mod!IntegersModP!IsEq
  <2> QED
    BY <1>4, <2>1, <2>2 DEF Mod!IntegersModP!Execute
<1> QED
  BY <1>1, <1>5, <1>6, <1>7, <1>8, <1>9

-----------------------------------------------------------------------------
\* The modular precompiles implement the field of P elements.
ModularInv == chip = "modular" => cells \in [Cell -> Nat]

\* For every prime modulus and all numbers, reduced or not, the modular
\* precompiles (do_mod_op) take the steps of the field.
THEOREM ModularIsField == Spec => ImplementsField
<1>1. ASSUME Init
      PROVE  ModularInv /\ (chip = "modular" => Mod!IntegersModP!Init)
  <2> SUFFICES ASSUME chip = "modular"
               PROVE  cells \in [Cell -> Nat] /\ Mod!IntegersModP!Init
    BY DEF ModularInv
  <2>1. Mod!Init
    BY <1>1 DEF Init
  <2>2. cells \in [Cell -> Nat]
    BY <2>1 DEF Mod!Init, Mod!Number
  <2>3. \A c \in Cell : cells[c] % ModP \in Mod!Field
    BY <2>2, ModulusPrime, Reduced DEF Mod!Field
  <2> QED
    BY <2>1, <2>2, <2>3 DEF Mod!Init, Mod!IntegersModP!Init
<1>2. ASSUME ModularInv, [Next]_vars
      PROVE  ModularInv' /\ [chip = "modular" => Mod!IntegersModP!Next]_vars
  <2>1. CASE UNCHANGED vars
    BY <1>2, <2>1 DEF ModularInv, vars
  <2>2. CASE Next
    <3>1. chip' = chip /\ (chip = "modular" => Mod!Next)
      BY <2>2 DEF Next, AluStep, Int256Step, ModularStep, Fp2Step, CurveStep
    <3> QED
      BY <1>2, <3>1, ModularStepsField DEF ModularInv
  <2> QED
    BY <1>2, <2>1, <2>2
<1> QED
  BY <1>1, <1>2, PTL DEF Spec, ImplementsField

-----------------------------------------------------------------------------
\* What the assumption says of the modulus of the complex numbers.
LEMMA ComplexPrime ==
    /\ Prime(ComplexP) /\ ComplexP % 4 = 3
    /\ ComplexP \in Nat \ {0} /\ ComplexP \in Int /\ ComplexP >= 2
    /\ Coordinate \subseteq Nat
BY ArithmeticAssumption
DEF Complex!ModulusAssumption, Complex!Fp2Assumption, Complex!Number, Prime

\* The results of handle_complex are reduced.
LEMMA PutsReducedPair ==
    ASSUME cells \in [Cell -> Nat \X Nat], NEW out \in Cell,
           NEW r \in Complex!Field, NEW s \in Complex!Field, Complex!Write(out, r, s)
    PROVE  Complex!ComplexModP!Put(out, <<r, s>>) /\ cells' \in [Cell -> Nat \X Nat]
<1>1. r \in Nat /\ r % ComplexP = r /\ s \in Nat /\ s % ComplexP = s
  BY ComplexPrime, Remainders DEF Complex!Field
<1>2. /\ cells' = [cells EXCEPT ![out] = <<r, s>>]
      /\ UNCHANGED <<answer, outcome>>
  BY DEF Complex!Write
<1>3. cells' \in [Cell -> Nat \X Nat]
  BY <1>1, <1>2
<1>4. [c \in Cell |-> <<cells'[c][1] % ComplexP, cells'[c][2] % ComplexP>>]
        = [[c \in Cell |-> <<cells[c][1] % ComplexP, cells[c][2] % ComplexP>>]
             EXCEPT ![out] = <<r, s>>]
  BY <1>1, <1>2
<1>5. { c \in Cell : cells'[c] \in Complex!Field \X Complex!Field }
        = { c \in Cell : cells[c] \in Complex!Field \X Complex!Field } \cup {out}
  BY <1>2
<1> QED
  BY <1>2, <1>3, <1>4, <1>5 DEF Complex!ComplexModP!Put

\* The multiple of p that raise_by adds is enough.
LEMMA Raises ==
    ASSUME NEW pre \in Nat, NEW neg \in Nat
    PROVE  /\ ~(Complex!raise_by(pre, neg) + pre < neg)
           /\ (Complex!raise_by(pre, neg) + pre - neg) % ComplexP = (pre - neg) % ComplexP
<1> DEFINE n == ComplexP
           i == neg - pre + n - 1
           q == i \div n
           e == pre - neg
<1>1. n \in Nat \ {0} /\ i \in Int /\ e \in Int /\ i = n - 1 - e
  BY ComplexPrime
<1>2. CASE pre >= neg
  BY <1>1, <1>2 DEF Complex!raise_by
<1>3. CASE pre < neg
  <2>1. Complex!raise_by(pre, neg) = q * n
    BY <1>3 DEF Complex!raise_by
  <2>2. q \in Int /\ i % n \in 0 .. n - 1 /\ i = n * q + (i % n)
    <3> HIDE DEF n, i
    <3> QED
      BY <1>1, DivMod
  <2> DEFINE r == i % n
  <2>3. pre = e + neg
    BY <1>1
  <2> HIDE DEF n, i, q, e, r
  <2>4. r \in 0 .. n - 1 /\ i = n * q + r
    BY <2>2 DEF r
  <2>5. q * n \in Int /\ n * q = q * n /\ q * n >= -e
    BY <1>1, <2>2, <2>4, Z3
  <2>6. q * n + pre - neg = e + n * q
    BY <1>1, <2>3, <2>5
  <2>7. (e + n * q) % n = e % n
    BY <1>1, <2>2, Congruent
  <2> QED
    BY <1>1, <2>1, <2>3, <2>5, <2>6, <2>7 DEF n, e
<1> QED
  BY <1>2, <1>3

\* A subtraction that does not underflow is that of the field.
LEMMA SubtractsPairs ==
    ASSUME NEW m \in Nat, NEW n \in Nat
    PROVE  /\ Complex!sub_underflows(m, n) => n \notin Complex!Field
           /\ ~Complex!sub_underflows(m, n) =>
                 Complex!mod_sub(m, n) = ((m % ComplexP) - (n % ComplexP)) % ComplexP
<1>1. Complex!sub_underflows(m, n) => n \notin Complex!Field
  BY ComplexPrime DEF Complex!sub_underflows, Complex!Field
<1>2. Complex!mod_sub(m, n) = (m - n) % ComplexP
  <2>1. m \in Int /\ n \in Int
    OBVIOUS
  <2>2. (ComplexP + m - n) % ComplexP = (m - n) % ComplexP
    BY <2>1, ComplexPrime, Raised
  <2> QED
    BY <2>2 DEF Complex!mod_sub
<1>3. ((m % ComplexP) - (n % ComplexP)) % ComplexP = (m - n) % ComplexP
  <2>1. m \in Int /\ n \in Int
    OBVIOUS
  <2> QED
    BY <2>1, ComplexPrime, Reduced
<1> QED
  BY <1>1, <1>2, <1>3

\* c0 = pre - neg and c1, both reduced.
LEMMA ProductWritten ==
    ASSUME NEW out \in Cell, NEW pre \in Nat, NEW neg \in Nat, NEW c1 \in Nat,
           Complex!WriteProduct(out, pre, neg, c1)
    PROVE  Complex!Write(out, (pre - neg) % ComplexP, c1 % ComplexP)
BY Raises DEF Complex!WriteProduct, Complex!Write

\* Reducing the parts of the operands changes no part of a product.
LEMMA TimesReduced ==
    ASSUME NEW a1 \in Int, NEW a2 \in Int, NEW b1 \in Int, NEW b2 \in Int
    PROVE  Complex!Times(<<a1 % ComplexP, a2 % ComplexP>>, <<b1 % ComplexP, b2 % ComplexP>>)
             = <<(a1 * b1 - a2 * b2) % ComplexP, (a1 * b2 + a2 * b1) % ComplexP>>
<1> DEFINE n == ComplexP
           x1 == a1 % n
           x2 == a2 % n
           y1 == b1 % n
           y2 == b2 % n
<1>1. n \in Nat \ {0}
  BY ComplexPrime
<1>2. /\ x1 \in Int /\ x2 \in Int /\ y1 \in Int /\ y2 \in Int
      /\ (x1 * y1) % n = (a1 * b1) % n /\ (x2 * y2) % n = (a2 * b2) % n
      /\ (x1 * y2) % n = (a1 * b2) % n /\ (x2 * y1) % n = (a2 * b1) % n
  <2> HIDE DEF n
  <2> QED
    BY <1>1, Reduced, ZenonT(30)
<1> DEFINE s11 == x1 * y1
           s22 == x2 * y2
           s12 == x1 * y2
           s21 == x2 * y1
           t11 == a1 * b1
           t22 == a2 * b2
           t12 == a1 * b2
           t21 == a2 * b1
<1> HIDE DEF n, x1, x2, y1, y2
<1>3. /\ s11 \in Int /\ s22 \in Int /\ s12 \in Int /\ s21 \in Int
      /\ t11 \in Int /\ t22 \in Int /\ t12 \in Int /\ t21 \in Int
  BY <1>2, Z3
<1>4. /\ s11 % n = t11 % n /\ s22 % n = t22 % n
      /\ s12 % n = t12 % n /\ s21 % n = t21 % n
  BY <1>2
<1> HIDE DEF s11, s22, s12, s21, t11, t22, t12, t21
<1>5. /\ Same(s11, t11, n) /\ Same(s22, t22, n)
      /\ Same(s12, t12, n) /\ Same(s21, t21, n)
  BY <1>4 DEF Same
<1>6. Same(s11 - s22, t11 - t22, n) /\ Same(s12 + s21, t12 + t21, n)
  BY <1>1, <1>3, <1>5, SameResults
<1>7. Complex!Times(<<x1, x2>>, <<y1, y2>>) = <<(s11 - s22) % n, (s12 + s21) % n>>
  BY DEF Complex!Times, s11, s22, s12, s21, n
<1> QED
  BY <1>6, <1>7 DEF Same, n, x1, x2, y1, y2, t11, t22, t12, t21

\* Times the divisor, the quotient that DIV computes is the dividend: v inverts
\* the norm of the divisor, and i1 + i2 X is the divisor's inverse.
LEMMA QuotientTimes ==
    ASSUME NEW n \in Nat \ {0},
           NEW a1 \in Int, NEW a2 \in Int, NEW b1 \in Int, NEW b2 \in Int, NEW v \in Int,
           NEW i1 \in Int, NEW i2 \in Int,
           Exceeds((b1 * b1 + b2 * b2) * v, 1, n),
           Exceeds(i1, b1 * v, n), Exceeds(i2, (-b2) * v, n)
    PROVE  LET q1 == a1 * i1 - a2 * i2
               q2 == a1 * i2 + a2 * i1
           IN  /\ Exceeds(q1 * b1 - q2 * b2, a1, n)
               /\ Exceeds(q1 * b2 + q2 * b1, a2, n)
<1> DEFINE q1 == a1 * i1 - a2 * i2
           q2 == a1 * i2 + a2 * i1
           unit == i1 * b1 - i2 * b2
           zero == i1 * b2 + i2 * b1
<1>1. PICK k, k1, k2 \in Int :
        /\ (b1 * b1 + b2 * b2) * v = 1 + n * k
        /\ i1 = b1 * v + n * k1
        /\ i2 = (-b2) * v + n * k2
  BY DEF Exceeds
<1>2. \E l \in Int : unit = 1 + n * l
  <2> DEFINE l == k + k1 * b1 - k2 * b2
  <2>1. l \in Int /\ unit = 1 + n * l
    <3>1. unit = (b1 * b1 + b2 * b2) * v + n * (k1 * b1 - k2 * b2)
      BY <1>1, Z3
    <3> QED
      BY <1>1, <3>1, Z3
  <2> QED
    BY <2>1
<1>3. \E m \in Int : zero = n * m
  <2> DEFINE m == k1 * b2 + k2 * b1
  <2>1. m \in Int /\ zero = n * m
    BY <1>1, Z3
  <2> QED
    BY <2>1
<1>4. PICK l \in Int, m \in Int : unit = 1 + n * l /\ zero = n * m
  BY <1>2, <1>3
<1>5. /\ q1 * b1 - q2 * b2 = a1 * unit - a2 * zero
      /\ q1 * b2 + q2 * b1 = a1 * zero + a2 * unit
      /\ unit \in Int /\ zero \in Int
  BY Z3
<1> HIDE DEF q1, q2, unit, zero
<1>6. Exceeds(q1 * b1 - q2 * b2, a1, n)
  <2> DEFINE e == q1 * b1 - q2 * b2
             c == a1 * l - a2 * m
  <2>1. c \in Int /\ e = a1 + n * c
    BY <1>4, <1>5, Z3
  <2> HIDE DEF e, c
  <2> QED
    BY <2>1 DEF Exceeds, e
<1>7. Exceeds(q1 * b2 + q2 * b1, a2, n)
  <2> DEFINE e == q1 * b2 + q2 * b1
             c == a1 * m + a2 * l
  <2>1. c \in Int /\ e = a2 + n * c
    BY <1>4, <1>5, Z3
  <2> HIDE DEF e, c
  <2> QED
    BY <2>1 DEF Exceeds, e
<1> QED
  BY <1>6, <1>7 DEF q1, q2

\* DIV: the divisors refused are those that stand for zero; for the others the
\* parts of the quotient give the dividend back.
LEMMA DividesPairs ==
    ASSUME NEW a1 \in Nat, NEW a2 \in Nat, NEW b1 \in Nat, NEW b2 \in Nat
    PROVE  LET v  == Complex!mod_inv(Complex!norm(<<b1, b2>>))
               i1 == (b1 * v) % ComplexP
               i2 == (((ComplexP - b2) % ComplexP) * v) % ComplexP
               q1 == (a1 * i1 - a2 * i2) % ComplexP
               q2 == (a1 * i2 + a2 * i1) % ComplexP
           IN  /\ Complex!invertible(Complex!norm(<<b1, b2>>))
                    <=> ~(b1 % ComplexP = 0 /\ b2 % ComplexP = 0)
               /\ i1 \in Nat /\ i2 \in Nat
               /\ Complex!invertible(Complex!norm(<<b1, b2>>)) =>
                    Complex!Times(<<q1, q2>>, <<b1 % ComplexP, b2 % ComplexP>>)
                      = <<a1 % ComplexP, a2 % ComplexP>>
<1> DEFINE n  == ComplexP
           s  == b1 * b1 + b2 * b2
           nb == Complex!norm(<<b1, b2>>)
           f  == Complex!extended_gcd
           x  == f[<<nb, n>>].x
           v  == Complex!mod_inv(nb)
           w  == (n - b2) % n
           i1 == (b1 * v) % n
           i2 == (w * v) % n
           e1 == a1 * i1 - a2 * i2
           e2 == a1 * i2 + a2 * i1
           q1 == e1 % n
           q2 == e2 % n
<1>1. /\ n \in Nat \ {0} /\ n \in Int /\ Prime(n) /\ n % 4 = 3
      /\ a1 \in Int /\ a2 \in Int /\ b1 \in Int /\ b2 \in Int
  BY ComplexPrime
<1>2. Euclid(f)
  BY EuclidFunctionDefined DEF Complex!extended_gcd, EuclidFunction, Euclid
<1>3. nb = s % n /\ s \in Int
  BY <1>1, Z3 DEF Complex!norm
<1>4. Complex!invertible(nb) <=> (nb # 0 /\ f[<<nb, n>>].g = 1)
  BY DEF Complex!invertible
<1>5. v = x % n
  BY DEF Complex!mod_inv
<1> HIDE DEF n, s, nb, f, v
<1>6. nb \in Nat /\ nb \in Int /\ nb % n = nb
  <2>1. nb \in 0 .. n - 1 /\ (s % n) % n = s % n
    BY <1>1, <1>3, Reduced
  <2> QED
    BY <1>1, <1>3, <2>1
<1>7. /\ x \in Int
      /\ f[<<nb, n>>].g = 1 <=> nb % n # 0
      /\ nb % n # 0 => (nb * (x % n)) % n = 1
  BY <1>1, <1>2, <1>6, EuclidInverts
<1> HIDE DEF x
<1>8. Complex!invertible(nb) <=> nb # 0
  BY <1>4, <1>6, <1>7
<1>9. nb = 0 <=> (b1 % n = 0 /\ b2 % n = 0)
  <2>1. ASSUME nb = 0 PROVE b1 % n = 0 /\ b2 % n = 0
    <3>1. (b1 * b1 + b2 * b2) % n = 0
      BY <1>3, <2>1 DEF s
    <3> QED
      BY <1>1, <3>1, SumOfSquares
  <2>2. ASSUME b1 % n = 0, b2 % n = 0 PROVE nb = 0
    <3>1. Exceeds(b1, 0, n) /\ Exceeds(b2, 0, n)
      <4>1. Exceeds(b1, b1 % n, n)
        BY <1>1, Remainder
      <4>2. Exceeds(b2, b2 % n, n)
        BY <1>1, Remainder
      <4> QED
        BY <2>2, <4>1, <4>2
    <3>2. PICK k \in Int, l \in Int : b1 = 0 + n * k /\ b2 = 0 + n * l
      BY <3>1 DEF Exceeds
    <3> DEFINE m == n * (k * k) + n * (l * l)
    <3>3. m \in Int /\ s = n * m + 0
      BY <1>1, <3>2, Z3 DEF s
    <3> HIDE DEF m
    <3>4. 0 \in 0 .. n - 1
      BY <1>1
    <3>5. (n * m + 0) % n = 0
      BY <1>1, <3>3, <3>4, DivModUnique
    <3> QED
      BY <1>3, <3>3, <3>5
  <2> QED
    BY <2>1, <2>2
<1>10. v \in Int /\ w \in Int /\ i1 \in Nat /\ i2 \in Nat /\ i1 \in Int /\ i2 \in Int
       /\ b1 * v \in Int /\ w * v \in Int
  <2>1. v \in Int
    BY <1>1, <1>5, <1>7, Reduced
  <2>2. w \in Int
    <3>1. n - b2 \in Int
      BY <1>1
    <3> QED
      BY <1>1, <3>1, DivMod
  <2> HIDE DEF w
  <2>3. b1 * v \in Int /\ w * v \in Int
    BY <1>1, <2>1, <2>2, Z3
  <2>4. i1 \in 0 .. n - 1
    BY <1>1, <2>3, DivMod
  <2>5. i2 \in 0 .. n - 1
    BY <1>1, <2>3, DivMod
  <2> HIDE DEF i1, i2
  <2> QED
    BY <1>1, <2>1, <2>2, <2>3, <2>4, <2>5
<1>11. Exceeds(i1, b1 * v, n)
  <2> DEFINE e == b1 * v
  <2> HIDE DEF e
  <2>1. Exceeds(e, e % n, n)
    BY <1>1, <1>10, Remainder DEF e
  <2>2. PICK k \in Int : e = (e % n) + n * k
    BY <2>1 DEF Exceeds
  <2>3. e % n = i1
    BY DEF e
  <2> HIDE DEF i1
  <2>4. -k \in Int /\ i1 = e + n * (-k)
    BY <1>1, <1>10, <2>2, <2>3, Z3
  <2> QED
    BY <2>4 DEF Exceeds, e
<1>12. Exceeds(i2, (-b2) * v, n)
  <2> DEFINE d == n - b2
             e == w * v
  <2>1. d \in Int /\ e \in Int /\ d % n = w /\ e % n = i2
    BY <1>1, <1>10
  <2> HIDE DEF e, d
  <2>2. Exceeds(d, w, n)
    BY <1>1, <2>1, Remainder
  <2>3. Exceeds(e, i2, n)
    BY <1>1, <2>1, Remainder
  <2> HIDE DEF w, i2
  <2>4. PICK k \in Int, l \in Int : d = w + n * k /\ e = i2 + n * l
    BY <2>2, <2>3 DEF Exceeds
  <2> DEFINE c == v - k * v - l
  <2>5. c \in Int /\ i2 = (-b2) * v + n * c
    <3>1. w = n - b2 - n * k /\ i2 = w * v - n * l
      BY <1>1, <1>10, <2>4, Z3 DEF d, e
    <3> QED
      BY <1>1, <1>10, <3>1, Z3
  <2> HIDE DEF c
  <2> QED
    BY <2>5 DEF Exceeds
<1>13. nb # 0 => Exceeds((b1 * b1 + b2 * b2) * v, 1, n)
  <2> SUFFICES ASSUME nb # 0 PROVE Exceeds((b1 * b1 + b2 * b2) * v, 1, n)
    OBVIOUS
  <2> DEFINE e == s * v
             d == nb * v
  <2>1. d \in Int /\ d % n = 1
    BY <1>5, <1>6, <1>7, <1>10, Z3
  <2> HIDE DEF d
  <2>2. Exceeds(d, 1, n)
    BY <1>1, <2>1, Remainder
  <2>3. Exceeds(s, nb, n)
    BY <1>1, <1>3, Remainder
  <2>4. PICK k \in Int, l \in Int : d = 1 + n * k /\ s = nb + n * l
    BY <2>2, <2>3 DEF Exceeds
  <2> DEFINE c == k + l * v
  <2>5. c \in Int /\ s * v = 1 + n * c
    <3>1. nb * v = 1 + n * k
      BY <2>4 DEF d
    <3> QED
      BY <1>1, <1>3, <1>6, <1>10, <2>4, <3>1, Z3
  <2> HIDE DEF c
  <2> QED
    BY <2>5 DEF Exceeds, s
<1>14. ASSUME nb # 0
       PROVE  Complex!Times(<<q1, q2>>, <<b1 % n, b2 % n>>) = <<a1 % n, a2 % n>>
  <2> HIDE DEF i1, i2
  <2>1. e1 \in Int /\ e2 \in Int
    BY <1>1, <1>10, Z3
  <2>2. /\ Exceeds(e1 * b1 - e2 * b2, a1, n)
        /\ Exceeds(e1 * b2 + e2 * b1, a2, n)
    BY <1>1, <1>10, <1>11, <1>12, <1>13, <1>14, QuotientTimes
  <2> HIDE DEF e1, e2
  <2>3. Complex!Times(<<q1, q2>>, <<b1 % n, b2 % n>>)
          = <<(e1 * b1 - e2 * b2) % n, (e1 * b2 + e2 * b1) % n>>
    <3> HIDE DEF e1, e2
    <3>1. Complex!Times(<<e1 % ComplexP, e2 % ComplexP>>, <<b1 % ComplexP, b2 % ComplexP>>)
            = <<(e1 * b1 - e2 * b2) % ComplexP, (e1 * b2 + e2 * b1) % ComplexP>>
      BY <1>1, <2>1, TimesReduced
    <3> QED
      BY <3>1 DEF n
  <2> DEFINE t1 == e1 * b1 - e2 * b2
             t2 == e1 * b2 + e2 * b1
  <2>4. t1 \in Int /\ t2 \in Int
    BY <1>1, <2>1, Z3
  <2> HIDE DEF t1, t2
  <2>5. t1 % n = a1 % n
    BY <1>1, <2>2, <2>4, Shifted DEF t1
  <2>6. t2 % n = a2 % n
    BY <1>1, <2>2, <2>4, Shifted DEF t2
  <2> QED
    BY <2>3, <2>5, <2>6 DEF t1, t2
<1> QED
  BY <1>8, <1>9, <1>10, <1>14, Zenon DEF n, nb, v

\* Every instruction is the one of the field of p^2 elements.
LEMMA ComplexStepsField ==
    ASSUME cells \in [Cell -> Nat \X Nat], Complex!Next
    PROVE  Complex!ComplexModP!Next /\ cells' \in [Cell -> Nat \X Nat]
<1>1. PICK op \in {"add", "sub", "mul", "div", "iseq"},
           out \in Cell, i \in Cell, j \in Cell :
        insn' = <<op, out, i, j>> /\ Complex!handle_complex(op, out, cells[i], cells[j])
  BY DEF Complex!Next
<1> DEFINE n == ComplexP
           m1 == cells[i][1]
           m2 == cells[i][2]
           n1 == cells[j][1]
           n2 == cells[j][2]
           val == [c \in Cell |-> <<cells[c][1] % ComplexP, cells[c][2] % ComplexP>>]
           F == Complex!Field
<1>2. /\ m1 \in Nat /\ m2 \in Nat /\ n1 \in Nat /\ n2 \in Nat
      /\ m1 \in Int /\ m2 \in Int /\ n1 \in Int /\ n2 \in Int
      /\ cells[i] = <<m1, m2>> /\ cells[j] = <<n1, n2>>
      /\ val[i] = <<m1 % n, m2 % n>> /\ val[j] = <<n1 % n, n2 % n>>
  OBVIOUS
<1>3. \A k \in Int : k % n \in F
  BY ComplexPrime, Reduced DEF Complex!Field
<1>4. ASSUME Complex!ComplexModP!Execute(op, out, i, j)
      PROVE  Complex!ComplexModP!Next
  <2>1. insn'[1] = op /\ insn'[2] = out /\ insn'[3] = i /\ insn'[4] = j
    BY <1>1
  <2>2. insn' \in {"add", "sub", "mul", "div", "iseq"} \X Cell \X Cell \X Cell
    BY <1>1
  <2>3. outcome = "running"
    BY DEF Complex!Next
  <2> QED
    BY <1>4, <2>1, <2>2, <2>3
    DEF Complex!ComplexModP!Next, Complex!ComplexModP!Execute, Complex!ComplexModP!Put,
        Complex!ComplexModP!Divide, Complex!ComplexModP!DivideByZero,
        Complex!ComplexModP!Fail, Complex!ComplexModP!Panic, Complex!ComplexModP!IsEq
\* Reduced coordinates are put.
<1>5. ASSUME NEW r \in Int, NEW s \in Int, Complex!Write(out, r % n, s % n)
      PROVE  /\ cells' \in [Cell -> Nat \X Nat]
             /\ \E q \in F \X F : /\ q = <<r % n, s % n>>
                                  /\ Complex!ComplexModP!Put(out, q)
  <2>1. PICK x \in F, y \in F : x = r % n /\ y = s % n
    BY <1>3
  <2>2. Complex!Write(out, x, y)
    BY <1>5, <2>1 DEF Complex!Write
  <2>3. Complex!ComplexModP!Put(out, <<x, y>>) /\ cells' \in [Cell -> Nat \X Nat]
    BY <2>2, PutsReducedPair
  <2> QED
    BY <2>1, <2>3
<1>6. CASE op = "add"
  <2>1. Complex!Write(out, (m1 + n1) % n, (m2 + n2) % n)
    BY <1>1, <1>2, <1>6 DEF Complex!handle_complex, Complex!ADD
  <2>2. <<(m1 + n1) % n, (m2 + n2) % n>> = Complex!Plus(val[i], val[j])
    <3> HIDE DEF m1, m2, n1, n2, val
    <3>1. /\ ((m1 % n) + (n1 % n)) % n = (m1 + n1) % n
          /\ ((m2 % n) + (n2 % n)) % n = (m2 + n2) % n
      BY <1>2, ComplexPrime, Reduced, ZenonT(30)
    <3> QED
      BY <1>2, <3>1 DEF Complex!Plus
  <2>3. PICK q \in F \X F : /\ q = <<(m1 + n1) % n, (m2 + n2) % n>>
                            /\ Complex!ComplexModP!Put(out, q)
                            /\ cells' \in [Cell -> Nat \X Nat]
    BY <1>2, <1>5, <2>1
  <2>4. Complex!ComplexModP!Put(out, Complex!Plus(val[i], val[j]))
    BY <2>2, <2>3 DEF Complex!ComplexModP!Put
  <2> QED
    BY <1>4, <1>6, <2>3, <2>4 DEF Complex!ComplexModP!Execute
<1>7. CASE op = "sub"
  <2>1. CASE Complex!sub_underflows(m1, n1) \/ Complex!sub_underflows(m2, n2)
    <3>1. n1 \notin F \/ n2 \notin F
      BY <1>2, <2>1, SubtractsPairs
    <3>2. cells[j] \notin F \X F
      BY <1>2, <3>1
    <3>3. Complex!End("panic")
      BY <1>1, <1>2, <1>7, <2>1 DEF Complex!handle_complex, Complex!SUB
    <3>4. Complex!ComplexModP!Panic(i, j) /\ cells' \in [Cell -> Nat \X Nat]
      BY <3>2, <3>3
      DEF Complex!End, Complex!ComplexModP!Panic, Complex!ComplexModP!Fail
    <3> QED
      BY <1>4, <1>7, <3>4 DEF Complex!ComplexModP!Execute
  <2>2. CASE ~(Complex!sub_underflows(m1, n1) \/ Complex!sub_underflows(m2, n2))
    <3>1. Complex!Write(out, Complex!mod_sub(m1, n1), Complex!mod_sub(m2, n2))
      BY <1>1, <1>2, <1>7, <2>2 DEF Complex!handle_complex, Complex!SUB
    <3> DEFINE r == (m1 % n) - (n1 % n)
               s == (m2 % n) - (n2 % n)
    <3>2. Complex!mod_sub(m1, n1) = r % n /\ Complex!mod_sub(m2, n2) = s % n
      BY <1>2, <2>2, SubtractsPairs
    <3>3. r \in Int /\ s \in Int
      <4> HIDE DEF m1, m2, n1, n2
      <4>1. m1 % n \in Int /\ m2 % n \in Int /\ n1 % n \in Int /\ n2 % n \in Int
        BY <1>2, ComplexPrime, Reduced
      <4> QED
        BY <4>1
    <3>4. <<r % n, s % n>> = Complex!Minus(val[i], val[j])
      BY <1>2 DEF Complex!Minus
    <3> HIDE DEF r, s
    <3>5. Complex!Write(out, r % n, s % n)
      BY <3>1, <3>2 DEF Complex!Write
    <3>6. PICK q \in F \X F : /\ q = <<r % n, s % n>>
                              /\ Complex!ComplexModP!Put(out, q)
                              /\ cells' \in [Cell -> Nat \X Nat]
      BY <1>5, <3>3, <3>5
    <3>7. Complex!ComplexModP!Put(out, Complex!Minus(val[i], val[j]))
      BY <3>4, <3>6 DEF Complex!ComplexModP!Put
    <3> QED
      BY <1>4, <1>7, <3>6, <3>7 DEF Complex!ComplexModP!Execute
  <2> QED
    BY <2>1, <2>2
<1>8. CASE op = "mul"
  <2> DEFINE pre == m1 * n1
             neg == m2 * n2
             c1  == m1 * n2 + m2 * n1
  <2>1. pre \in Nat /\ neg \in Nat /\ c1 \in Nat /\ pre - neg \in Int /\ c1 \in Int
    <3> HIDE DEF m1, m2, n1, n2
    <3>1. pre \in Nat /\ neg \in Nat /\ m1 * n2 \in Nat /\ m2 * n1 \in Nat
      BY <1>2, Z3
    <3> QED
      BY <3>1
  <2>2. Complex!WriteProduct(out, pre, neg, c1)
    BY <1>1, <1>2, <1>8 DEF Complex!handle_complex, Complex!MUL
  <2>3. <<(pre - neg) % n, c1 % n>> = Complex!Times(val[i], val[j])
    <3> HIDE DEF m1, m2, n1, n2, val
    <3>1. Complex!Times(<<m1 % ComplexP, m2 % ComplexP>>, <<n1 % ComplexP, n2 % ComplexP>>)
            = <<(m1 * n1 - m2 * n2) % ComplexP, (m1 * n2 + m2 * n1) % ComplexP>>
      BY <1>2, TimesReduced
    <3> QED
      BY <1>2, <3>1
  <2> HIDE DEF pre, neg, c1
  <2>4. Complex!Write(out, (pre - neg) % n, c1 % n)
    <3>1. PICK x, y, z \in Nat : x = pre /\ y = neg /\ z = c1
      BY <2>1
    <3>2. Complex!WriteProduct(out, x, y, z)
      BY <2>2, <3>1 DEF Complex!WriteProduct, Complex!Write, Complex!End
    <3>3. Complex!Write(out, (x - y) % ComplexP, z % ComplexP)
      BY <3>2, ProductWritten
    <3> QED
      BY <3>1, <3>3 DEF Complex!Write
  <2>5. PICK q \in F \X F : /\ q = <<(pre - neg) % n, c1 % n>>
                            /\ Complex!ComplexModP!Put(out, q)
                            /\ cells' \in [Cell -> Nat \X Nat]
    BY <1>5, <2>1, <2>4
  <2>6. Complex!ComplexModP!Put(out, Complex!Times(val[i], val[j]))
    BY <2>3, <2>5 DEF Complex!ComplexModP!Put
  <2> QED
    BY <1>4, <1>8, <2>5, <2>6 DEF Complex!ComplexModP!Execute
<1>9. CASE op = "div"
  <2> DEFINE nb == Complex!norm(<<n1, n2>>)
             v  == Complex!mod_inv(nb)
             i1 == (n1 * v) % n
             i2 == (((n - n2) % n) * v) % n
             pre == m1 * i1
             neg == m2 * i2
             c1  == m1 * i2 + m2 * i1
  <2>1. /\ Complex!invertible(nb) <=> ~(n1 % n = 0 /\ n2 % n = 0)
        /\ i1 \in Nat /\ i2 \in Nat
        /\ Complex!invertible(nb) =>
             Complex!Times(<<(pre - neg) % n, c1 % n>>, val[j]) = val[i]
    <3> HIDE DEF m1, m2, n1, n2, val
    <3>1. /\ Complex!invertible(nb) <=> ~(n1 % n = 0 /\ n2 % n = 0)
          /\ i1 \in Nat /\ i2 \in Nat
          /\ Complex!invertible(nb) =>
               Complex!Times(<<(pre - neg) % n, c1 % n>>, <<n1 % n, n2 % n>>)
                 = <<m1 % n, m2 % n>>
      <4> USE <1>2
      <4> QED
        BY DividesPairs
    <3> QED
      BY <1>2, <3>1
  <2>2. Complex!DIV(out, <<m1, m2>>, <<n1, n2>>)
    BY <1>1, <1>2, <1>9 DEF Complex!handle_complex
  <2>3. CASE ~Complex!invertible(nb)
    <3>1. Complex!End("CustomOp")
      BY <2>2, <2>3 DEF Complex!DIV
    <3>2. val[j] = <<0, 0>>
      BY <1>2, <2>1, <2>3
    <3>3. Complex!ComplexModP!DivideByZero(j) /\ cells' \in [Cell -> Nat \X Nat]
      BY <3>1, <3>2
      DEF Complex!End, Complex!ComplexModP!DivideByZero, Complex!ComplexModP!Fail
    <3> QED
      BY <1>4, <1>9, <3>3 DEF Complex!ComplexModP!Execute
  <2>4. CASE Complex!invertible(nb) /\ n2 > n
    <3>1. Complex!End("panic")
      BY <2>2, <2>4 DEF Complex!DIV
    <3>2. cells[j] \notin F \X F
      BY <1>2, <2>4, ComplexPrime DEF Complex!Field
    <3>3. Complex!ComplexModP!Panic(j, j) /\ cells' \in [Cell -> Nat \X Nat]
      BY <3>1, <3>2
      DEF Complex!End, Complex!ComplexModP!Panic, Complex!ComplexModP!Fail
    <3> QED
      BY <1>4, <1>9, <3>3 DEF Complex!ComplexModP!Execute
  <2>5. CASE Complex!invertible(nb) /\ ~(n2 > n)
    <3>1. Complex!WriteProduct(out, pre, neg, c1)
      BY <2>2, <2>5 DEF Complex!DIV
    <3>2. pre \in Nat /\ neg \in Nat /\ c1 \in Nat /\ pre - neg \in Int /\ c1 \in Int
      <4> HIDE DEF m1, m2, i1, i2
      <4>1. pre \in Nat /\ neg \in Nat /\ m1 * i2 \in Nat /\ m2 * i1 \in Nat
        BY <1>2, <2>1, Z3
      <4> QED
        BY <4>1
    <3>3. Complex!Times(<<(pre - neg) % n, c1 % n>>, val[j]) = val[i]
      BY <2>1, <2>5
    <3> HIDE DEF pre, neg, c1
    <3>4. Complex!Write(out, (pre - neg) % n, c1 % n)
      <4>1. PICK x, y, z \in Nat : x = pre /\ y = neg /\ z = c1
        BY <3>2
      <4>2. Complex!WriteProduct(out, x, y, z)
        BY <3>1, <4>1 DEF Complex!WriteProduct, Complex!Write, Complex!End
      <4>3. Complex!Write(out, (x - y) % ComplexP, z % ComplexP)
        BY <4>2, ProductWritten
      <4> QED
        BY <4>1, <4>3 DEF Complex!Write
    <3>5. PICK q \in F \X F : /\ q = <<(pre - neg) % n, c1 % n>>
                              /\ Complex!ComplexModP!Put(out, q)
                              /\ cells' \in [Cell -> Nat \X Nat]
      BY <1>5, <3>2, <3>4
    <3>6. val[j] # <<0, 0>>
      BY <1>2, <2>1, <2>5
    <3>7. Complex!ComplexModP!Divide(out, i, j)
      BY <3>3, <3>5, <3>6 DEF Complex!ComplexModP!Divide
    <3> QED
      BY <1>4, <1>9, <3>5, <3>7 DEF Complex!ComplexModP!Execute
  <2> QED
    BY <2>3, <2>4, <2>5
<1>10. CASE op = "iseq"
  <2>1. Complex!IS_EQ(cells[i], cells[j])
    BY <1>1, <1>10 DEF Complex!handle_complex
  <2>2. val[i] = val[j] <=> \A k \in 1 .. 2 : cells[i][k] % n = cells[j][k] % n
    OBVIOUS
  <2>3. Complex!ComplexModP!IsEq(i, j) /\ cells' \in [Cell -> Nat \X Nat]
    BY <2>1, <2>2 DEF Complex!IS_EQ, Complex!ComplexModP!IsEq
  <2> QED
    BY <1>4, <1>10, <2>3 DEF Complex!ComplexModP!Execute
<1> QED
  BY <1>1, <1>6, <1>7, <1>8, <1>9, <1>10

\* The cells hold pairs of naturals.
ComplexInv == chip = "fp2" => cells \in [Cell -> Nat \X Nat]

\* For every prime modulus that is 3 modulo 4, the complex precompiles
\* (handle_complex) take the steps of the field of its pairs.
THEOREM ComplexIsField == Spec => ImplementsComplexField
<1>1. ASSUME Init
      PROVE  ComplexInv /\ (chip = "fp2" => Complex!ComplexModP!Init)
  <2> SUFFICES ASSUME chip = "fp2"
               PROVE  cells \in [Cell -> Nat \X Nat] /\ Complex!ComplexModP!Init
    BY DEF ComplexInv
  <2>1. Complex!Init
    BY <1>1 DEF Init
  <2>2. cells \in [Cell -> Nat \X Nat]
    <3>1. cells \in [Cell -> Coordinate \X Coordinate] /\ Coordinate \subseteq Nat
      BY <2>1, ComplexPrime DEF Complex!Init
    <3>2. Coordinate \X Coordinate \subseteq Nat \X Nat
      BY <3>1
    <3> QED
      BY <3>1, <3>2
  <2>3. \A c \in Cell : /\ cells[c][1] % ComplexP \in Complex!Field
                        /\ cells[c][2] % ComplexP \in Complex!Field
    <3>1. \A c \in Cell : cells[c][1] \in Int /\ cells[c][2] \in Int
      BY <2>2
    <3> QED
      BY <3>1, ComplexPrime, Reduced DEF Complex!Field
  <2> QED
    BY <2>1, <2>2, <2>3 DEF Complex!Init, Complex!ComplexModP!Init
<1>2. ASSUME ComplexInv, [Next]_vars
      PROVE  ComplexInv' /\ [chip = "fp2" => Complex!ComplexModP!Next]_vars
  <2>1. CASE UNCHANGED vars
    BY <1>2, <2>1 DEF ComplexInv, vars
  <2>2. CASE Next
    <3>1. chip' = chip /\ (chip = "fp2" => Complex!Next)
      BY <2>2 DEF Next, AluStep, Int256Step, ModularStep, Fp2Step, CurveStep
    <3> QED
      BY <1>2, <3>1, ComplexStepsField DEF ComplexInv
  <2> QED
    BY <1>2, <2>1, <2>2
<1> QED
  BY <1>1, <1>2, PTL DEF Spec, ImplementsComplexField

-----------------------------------------------------------------------------
\* What the assumptions say of the curve.
LEMMA CurvePrime ==
    /\ Prime(CurveP) /\ CurveP \in Nat \ {0} /\ CurveP > 2 /\ CurveP >= 2 /\ CurveP % 4 = 3
    /\ CurveLimit \in Nat /\ CurveA \in Int /\ CurveB \in Int
    /\ \A i \in Points!Field : Points!rhs(i) # 0
<1>1. Points!ModulusAssumption /\ Points!CurveAssumption
  BY ArithmeticAssumption
<1>2. CurveP \in Nat /\ CurveP >= 2 /\ CurveLimit \in Nat
  BY <1>1 DEF Points!ModulusAssumption
<1>3. CurveP # 2
  <2>1. CurveP % 4 = 3
    BY <1>1 DEF Points!CurveAssumption
  <2> QED
    BY <2>1
<1>4. CurveA \in Int /\ CurveB \in Int
  BY <1>1, <1>2 DEF Points!CurveAssumption, Points!Field
<1> QED
  BY <1>1, <1>2, <1>3, <1>4 DEF Points!ModulusAssumption, Points!CurveAssumption, Prime

\* Power computes powers modulo the modulus of the curve.
LEMMA PowerIsPow ==
    ASSUME NEW n \in Int, NEW k \in Nat
    PROVE  Points!Power(n, k) = Pow(n, k) % CurveP
<1> DEFINE g == CHOOSE g : Multiplies(g, n, CurveP, k)
<1>1. CurveP \in Nat /\ CurveP >= 2
  BY CurvePrime
<1>2. Multiplies(g, n, CurveP, k)
  BY <1>1, Multiply
<1>3. Points!Power(n, k) = g[k]
  BY DEF Points!Power, Multiplies
<1> QED
  BY <1>1, <1>2, <1>3, Multiply

\* The right side of the equation is the same for the reduced abscissa.
LEMMA RhsReduced ==
    ASSUME NEW i \in Nat
    PROVE  /\ Points!rhs(i) \in Points!Field /\ Points!rhs(i) \in Int
           /\ Points!rhs(i) # 0 /\ Points!rhs(i) % CurveP = Points!rhs(i)
<1> DEFINE n == CurveP
           side(k) == ((((k * k) % n) * k) % n) + ((CurveA * k) % n) + CurveB
<1>1. n \in Nat \ {0} /\ i \in Int /\ CurveA \in Int /\ CurveB \in Int
  BY CurvePrime
<1> HIDE DEF n
<1>2. ASSUME NEW k \in Int
      PROVE  /\ (k * k) % n \in Int /\ Same((k * k) % n, k * k, n) /\ k * k \in Int
             /\ ((k * k) % n) * k \in Int
             /\ (((k * k) % n) * k) % n \in Int
             /\ Same((((k * k) % n) * k) % n, (k * k) * k, n)
             /\ (k * k) * k \in Int /\ CurveA * k \in Int
             /\ (CurveA * k) % n \in Int /\ Same((CurveA * k) % n, CurveA * k, n)
             /\ side(k) \in Int
  <2> DEFINE kk == k * k
             r == kk % n
             v == r * k
             ak == CurveA * k
  <2>1. kk \in Int /\ ak \in Int /\ kk * k \in Int
    BY <1>1, Z3
  <2>2. r \in Int /\ Same(r, kk, n) /\ ak % n \in Int /\ Same(ak % n, ak, n)
    <3> HIDE DEF kk, ak
    <3> QED
      BY <1>1, <2>1, SameRemainder
  <2> HIDE DEF r
  <2>3. v \in Int
    BY <2>2, Z3
  <2>4. v % n \in Int /\ Same(v % n, v, n)
    <3> HIDE DEF v
    <3> QED
      BY <1>1, <2>3, SameRemainder
  <2>5. Same(v, kk * k, n)
    <3>1. Same(k, k, n)
      BY DEF Same
    <3> HIDE DEF kk
    <3> QED
      BY <1>1, <2>1, <2>2, <3>1, SameResults
  <2>6. Same(v % n, kk * k, n)
    BY <2>4, <2>5 DEF Same
  <2>7. side(k) \in Int
    <3> DEFINE w == v % n
               o == ak % n
    <3>1. w \in Int /\ o \in Int /\ side(k) = w + o + CurveB
      BY <2>2, <2>4 DEF r
    <3> HIDE DEF w, o, side
    <3> QED
      BY <1>1, <3>1
  <2> HIDE DEF side
  <2> QED
    BY <2>1, <2>2, <2>3, <2>4, <2>6, <2>7 DEF r
<1>3. ASSUME NEW k \in Int
      PROVE  Same(side(k), (k * k) * k + CurveA * k + CurveB, n)
  <2> DEFINE w == (((k * k) % n) * k) % n
             o == (CurveA * k) % n
             w2 == (k * k) * k
             o2 == CurveA * k
  <2>1. w \in Int /\ o \in Int /\ w2 \in Int /\ o2 \in Int /\ Same(w, w2, n) /\ Same(o, o2, n)
    BY <1>2
  <2>2. side(k) = (w + o) + CurveB
    OBVIOUS
  <2> HIDE DEF w, o, w2, o2, side
  <2>3. w + o \in Int /\ w2 + o2 \in Int /\ Same(CurveB, CurveB, n)
    BY <2>1 DEF Same
  <2>4. Same(w + o, w2 + o2, n)
    BY <1>1, <2>1, SameResults
  <2>5. Same((w + o) + CurveB, (w2 + o2) + CurveB, n)
    BY <1>1, <2>3, <2>4, SameResults
  <2> QED
    BY <2>2, <2>5 DEF w2, o2
<1> DEFINE d == i % n
<1>4. d \in Int /\ d \in 0 .. n - 1 /\ Same(d, i, n)
  BY <1>1, SameRemainder
<1>5. Same((d * d) * d + CurveA * d + CurveB, (i * i) * i + CurveA * i + CurveB, n)
  <2> DEFINE dd == d * d
             ii == i * i
             d3 == dd * d
             i3 == ii * i
             ad == CurveA * d
             ai == CurveA * i
  <2> HIDE DEF d
  <2>1. dd \in Int /\ ii \in Int /\ d3 \in Int /\ i3 \in Int /\ ad \in Int /\ ai \in Int
    BY <1>1, <1>4, Z3
  <2>2. Same(dd, ii, n)
    BY <1>1, <1>4, SameResults
  <2>3. Same(ad, ai, n)
    <3>1. Same(CurveA, CurveA, n)
      BY DEF Same
    <3> QED
      BY <1>1, <1>4, <3>1, SameResults
  <2> HIDE DEF dd, ii
  <2>4. Same(d3, i3, n)
    BY <1>1, <1>4, <2>1, <2>2, SameResults
  <2> HIDE DEF d3, i3, ad, ai
  <2>5. Same(d3 + ad, i3 + ai, n) /\ d3 + ad \in Int /\ i3 + ai \in Int
        /\ Same(CurveB, CurveB, n)
    <3>1. d3 + ad \in Int /\ i3 + ai \in Int
      BY <2>1
    <3>2. Same(d3 + ad, i3 + ai, n)
      BY <1>1, <2>1, <2>3, <2>4, SameResults
    <3>3. Same(CurveB, CurveB, n)
      BY DEF Same
    <3> QED
      BY <3>1, <3>2, <3>3
  <2>6. Same((d3 + ad) + CurveB, (i3 + ai) + CurveB, n)
    BY <1>1, <2>5, SameResults
  <2> QED
    BY <2>6 DEF d3, i3, ad, ai, dd, ii
<1>6. Same(side(i), side(d), n)
  <2>1. Same(side(i), (i * i) * i + CurveA * i + CurveB, n)
    <3> HIDE DEF side
    <3> QED
      BY <1>1, <1>3
  <2>2. Same(side(d), (d * d) * d + CurveA * d + CurveB, n)
    <3> HIDE DEF side, d
    <3> QED
      BY <1>4, <1>3
  <2> HIDE DEF side, d
  <2> QED
    BY <1>5, <2>1, <2>2 DEF Same
<1>7. Points!rhs(i) = side(i) % n /\ Points!rhs(d) = side(d) % n
  <2> HIDE DEF d
  <2> QED
    BY DEF Points!rhs, n
<1>8. side(i) \in Int
  <2> HIDE DEF side
  <2> QED
    BY <1>1, <1>2
<1> HIDE DEF side, d
<1>9. Points!rhs(i) \in 0 .. n - 1 /\ Points!rhs(i) \in Int
  BY <1>1, <1>7, <1>8, SameRemainder
<1>10. Points!rhs(i) % n = Points!rhs(i)
  BY <1>1, <1>9, Remainders
<1>11. Points!rhs(d) # 0
  BY <1>4, CurvePrime DEF n, Points!Field
<1>12. Points!rhs(i) # 0
  BY <1>6, <1>7, <1>11 DEF Same
<1> QED
  BY <1>9, <1>10, <1>12 DEF n, Points!Field

-----------------------------------------------------------------------------
\* The first round of tonelli_shanks finds the root of a square.
LEMMA RootFound ==
    ASSUME NEW n \in Points!Field, n # 0, Points!is_square(n)
    PROVE  LET y == Points!tonelli_shanks(n)
           IN  y \in 1 .. CurveP - 1 /\ (y * y) % CurveP = n
<1> DEFINE h == HalfPower(CurveP)
           j == (CurveP + 1) \div 4
           y == Points!tonelli_shanks(n)
<1>1. /\ Prime(CurveP) /\ CurveP > 2 /\ CurveP \in Nat \ {0} /\ CurveP % 4 = 3
      /\ n \in Int /\ h \in Nat /\ h = (CurveP - 1) \div 2 /\ CurveP - 1 = 2 * h
      /\ j \in Nat /\ (h + 1) \div 2 = j /\ n % CurveP = n /\ CurveP \in Nat
  <2>1. Prime(CurveP) /\ CurveP > 2 /\ CurveP \in Nat \ {0} /\ CurveP % 4 = 3
    BY CurvePrime
  <2>2. h \in Nat /\ CurveP - 1 = 2 * h /\ h = (CurveP - 1) \div 2
    BY <2>1, Halved DEF HalfPower
  <2>3. n \in Int /\ n % CurveP = n
    BY <2>1, Remainders DEF Points!Field
  <2>4. j \in Nat /\ (h + 1) \div 2 = j
    <3> HIDE DEF h
    <3> QED
      BY <2>1, <2>2
  <2> QED
    BY <2>1, <2>2, <2>3, <2>4
<1> HIDE DEF h, j
<1>2. y = Pow(n, j) % CurveP
  BY <1>1, PowerIsPow DEF Points!tonelli_shanks
<1>3. Pow(n, h) % CurveP = 1
  BY <1>1, PowerIsPow DEF Points!is_square
<1>4. /\ y \in 0 .. CurveP - 1
      /\ (y * y) % CurveP = n % CurveP \/ Same(Pow(n, h), -1, CurveP)
  <2> HIDE DEF y
  <2> QED
    BY <1>1, <1>2, FastRoot DEF h, j
<1>5. ~ Same(Pow(n, h), -1, CurveP)
  <2>1. (-1) % CurveP = CurveP - 1
    BY <1>1, Signs2
  <2> QED
    BY <1>1, <1>3, <2>1 DEF Same
<1>6. y # 0
  <2> SUFFICES ASSUME y = 0 PROVE FALSE
    OBVIOUS
  <2>1. 0 % CurveP = 0 /\ 0 * 0 = 0
    <3>1. 0 \in 0 .. CurveP - 1
      BY <1>1
    <3> QED
      BY <1>1, <3>1, Remainders
  <2> HIDE DEF y
  <2> QED
    BY <1>1, <1>4, <1>5, <2>1
<1> HIDE DEF y
<1> QED
  BY <1>1, <1>4, <1>5, <1>6 DEF y

\* The root with the parity asked for.
LEMMA RootOfParity ==
    ASSUME NEW i \in Nat, NEW parity \in Nat, Points!is_square(Points!rhs(i))
    PROVE  LET y == Points!final_y(i, parity)
           IN  y \in Points!Field /\ (y * y) % CurveP = Points!rhs(i) /\ y % 2 = parity % 2
<1> DEFINE n == CurveP
           y == Points!tonelli_shanks(Points!rhs(i))
           z == n - y
<1>1. n \in Nat \ {0} /\ n % 2 = 1 /\ n \in Int
  <2>1. n \in Nat \ {0} /\ n % 4 = 3
    BY CurvePrime
  <2> HIDE DEF n
  <2> QED
    BY <2>1
<1>2. y \in 1 .. n - 1 /\ (y * y) % n = Points!rhs(i) /\ y \in Int
  <2>1. y \in 1 .. n - 1 /\ (y * y) % n = Points!rhs(i)
    BY RhsReduced, RootFound
  <2> HIDE DEF y, n
  <2> QED
    BY <2>1
<1>3. Points!final_y(i, parity) = IF y % 2 = parity % 2 THEN y ELSE z
  BY DEF Points!final_y
<1> HIDE DEF n, y
<1>4. z \in 1 .. n - 1 /\ (z * z) % n = (y * y) % n
  <2> DEFINE yy == y * y
             k == n - 2 * y
  <2>1. k \in Int /\ yy \in Int /\ z * z = yy + n * k
    BY <1>1, <1>2, Z3
  <2>2. z \in 1 .. n - 1
    BY <1>1, <1>2
  <2> HIDE DEF yy, k, z
  <2>3. (yy + n * k) % n = yy % n
    BY <1>1, <2>1, Congruent
  <2> QED
    BY <2>1, <2>2, <2>3 DEF yy
<1>5. y % 2 # parity % 2 => z % 2 = parity % 2
  BY <1>1, <1>2
<1> HIDE DEF z
<1>6. y \in 0 .. n - 1 /\ z \in 0 .. n - 1
  BY <1>1, <1>2, <1>4
<1> QED
  BY <1>2, <1>3, <1>4, <1>5, <1>6 DEF Points!Field, n

\* The curve's client: its buffers, and a non-residue once it was asked for.
CurveInv ==
    chip = "curve" =>
       /\ DOMAIN cells = Cell
       /\ insn # <<>> /\ insn[1] = "non_qr" => outcome = "running" /\ answer # 0
       /\ answer # 0 => /\ answer \in Int /\ answer % CurveP # 0
                        /\ Same(Pow(answer, HalfPower(CurveP)), -1, CurveP)

\* Asked for a point, the client has the one with that parity, or there is none.
LEMMA Decompressed ==
    ASSUME CurveInv, chip = "curve", NEW out \in Cell, NEW i \in Points!Number,
           NEW parity \in Points!Parities, Points!SW_HINT_DECOMPRESS(out, i, parity)
    PROVE  LET points == { y \in Points!Field : Points!OnCurve(<<i, y>>) /\ y % 2 = parity % 2 }
           IN  IF points = {} THEN outcome' = "CustomOp"
               ELSE \E y \in points : cells'[out] = <<i, y>>
<1> DEFINE points == { y \in Points!Field : Points!OnCurve(<<i, y>>) /\ y % 2 = parity % 2 }
           n == Points!rhs(i)
<1>1. i \in Nat /\ parity \in Nat
  BY CurvePrime DEF Points!Number, Points!Parities
<1>2. \A y : Points!OnCurve(<<i, y>>) <=> (y * y) % CurveP = n
  BY DEF Points!OnCurve
<1>3. CASE Points!is_square(n)
  <2> DEFINE y == Points!final_y(i, parity)
  <2>1. y \in Points!Field /\ (y * y) % CurveP = n /\ y % 2 = parity % 2
    BY <1>1, <1>3, RootOfParity
  <2>2. y \in points
    <3> HIDE DEF n, y
    <3> QED
      BY <1>2, <2>1
  <2>3. cells' = [cells EXCEPT ![out] = <<i, y>>]
    BY <1>3 DEF Points!SW_HINT_DECOMPRESS, Points!Write
  <2>4. out \in DOMAIN cells
    BY DEF CurveInv
  <2> HIDE DEF y, points
  <2>5. cells'[out] = <<i, y>>
    BY <2>3, <2>4
  <2> QED
    BY <2>2, <2>5 DEF points
<1>4. CASE ~ Points!is_square(n)
  <2>1. ASSUME NEW y \in Points!Field, (y * y) % CurveP = n PROVE FALSE
    <3>1. y \in Int /\ n \in Int /\ n # 0 /\ n % CurveP = n /\ HalfPower(CurveP) \in Nat
          /\ Prime(CurveP) /\ CurveP > 2
      <4>1. y \in Int /\ HalfPower(CurveP) \in Nat
        BY CurvePrime, Halved DEF Points!Field, HalfPower
      <4> QED
        BY <1>1, <4>1, CurvePrime, RhsReduced
    <3> HIDE DEF n
    <3>2. Same(y * y, n, CurveP)
      BY <2>1, <3>1 DEF Same
    <3>3. Pow(n, HalfPower(CurveP)) % CurveP = 1
      BY <3>1, <3>2, Residue DEF HalfPower
    <3>4. Points!is_square(n)
      BY <3>1, <3>3, PowerIsPow DEF Points!is_square, HalfPower
    <3> QED
      BY <1>4, <3>4 DEF n
  <2>2. points = {}
    <3> HIDE DEF n
    <3> QED
      BY <1>2, <2>1
  <2>3. outcome' = "CustomOp"
    BY <1>4 DEF Points!SW_HINT_DECOMPRESS, Points!End
  <2> QED
    BY <2>2, <2>3
<1> QED
  BY <1>3, <1>4

\* The search for a non-residue ends, at P - 1 at the latest.
LEMMA NonResidueWritten ==
    LET n == Points!least_non_qr(2)
    IN  /\ \E i \in 2 .. CurveP - 1 : Points!is_non_qr(i)
        /\ n # 0 /\ n \in Int /\ n % CurveP # 0 /\ Same(Pow(n, HalfPower(CurveP)), -1, CurveP)
<1> DEFINE P == CurveP
           h == HalfPower(P)
           C == { i \in 2 .. P - 1 : Points!Power(i, h) = P - 1 }
<1>1. /\ P \in Nat /\ P \in Nat \ {0} /\ P > 2 /\ h \in Nat /\ h % 2 = 1
      /\ h = (P - 1) \div 2 /\ Prime(P)
  <2>1. Prime(P) /\ P > 2 /\ P \in Nat \ {0} /\ P % 4 = 3
    BY CurvePrime
  <2>2. h \in Nat /\ P - 1 = 2 * h /\ h = (P - 1) \div 2
    BY <2>1, Halved DEF HalfPower
  <2> HIDE DEF h, P
  <2> QED
    BY <2>1, <2>2
<1> HIDE DEF h
<1>2. ASSUME NEW i \in Int
      PROVE  Points!Power(i, h) = P - 1 <=> Same(Pow(i, h), -1, P)
  <2>1. Points!Power(i, h) = Pow(i, h) % P /\ Pow(i, h) \in Int
    BY <1>1, PowerIsPow, PowSteps
  <2> HIDE DEF P
  <2> QED
    BY <1>1, <2>1, Signs2
<1> HIDE DEF P
<1>3. P - 1 \in C
  <2>1. P - 1 \in Int /\ P - 1 \in 2 .. P - 1
    BY <1>1
  <2>2. Same(P - 1, -1, P)
    BY <1>1, <2>1, Signs2
  <2>3. Same(Pow(P - 1, h), -1, P)
    BY <1>1, <2>1, <2>2, MinusOnePowers
  <2> QED
    BY <1>2, <2>1, <2>3
<1>4. PICK k \in C : \A j \in C : k <= j
  <2>1. C \in SUBSET Nat /\ C # {}
    BY <1>3
  <2> HIDE DEF C
  <2> QED
    BY <2>1, Least
<1> DEFINE first(i) == /\ Points!Power(i, h) = P - 1
                       /\ \A j \in 2 .. i - 1 : Points!Power(j, h) # P - 1
           n == CHOOSE i \in 2 .. P - 1 : first(i)
<1>5. first(k) /\ k \in 2 .. P - 1
  <2>1. k \in 2 .. P - 1 /\ Points!Power(k, h) = P - 1
    OBVIOUS
  <2>2. ASSUME NEW j \in 2 .. k - 1 PROVE Points!Power(j, h) # P - 1
    <3>1. j \in 2 .. P - 1 /\ ~(k <= j)
      BY <1>1, <2>1
    <3> QED
      BY <1>4, <3>1
  <2> QED
    BY <2>1, <2>2
<1>6. n \in 2 .. P - 1 /\ first(n)
  <2> HIDE DEF first
  <2> QED
    BY <1>5
<1>7. Points!least_non_qr(2) = n
  BY <1>1 DEF Points!least_non_qr, Points!is_non_qr, P
<1> HIDE DEF n
<1>10. \E i \in 2 .. P - 1 : Points!is_non_qr(i)
  BY <1>1, <1>3 DEF Points!is_non_qr, P
<1>8. n \in Int /\ n \in 0 .. P - 1 /\ n # 0
  BY <1>1, <1>6
<1>9. n % P = n
  BY <1>1, <1>8, Remainders
<1> QED
  BY <1>2, <1>6, <1>7, <1>8, <1>9, <1>10 DEF P, h

\* The cells stay cells under every instruction on points.
LEMMA CurveKeeps == ASSUME CurveInv, chip = "curve", Points!Next, chip' = chip PROVE CurveInv'
<1>1. DOMAIN cells' = Cell
  <2>1. DOMAIN cells = Cell
    BY DEF CurveInv
  <2>2. \/ UNCHANGED cells
        \/ \E out \in Cell : \E point : cells' = [cells EXCEPT ![out] = point]
    BY DEF Points!Next, Points!SW_ADD_NE, Points!SW_DOUBLE, Points!SW_HINT_DECOMPRESS,
           Points!SW_HINT_NON_QR, Points!Write, Points!End
  <2> QED
    BY <2>1, <2>2
<1>2. answer' = answer \/ answer' = Points!least_non_qr(2)
  BY DEF Points!Next, Points!SW_ADD_NE, Points!SW_DOUBLE, Points!SW_HINT_DECOMPRESS,
         Points!SW_HINT_NON_QR, Points!Write, Points!End
<1>3. answer' # 0 => /\ answer' \in Int /\ answer' % CurveP # 0
                     /\ Same(Pow(answer', HalfPower(CurveP)), -1, CurveP)
  <2>1. CASE answer' = answer
    BY <2>1 DEF CurveInv
  <2>2. CASE answer' = Points!least_non_qr(2)
    <3> DEFINE n == Points!least_non_qr(2)
    <3>1. n \in Int /\ n % CurveP # 0 /\ Same(Pow(n, HalfPower(CurveP)), -1, CurveP)
      BY NonResidueWritten
    <3>2. answer' = n
      BY <2>2
    <3> HIDE DEF n
    <3> QED
      BY <3>1, <3>2
  <2> QED
    BY <1>2, <2>1, <2>2
<1>4. insn' # <<>> /\ insn'[1] = "non_qr" => outcome' = "running" /\ answer' # 0
  <2> SUFFICES ASSUME insn'[1] = "non_qr" PROVE outcome' = "running" /\ answer' # 0
    OBVIOUS
  <2>1. \E out \in Cell : Points!SW_HINT_NON_QR(out)
    <3>1. ASSUME NEW op \in {"add", "double", "decompress"}, NEW out, NEW m, NEW l,
                 Points!Issue(op, out, m, l)
          PROVE  FALSE
      <4>1. insn' = <<op, out, m, l>> /\ op # "non_qr"
        BY <3>1 DEF Points!Issue
      <4> QED
        BY <4>1
    <3>2. ~ \E out \in Cell, m \in Cell, l \in Cell : Points!SW_ADD_NE(out, m, l)
      BY <3>1 DEF Points!SW_ADD_NE
    <3>3. ~ \E out \in Cell, m \in Cell : Points!SW_DOUBLE(out, m)
      BY <3>1 DEF Points!SW_DOUBLE
    <3>4. ~ \E out \in Cell, i \in Points!Number, parity \in Points!Parities :
               Points!SW_HINT_DECOMPRESS(out, i, parity)
      BY <3>1 DEF Points!SW_HINT_DECOMPRESS
    <3> QED
      BY <3>2, <3>3, <3>4, Zenon DEF Points!Next
  <2> DEFINE n == Points!least_non_qr(2)
  <2>2. n # 0 /\ \E i \in 2 .. CurveP - 1 : Points!is_non_qr(i)
    BY NonResidueWritten
  <2>3. outcome' = "running" /\ answer' = n
    BY <2>1, <2>2 DEF Points!SW_HINT_NON_QR, Points!Issue
  <2> HIDE DEF n
  <2> QED
    BY <2>2, <2>3
<1> QED
  BY <1>1, <1>3, <1>4 DEF CurveInv

\* The invariant of the curve's client is inductive.
LEMMA CurveInvariant == Spec => []CurveInv
<1>1. Init => CurveInv
  BY DEF Init, CurveInv, Points!Init
<1>2. ASSUME CurveInv, [Next]_vars PROVE CurveInv'
  <2>1. CASE UNCHANGED vars
    BY <1>2, <2>1 DEF CurveInv, vars
  <2>2. CASE Next
    <3>1. chip' = chip /\ (chip = "curve" => Points!Next)
      BY <2>2 DEF Next, AluStep, Int256Step, ModularStep, Fp2Step, CurveStep
    <3>2. CASE chip = "curve"
      BY <1>2, <3>1, <3>2, CurveKeeps
    <3>3. CASE chip # "curve"
      BY <3>1, <3>3 DEF CurveInv
    <3> QED
      BY <3>2, <3>3
  <2> QED
    BY <1>2, <2>1, <2>2
<1> QED
  BY <1>1, <1>2, PTL DEF Spec

\* The search of HintNonQr ends, below p, and what it writes is the square of no
\* number.
THEOREM NonResidueIsTrue == Spec => []HintIsNonResidue
<1>1. ASSUME CurveInv PROVE HintIsNonResidue
  <2>3. chip = "curve" /\ insn # <<>> /\ insn[1] = "non_qr" => outcome = "running" /\ answer # 0
    BY <1>1 DEF CurveInv
  <2> SUFFICES ASSUME chip = "curve", answer # 0, NEW y \in Points!Field,
                      (y * y) % CurveP = answer % CurveP
               PROVE  FALSE
    BY <2>3 DEF HintIsNonResidue, Points!HintIsNonResidue
  <2>1. y \in Int /\ Prime(CurveP) /\ CurveP > 2
    BY CurvePrime DEF Points!Field
  <2>2. answer \in Int /\ answer % CurveP # 0 /\ Same(Pow(answer, HalfPower(CurveP)), -1, CurveP)
    BY <1>1 DEF CurveInv
  <2> QED
    BY <2>1, <2>2, NoRootOf DEF Same
<1> QED
  BY <1>1, CurveInvariant, PTL

\* Decompression finds the point with the parity asked for, or there is none.
THEOREM DecompressionFinds == Spec => DecompressesPoint
<1>1. ASSUME CurveInv, [Next]_vars PROVE [chip = "curve" => Points!Decompresses]_vars
  <2> SUFFICES ASSUME chip = "curve" PROVE Points!Decompresses
    OBVIOUS
  <2>1. ASSUME NEW out \in Cell, NEW i \in Points!Number, NEW parity \in Points!Parities,
               Points!SW_HINT_DECOMPRESS(out, i, parity)
        PROVE  LET points == { y \in Points!Field : Points!OnCurve(<<i, y>>) /\ y % 2 = parity % 2 }
               IN  IF points = {} THEN outcome' = "CustomOp"
                   ELSE \E y \in points : cells'[out] = <<i, y>>
    BY <1>1, <2>1, Decompressed
  <2> QED
    BY <2>1 DEF Points!Decompresses
<1> QED
  BY <1>1, CurveInvariant, PTL DEF Spec, DecompressesPoint

-----------------------------------------------------------------------------
\* A shift to the left multiplies by a power of two, one to the right divides,
\* and the amount is what the low bits of the register say.
THEOREM ShiftsAreScaling == Spec => []ShiftsScale
<1>1. ASSUME Operands PROVE ShiftsScale
  <2> DEFINE n == b % XLEN
  <2>1. n \in 0 .. XLEN - 1
    BY <1>1, WordDigits, Words, DivMod DEF Operands
  <2>2. Op(0, 1) = ShiftLeft(a, n) /\ Op(0, 5) = ShiftRight(a, n) /\ Op(32, 5) = ShiftRightArith(a, n)
    BY DEF Op, op_value, base_op, shift_amount
  <2> HIDE DEF n
  <2>3. a \in Word
    BY <1>1 DEF Operands
  <2>4. ShiftLeft(a, n) = (a * 2^n) % WordSize
    BY <2>1, <2>3, ShiftLeftMultiplies
  <2>5. ShiftRight(a, n) = a \div 2^n /\ Signed(ShiftRightArith(a, n)) = Signed(a) \div 2^n
    BY <2>1, <2>3, ShiftRightDivides
  <2> QED
    BY <2>2, <2>4, <2>5 DEF ShiftsScale, n
<1>2. AluInv => ShiftsScale
  BY <1>1 DEF AluInv, ShiftsScale
<1> QED
  BY <1>2, OperandsKept, PTL

-----------------------------------------------------------------------------
\* What the assumption says of the numbers of Int256.
LEMMA WideSizes ==
    /\ WideBits \in Nat \ {0} /\ WideSize \in Nat \ {0} /\ WideSize = 2^WideBits
    /\ WideBytes \in Nat \ {0} /\ WideBytes * WideBits = WideSize
    /\ \E h \in Nat \ {0} : WideSize = 2 * h
    /\ WideOperands \cup WideOthers \subseteq Wide!U256
BY ArithmeticAssumption DEF Wide!ByteAssumption, Wide!Uint256Assumption

\* The numbers below the modulus are those of all bytes, of as many bits.
WideModulus == Place(WideBits, WideBytes)

\* They are two powers, and the modulus of Uint256.
LEMMA WideModuli ==
    /\ WideModulus \in Nat \ {0} /\ WideModulus = Wide!Abstract!Modulus
    /\ WideBits * WideBytes = WideSize /\ Wide!NumBits = WideSize
    /\ WideModulus = 2^WideSize
<1>1. WideBits * WideBytes = WideBytes * WideBits
  BY WideSizes, Z3
<1>2. WideModulus \in Nat \ {0}
  BY WideSizes, Places DEF WideModulus
<1> QED
  BY <1>1, <1>2, WideSizes DEF WideModulus, Place, Wide!Abstract!Modulus, Wide!NumBits

\* The value of a buffer is the number whose digits are its bytes.
LEMMA ValueOfBytes ==
    ASSUME NEW m \in Wide!U256
    PROVE  /\ IsNumber(Wide!Value(m), m, WideBits, WideBytes)
           /\ Wide!Value(m) \in 0 .. WideModulus - 1 /\ Wide!Value(m) \in Nat
           /\ \A i \in 0 .. WideBytes - 1 : m[i] \in 0 .. WideSize - 1 /\ m[i] \in Nat
<1>1. Wide!Value(m) = SumOfPlaces(m, WideBits, WideBytes)
  BY DEF Wide!Value, Wide!MapThenSumSet, Wide!MapThenFoldSet, Wide!Limb, SumOfPlaces
<1>2. \A i \in 0 .. WideBytes - 1 : m[i] \in 0 .. WideSize - 1 /\ m[i] \in Nat
  BY WideSizes DEF Wide!U256, Wide!Limb
<1>3. IsNumber(SumOfPlaces(m, WideBits, WideBytes), m, WideBits, WideBytes)
  <2>1. \A i \in 0 .. WideBytes - 1 : m[i] \in 0 .. 2^WideBits - 1
    BY <1>2, WideSizes
  <2>2. WideBits \in Nat /\ WideBytes \in Nat
    BY WideSizes
  <2> QED
    BY <2>1, <2>2, NumberOfDigits
<1>4. Wide!Value(m) \in 0 .. WideModulus - 1
  BY <1>1, <1>3 DEF IsNumber, WideModulus
<1>5. Wide!Value(m) \in Nat
  BY <1>4, WideModuli
<1> QED
  BY <1>1, <1>2, <1>3, <1>4, <1>5

\* Bytes that are the digits of an integer have its value, up to the modulus.
LEMMA ValueOfDigits ==
    ASSUME NEW i \in Int, NEW m, m = [k \in Wide!Limb |-> m[k]],
           HasDigits(i, m, WideBits, WideBytes)
    PROVE  m \in Wide!U256 /\ Wide!Value(m) = i % WideModulus
<1>1. WideBits \in Nat /\ WideBytes \in Nat /\ WideSize \in Nat \ {0}
  BY WideSizes
<1>2. Wide!Limb = 0 .. WideBytes - 1
  BY DEF Wide!Limb
<1>3. ASSUME NEW k \in Wide!Limb
      PROVE  m[k] \in 0 .. WideSize - 1
  <2>1. k \in Nat
    BY <1>1, <1>2
  <2>2. (i \div Place(WideBits, k)) % 2^WideBits \in 0 .. 2^WideBits - 1
    BY <1>1, <2>1, NextPlace
  <2> QED
    BY <1>2, <2>2, WideSizes DEF HasDigits
<1>4. m \in Wide!U256
  BY <1>3 DEF Wide!U256
<1>5. IsNumber(Wide!Value(m), m, WideBits, WideBytes)
  BY <1>4, ValueOfBytes
<1>6. Wide!Value(m) = i % Place(WideBits, WideBytes)
  BY <1>1, <1>5, SameDigits
<1> QED
  BY <1>4, <1>6 DEF WideModulus

\* Bytes with the bits of an integer have its value.
LEMMA ValueOfBits ==
    ASSUME NEW m \in Wide!U256, NEW i \in Int,
           \A k \in 0 .. WideBytes - 1, j \in 0 .. WideBits - 1 :
              Digit(m[k], j) = Digit(i, WideBits * k + j)
    PROVE  Wide!Value(m) = i % WideModulus
<1> DEFINE v == Wide!Value(m)
<1>1. v \in Int /\ v \in 0 .. WideModulus - 1 /\ WideModulus \in Nat \ {0}
  BY ValueOfBytes, WideModuli
<1>2. ASSUME NEW p \in 0 .. WideSize - 1 PROVE Digit(v, p) = Digit(i, p)
  <2>1. PICK k \in 0 .. WideBytes - 1, j \in 0 .. WideBits - 1 : p = WideBits * k + j
    <3>1. WideBits \in Nat \ {0} /\ WideBytes \in Nat /\ p \in 0 .. (WideBits * WideBytes) - 1
      BY WideSizes, WideModuli
    <3> QED
      BY <3>1, Positions
  <2>2. WideBits \in Nat /\ k \in Nat
    BY WideSizes
  <2>3. Digit(v, WideBits * k + j) = Digit((v \div Place(WideBits, k)) % 2^WideBits, j)
    <3> HIDE DEF v
    <3> QED
      BY <1>1, <2>2, BitsOfDigits
  <2>4. (v \div Place(WideBits, k)) % 2^WideBits = m[k]
    BY ValueOfBytes DEF IsNumber
  <2> QED
    BY <2>1, <2>3, <2>4
<1> HIDE DEF v
<1>3. v % 2^WideSize = i % 2^WideSize
  <2>1. WideSize \in Nat
    BY WideSizes
  <2> QED
    BY <1>1, <1>2, <2>1, DigitsBelow
<1>4. v % WideModulus = v
  BY <1>1, Remainders
<1> QED
  BY <1>3, <1>4, WideModuli DEF v

-----------------------------------------------------------------------------
\* Addition, with its carries.
LEMMA AddsWide ==
    ASSUME NEW m \in Wide!U256, NEW l \in Wide!U256
    PROVE  /\ Wide!add(m, l) \in Wide!U256
           /\ Wide!Value(Wide!add(m, l)) = (Wide!Value(m) + Wide!Value(l)) % WideModulus
<1> DEFINE N == WideBytes
           B == WideSize
           c == CHOOSE c : c = [i \in Wide!Limb |->
                                  IF i = 0 THEN 0 ELSE (m[i - 1] + l[i - 1] + c[i - 1]) \div B]
           r == [i \in Wide!Limb |-> (m[i] + l[i] + c[i]) % B]
           x == Wide!Value(m)
           y == Wide!Value(l)
<1>1. Wide!add(m, l) = r
  BY DEF Wide!add
<1>2. N - 1 \in Nat /\ N \in Nat /\ Wide!Limb = 0 .. N - 1 /\ WideBits \in Nat
      /\ B \in Nat \ {0} /\ B = 2^WideBits
  BY WideSizes DEF Wide!Limb
<1>3. \A i \in 0 .. N - 1 : m[i] \in Int /\ l[i] \in Int
  BY ValueOfBytes
<1>4. c = [i \in Wide!Limb |->
             IF i = 0 THEN 0 ELSE (m[i - 1] + l[i - 1] + c[i - 1]) \div B]
  <2> DEFINE step == [ik \in (0 .. N - 1) \X Int |->
                        IF ik[1] = 0 THEN 0
                        ELSE (m[ik[1] - 1] + l[ik[1] - 1] + ik[2]) \div B]
  <2>1. ASSUME NEW i \in 0 .. N - 1, NEW k \in Int, i # 0
        PROVE  (m[i - 1] + l[i - 1] + k) \div B \in Int
    <3>1. i - 1 \in 0 .. N - 1
      BY <1>2, <2>1
    <3>2. m[i - 1] + l[i - 1] + k \in Int
      BY <1>3, <3>1
    <3> QED
      BY <1>2, <3>2, DivMod
  <2>2. step \in [(0 .. N - 1) \X Int -> Int]
    <3> HIDE DEF B
    <3> QED
      BY <2>1
  <2>3. \A i \in 0 .. N - 1 : \A k \in Int :
           i # 0 => step[<<i, k>>] = (m[i - 1] + l[i - 1] + k) \div B
    OBVIOUS
  <2> HIDE DEF step, B, N
  <2>4. PICK g \in [0 .. N - 1 -> Int] : StepsFrom(g, N - 1, 0, step)
    <3> DEFINE K == N - 1
    <3>1. 0 \in Int /\ K \in Nat /\ step \in [(0 .. K) \X Int -> Int]
      BY <1>2, <2>2
    <3> HIDE DEF K
    <3>2. \E g \in [0 .. K -> Int] : StepsFrom(g, K, 0, step)
      BY <3>1, Stepwise
    <3> QED
      BY <3>2 DEF K
  <2>5. ASSUME NEW i \in 0 .. N - 1
        PROVE  g[i] = IF i = 0 THEN 0 ELSE (m[i - 1] + l[i - 1] + g[i - 1]) \div B
    <3>1. i # 0 => i - 1 \in 0 .. N - 1
      BY <1>2
    <3>2. i # 0 => g[i - 1] \in Int
      BY <3>1
    <3> QED
      BY <2>3, <2>4, <3>2 DEF StepsFrom
  <2>6. g = [i \in Wide!Limb |->
               IF i = 0 THEN 0 ELSE (m[i - 1] + l[i - 1] + g[i - 1]) \div B]
    BY <1>2, <2>5
  <2> QED
    BY <2>6
<1> HIDE DEF c
<1>5. Adds(r, c, m, l, WideBits, N)
  BY <1>2, <1>4 DEF Adds
<1>6. IsNumber(x, m, WideBits, N) /\ IsNumber(y, l, WideBits, N) /\ x + y \in Int
  BY ValueOfBytes
<1>7. r = [k \in Wide!Limb |-> r[k]]
  OBVIOUS
<1> HIDE DEF x, y, r
<1>8. HasDigits(x + y, r, WideBits, N)
  BY <1>2, <1>5, <1>6, AddedDigits
<1>9. r \in Wide!U256 /\ Wide!Value(r) = (x + y) % WideModulus
  BY <1>6, <1>7, <1>8, ValueOfDigits
<1> QED
  BY <1>1, <1>9 DEF x, y

-----------------------------------------------------------------------------
\* Subtraction, with its borrows.
LEMMA SubsWide ==
    ASSUME NEW m \in Wide!U256, NEW l \in Wide!U256
    PROVE  /\ Wide!sub(m, l) \in Wide!U256
           /\ Wide!Value(Wide!sub(m, l)) = (Wide!Value(m) - Wide!Value(l)) % WideModulus
<1> DEFINE N == WideBytes
           B == WideSize
           c == CHOOSE c : c = [i \in Wide!Limb |->
                                  IF i > 0 /\ m[i - 1] - l[i - 1] - c[i - 1] < 0 THEN 1 ELSE 0]
           r == [i \in Wide!Limb |-> (m[i] - l[i] - c[i]) % B]
           x == Wide!Value(m)
           y == Wide!Value(l)
<1>1. Wide!sub(m, l) = r
  BY DEF Wide!sub
<1>2. N - 1 \in Nat /\ N \in Nat /\ Wide!Limb = 0 .. N - 1 /\ WideBits \in Nat
      /\ B \in Nat \ {0} /\ B = 2^WideBits
  BY WideSizes DEF Wide!Limb
<1>4. c = [i \in Wide!Limb |->
             IF i > 0 /\ m[i - 1] - l[i - 1] - c[i - 1] < 0 THEN 1 ELSE 0]
  <2> DEFINE step == [ik \in (0 .. N - 1) \X Int |->
                        IF m[ik[1] - 1] - l[ik[1] - 1] - ik[2] < 0 THEN 1 ELSE 0]
  <2>2. step \in [(0 .. N - 1) \X Int -> Int]
    OBVIOUS
  <2>3. \A i \in 0 .. N - 1 : \A k \in Int :
           step[<<i, k>>] = IF m[i - 1] - l[i - 1] - k < 0 THEN 1 ELSE 0
    OBVIOUS
  <2> HIDE DEF step, B, N
  <2>4. PICK g \in [0 .. N - 1 -> Int] : StepsFrom(g, N - 1, 0, step)
    <3> DEFINE K == N - 1
    <3>1. 0 \in Int /\ K \in Nat /\ step \in [(0 .. K) \X Int -> Int]
      BY <1>2, <2>2
    <3> HIDE DEF K
    <3>2. \E g \in [0 .. K -> Int] : StepsFrom(g, K, 0, step)
      BY <3>1, Stepwise
    <3> QED
      BY <3>2 DEF K
  <2>5. ASSUME NEW i \in 0 .. N - 1
        PROVE  g[i] = IF i > 0 /\ m[i - 1] - l[i - 1] - g[i - 1] < 0 THEN 1 ELSE 0
    <3>1. i # 0 => i - 1 \in 0 .. N - 1
      BY <1>2
    <3>2. i # 0 => g[i - 1] \in Int
      BY <3>1
    <3>3. CASE i = 0
      <4>1. g[i] = IF i = 0 THEN 0 ELSE step[<<i, g[i - 1]>>]
        BY <2>4, Zenon DEF StepsFrom
      <4>2. g[i] = 0
        BY <3>3, <4>1
      <4>3. ~(i > 0)
        BY <3>3
      <4> QED
        BY <4>2, <4>3, Zenon
    <3>4. CASE i # 0
      <4>1. i > 0
        BY <1>2, <3>4
      <4>2. g[i] = step[<<i, g[i - 1]>>]
        BY <2>4, <3>4, Zenon DEF StepsFrom
      <4> QED
        BY <2>3, <3>2, <3>4, <4>1, <4>2
    <3> QED
      BY <3>3, <3>4
  <2>6. g = [i \in Wide!Limb |->
               IF i > 0 /\ m[i - 1] - l[i - 1] - g[i - 1] < 0 THEN 1 ELSE 0]
    BY <1>2, <2>5
  <2> QED
    BY <2>6
<1> HIDE DEF c
<1>5. Subtracts(r, c, m, l, WideBits, N)
  BY <1>2, <1>4 DEF Subtracts
<1>6. IsNumber(x, m, WideBits, N) /\ IsNumber(y, l, WideBits, N) /\ x - y \in Int
  BY ValueOfBytes
<1>7. r = [k \in Wide!Limb |-> r[k]]
  OBVIOUS
<1> HIDE DEF x, y, r
<1>8. HasDigits(x - y, r, WideBits, N)
  BY <1>2, <1>5, <1>6, SubtractedDigits
<1>9. r \in Wide!U256 /\ Wide!Value(r) = (x - y) % WideModulus
  BY <1>6, <1>7, <1>8, ValueOfDigits
<1> QED
  BY <1>1, <1>9 DEF x, y

\* Multiplication, by columns and one pass of carries.
LEMMA MulsWide ==
    ASSUME NEW m \in Wide!U256, NEW l \in Wide!U256
    PROVE  /\ Wide!mul(m, l) \in Wide!U256
           /\ Wide!Value(Wide!mul(m, l)) = (Wide!Value(m) * Wide!Value(l)) % WideModulus
<1> DEFINE N == WideBytes
           B == WideSize
           s == CHOOSE s : s = [k \in Wide!Limb |->
                                  SumOfColumn(m, l, k)
                                    + (IF k = 0 THEN 0 ELSE s[k - 1] \div B)]
           r == [k \in Wide!Limb |-> s[k] % B]
           x == Wide!Value(m)
           y == Wide!Value(l)
<1>1. Wide!mul(m, l) = r
  BY DEF Wide!mul, Wide!MapThenSumSet, Wide!MapThenFoldSet, SumOfColumn
<1>2. N - 1 \in Nat /\ N \in Nat /\ Wide!Limb = 0 .. N - 1 /\ WideBits \in Nat
      /\ B \in Nat \ {0} /\ B = 2^WideBits
  BY WideSizes DEF Wide!Limb
<1>3. \A k \in 0 .. N - 1 : SumOfColumn(m, l, k) \in Int
  <2> TAKE k \in 0 .. N - 1
  <2> DEFINE f == [i \in Nat |-> IF i \in 0 .. k THEN m[i] * l[k - i] ELSE 0]
  <2>1. k \in Nat /\ k + 1 \in Nat
    BY <1>2
  <2>2. ASSUME NEW i \in Nat, i \in 0 .. k
        PROVE  m[i] * l[k - i] \in Int
    <3>1. i \in 0 .. N - 1 /\ k - i \in 0 .. N - 1
      BY <1>2, <2>2
    <3>2. m[i] \in Nat /\ l[k - i] \in Nat
      BY <3>1, ValueOfBytes
    <3> QED
      BY <3>2
  <2>3. f \in [Nat -> Int]
    <3>1. ASSUME NEW i \in Nat PROVE (IF i \in 0 .. k THEN m[i] * l[k - i] ELSE 0) \in Int
      BY <2>2
    <3> QED
      BY <3>1
  <2>4. \A i \in Nat : f[i] = IF i \in 0 .. k THEN m[i] * l[k - i] ELSE 0
    OBVIOUS
  <2> HIDE DEF f
  <2>5. SumOfColumn(m, l, k) = Total(f, k + 1)
    BY <2>1, <2>3, <2>4, ColumnTotal
  <2> QED
    BY <2>1, <2>3, <2>5, TotalSteps
<1>4. s = [k \in Wide!Limb |->
             SumOfColumn(m, l, k) + (IF k = 0 THEN 0 ELSE s[k - 1] \div B)]
  <2> DEFINE step == [ik \in (0 .. N - 1) \X Int |->
                        SumOfColumn(m, l, ik[1])
                          + (IF ik[1] = 0 THEN 0 ELSE ik[2] \div B)]
             first == SumOfColumn(m, l, 0) + 0
  <2>1. \A k \in Int : k \div B \in Int
    BY <1>2, DivMod
  <2>2. step \in [(0 .. N - 1) \X Int -> Int]
    <3> HIDE DEF B
    <3> QED
      BY <1>3, <2>1
  <2>3. \A i \in 0 .. N - 1 : \A k \in Int :
           i # 0 => step[<<i, k>>] = SumOfColumn(m, l, i) + (k \div B)
    OBVIOUS
  <2>7. first \in Int
    BY <1>2, <1>3
  <2> HIDE DEF step, B, N
  <2>4. PICK g \in [0 .. N - 1 -> Int] : StepsFrom(g, N - 1, first, step)
    <3> DEFINE K == N - 1
    <3>1. first \in Int /\ K \in Nat /\ step \in [(0 .. K) \X Int -> Int]
      BY <1>2, <2>2, <2>7
    <3> HIDE DEF K, first
    <3>2. \E g \in [0 .. K -> Int] : StepsFrom(g, K, first, step)
      BY <3>1, Stepwise
    <3> QED
      BY <3>2 DEF K
  <2>5. ASSUME NEW i \in 0 .. N - 1
        PROVE  g[i] = SumOfColumn(m, l, i) + (IF i = 0 THEN 0 ELSE g[i - 1] \div B)
    <3>1. i # 0 => i - 1 \in 0 .. N - 1
      BY <1>2
    <3>2. i # 0 => g[i - 1] \in Int
      BY <3>1
    <3> QED
      BY <2>3, <2>4, <3>2 DEF StepsFrom
  <2>6. g = [k \in Wide!Limb |->
               SumOfColumn(m, l, k) + (IF k = 0 THEN 0 ELSE g[k - 1] \div B)]
    BY <1>2, <2>5
  <2> QED
    BY <2>6
<1> HIDE DEF s
<1>5. AddsColumns(r, s, m, l, WideBits, N)
  BY <1>2, <1>4 DEF AddsColumns
<1>6. IsNumber(x, m, WideBits, N) /\ IsNumber(y, l, WideBits, N) /\ x * y \in Int
  BY ValueOfBytes
<1>7. r = [k \in Wide!Limb |-> r[k]]
  OBVIOUS
<1> HIDE DEF x, y, r
<1>8. HasDigits(x * y, r, WideBits, N)
  BY <1>2, <1>5, <1>6, MultipliedDigits
<1>9. r \in Wide!U256 /\ Wide!Value(r) = (x * y) % WideModulus
  BY <1>6, <1>7, <1>8, ValueOfDigits
<1> QED
  BY <1>1, <1>9 DEF x, y

-----------------------------------------------------------------------------
\* The product in halves of Uint256 is the product.
LEMMA ProductInHalves ==
    ASSUME NEW x \in Nat, NEW y \in Nat
    PROVE  Wide!Abstract!Product(x, y) = (x * y) % WideModulus
<1> DEFINE H == Wide!Abstract!Half
           M == WideModulus
           q == y \div H
           p == y % H
           t == (x * q) \div H
           u == (x * q) % H
<1>1. H \in Nat \ {0} /\ M \in Nat \ {0} /\ M = H * H
  <2>1. PICK h \in Nat \ {0} : WideSize = 2 * h
    BY WideSizes
  <2>2. WideSize \div 2 = h /\ WideSize = h + h
    BY <2>1
  <2>3. H = 2^h
    BY <2>2, WideModuli DEF Wide!Abstract!Half
  <2>4. 2^(h + h) = 2^h * 2^h /\ 2^h \in Nat \ {0}
    BY TwoSum, TwoPowers
  <2> QED
    BY <2>2, <2>3, <2>4, WideModuli
<1>2. M = Wide!Abstract!Modulus
  BY WideModuli
<1> HIDE DEF H, M
<1>3. q \in Int /\ p \in 0 .. H - 1 /\ y = H * q + p
  BY <1>1, DivMod
<1>4. x * q \in Int
  BY <1>3
<1>5. t \in Int /\ u \in 0 .. H - 1 /\ x * q = H * t + u
  BY <1>1, <1>4, DivMod
<1>6. Wide!Abstract!Product(x, y) = (x * p + H * u) % M
  BY <1>2 DEF Wide!Abstract!Product, H
<1> HIDE DEF q, p, t, u
<1>7. x * p + H * u \in Int /\ M * t \in Int /\ x * y \in Int
  BY <1>1, <1>3, <1>5
<1>8. x * y = (x * p + H * u) + M * t
  <2>1. p \in Int /\ u \in Int /\ H \in Int /\ x \in Int
    BY <1>1, <1>3, <1>5
  <2>2. x * (H * q + p) = H * (x * q) + x * p
    BY <1>3, <2>1, Z3
  <2>3. H * (H * t + u) = (H * H) * t + H * u
    BY <1>5, <2>1, Z3
  <2>4. x * y = ((H * H) * t + H * u) + x * p
    BY <1>3, <1>5, <2>2, <2>3
  <2>5. x * y = (M * t + H * u) + x * p
    BY <1>1, <2>4
  <2>6. H * u \in Int /\ x * p \in Int /\ M * t \in Int
    BY <1>1, <1>5, <2>1
  <2> DEFINE hu == H * u
             xp == x * p
             mt == M * t
  <2> HIDE DEF hu, xp, mt
  <2>7. (mt + hu) + xp = (xp + hu) + mt
    BY <2>6 DEF hu, xp, mt
  <2> QED
    BY <2>5, <2>7 DEF hu, xp, mt
<1>9. (x * y) % M = (x * p + H * u) % M
  <2> DEFINE k == x * p + H * u
  <2> HIDE DEF k
  <2>1. k \in Int
    BY <1>7 DEF k
  <2>2. (k + M * t) % M = k % M
    BY <1>1, <1>5, <2>1, Congruent
  <2>3. x * y = k + M * t
    BY <1>8 DEF k
  <2> QED
    BY <2>2, <2>3 DEF k
<1> QED
  BY <1>6, <1>9 DEF M

-----------------------------------------------------------------------------
\* The bits of a number are those of its bytes.
LEMMA BitsOfBytes ==
    ASSUME NEW m \in Wide!U256, NEW k \in 0 .. WideBytes - 1, NEW j \in 0 .. WideBits - 1
    PROVE  Digit(m[k], j) = Digit(Wide!Value(m), WideBits * k + j)
<1> DEFINE v == Wide!Value(m)
<1>1. v \in Int /\ WideBits \in Nat /\ k \in Nat
  BY ValueOfBytes, WideSizes
<1>2. (v \div Place(WideBits, k)) % 2^WideBits = m[k]
  BY ValueOfBytes DEF IsNumber
<1> HIDE DEF v
<1>3. Digit(v, WideBits * k + j) = Digit((v \div Place(WideBits, k)) % 2^WideBits, j)
  BY <1>1, BitsOfDigits
<1> QED
  BY <1>2, <1>3 DEF v

\* Every bit of a number is one of a byte.
LEMMA ByteOfBit ==
    ASSUME NEW p \in 0 .. WideSize - 1
    PROVE  \E k \in 0 .. WideBytes - 1, j \in 0 .. WideBits - 1 : p = WideBits * k + j
<1>1. WideBits \in Nat \ {0} /\ WideBytes \in Nat /\ p \in 0 .. (WideBits * WideBytes) - 1
  BY WideSizes, WideModuli
<1> QED
  BY <1>1, Positions

\* A set of bit positions of a byte, as a byte.
LEMMA ByteOfOnes ==
    ASSUME NEW S \in SUBSET (0 .. WideBits - 1)
    PROVE  /\ Wide!ByteOf(S) \in 0 .. WideSize - 1
           /\ \A j \in 0 .. WideBits - 1 :
                 Digit(Wide!ByteOf(S), j) = IF j \in S THEN 1 ELSE 0
<1>1. Wide!ByteOf(S) = SumOfPowers(S)
  BY DEF Wide!ByteOf, Wide!MapThenSumSet, Wide!MapThenFoldSet, SumOfPowers
<1> QED
  BY <1>1, OnesOfSum, WideSizes

\* The positions that hold a one, by their digits.
LEMMA OnesOfByte ==
    ASSUME NEW v
    PROVE  /\ Wide!ByteOnes(v) \in SUBSET (0 .. WideBits - 1)
           /\ \A j \in 0 .. WideBits - 1 : j \in Wide!ByteOnes(v) <=> Digit(v, j) = 1
BY DEF Wide!ByteOnes, Digit

\* The ones that two numbers have in common.
LEMMA CommonOnes ==
    ASSUME NEW x \in Int, NEW y \in Int
    PROVE  /\ Wide!Abstract!Common(x, y) \in 0 .. WideModulus - 1
           /\ InCommon(Wide!Abstract!Common(x, y), x, y, WideSize)
<1> DEFINE c == Wide!Abstract!Common(x, y)
           S == { i \in 0 .. WideSize - 1 : Digit(x, i) + Digit(y, i) = 2 }
<1>1. c = SumOfPowers(S)
  <2>1. S = { i \in 0 .. Wide!NumBits - 1 :
                 Wide!Abstract!Bit(x, i) + Wide!Abstract!Bit(y, i) = 2 }
    BY WideModuli DEF Wide!Abstract!Bit, Digit
  <2> HIDE DEF S
  <2> QED
    BY <2>1 DEF Wide!Abstract!Common, Wide!Abstract!MapThenSumSet,
                Wide!Abstract!MapThenFoldSet, SumOfPowers
<1>2. WideSize \in Nat /\ S \in SUBSET (0 .. WideSize - 1)
  BY WideSizes
<1>3. ASSUME NEW k \in 0 .. WideSize - 1
      PROVE  k \in S <=> Digit(x, k) = 1 /\ Digit(y, k) = 1
  <2>1. k \in Nat
    BY <1>2
  <2>2. Digit(x, k) \in {0, 1} /\ Digit(y, k) \in {0, 1}
    BY <2>1, DigitTyped
  <2> QED
    BY <2>2
<1> HIDE DEF S, c
<1>4. /\ c \in 0 .. 2^WideSize - 1
      /\ \A j \in 0 .. WideSize - 1 : Digit(c, j) = IF j \in S THEN 1 ELSE 0
  BY <1>1, <1>2, OnesOfSum
<1> QED
  BY <1>3, <1>4, WideModuli DEF InCommon, c

-----------------------------------------------------------------------------
\* Numbers whose bytes are bytes of ones.
LEMMA BytesOfOnes ==
    ASSUME NEW S, \A k \in Wide!Limb : S[k] \in SUBSET (0 .. WideBits - 1),
           NEW r, r = [k \in Wide!Limb |-> Wide!ByteOf(S[k])]
    PROVE  /\ r \in Wide!U256
           /\ \A k \in 0 .. WideBytes - 1, j \in 0 .. WideBits - 1 :
                 Digit(r[k], j) = IF j \in S[k] THEN 1 ELSE 0
<1>1. ASSUME NEW k \in Wide!Limb
      PROVE  /\ Wide!ByteOf(S[k]) \in 0 .. WideSize - 1
             /\ \A j \in 0 .. WideBits - 1 :
                   Digit(Wide!ByteOf(S[k]), j) = IF j \in S[k] THEN 1 ELSE 0
  BY ByteOfOnes
<1>2. r \in Wide!U256
  BY <1>1 DEF Wide!U256
<1>3. Wide!Limb = 0 .. WideBytes - 1
  BY DEF Wide!Limb
<1>4. \A k \in Wide!Limb : r[k] = Wide!ByteOf(S[k])
  OBVIOUS
<1>5. ASSUME NEW k \in 0 .. WideBytes - 1, NEW j \in 0 .. WideBits - 1
      PROVE  Digit(r[k], j) = IF j \in S[k] THEN 1 ELSE 0
  <2>1. r[k] = Wide!ByteOf(S[k])
    BY <1>3, <1>4
  <2>2. Digit(Wide!ByteOf(S[k]), j) = IF j \in S[k] THEN 1 ELSE 0
    BY <1>1, <1>3
  <2> QED
    BY <2>1, <2>2
<1> QED
  BY <1>2, <1>5

\* The digits of numbers are 0 or 1.
LEMMA BytesDigit ==
    ASSUME NEW m \in Wide!U256, NEW k \in 0 .. WideBytes - 1, NEW j \in 0 .. WideBits - 1
    PROVE  Digit(m[k], j) \in {0, 1}
<1>1. m[k] \in Int
  BY ValueOfBytes
<1>2. j \in Nat
  BY WideSizes
<1> QED
  BY <1>1, <1>2, DigitTyped

\* The bitwise instructions.
LEMMA BitwiseWide ==
    ASSUME NEW m \in Wide!U256, NEW l \in Wide!U256
    PROVE  LET x == Wide!Value(m)
               y == Wide!Value(l)
               c == Wide!Abstract!Common(x, y)
           IN  /\ Wide!and(m, l) \in Wide!U256 /\ Wide!Value(Wide!and(m, l)) = c
               /\ Wide!or(m, l)  \in Wide!U256 /\ Wide!Value(Wide!or(m, l)) = x + y - c
               /\ Wide!xor(m, l) \in Wide!U256 /\ Wide!Value(Wide!xor(m, l)) = x + y - 2 * c
<1> DEFINE x == Wide!Value(m)
           y == Wide!Value(l)
           c == Wide!Abstract!Common(x, y)
           SA == [k \in Wide!Limb |-> Wide!ByteOnes(m[k]) \cap Wide!ByteOnes(l[k])]
           SO == [k \in Wide!Limb |-> Wide!ByteOnes(m[k]) \cup Wide!ByteOnes(l[k])]
           SX == [k \in Wide!Limb |-> Wide!SymDiff(Wide!ByteOnes(m[k]), Wide!ByteOnes(l[k]))]
           ra == Wide!and(m, l)
           ro == Wide!or(m, l)
           rx == Wide!xor(m, l)
<1>1. /\ x \in Int /\ y \in Int /\ x \in 0 .. WideModulus - 1 /\ y \in 0 .. WideModulus - 1
      /\ WideModulus \in Nat \ {0} /\ WideModulus = 2^WideSize
      /\ WideSize \in Nat
  BY ValueOfBytes, WideModuli, WideSizes
<1>2. c \in 0 .. WideModulus - 1 /\ InCommon(c, x, y, WideSize) /\ c \in Int
  <2> HIDE DEF x, y
  <2> QED
    BY <1>1, CommonOnes
<1>3. Wide!Limb = 0 .. WideBytes - 1
  BY DEF Wide!Limb
<1>4. \A k \in Wide!Limb : /\ SA[k] = Wide!ByteOnes(m[k]) \cap Wide!ByteOnes(l[k])
                           /\ SO[k] = Wide!ByteOnes(m[k]) \cup Wide!ByteOnes(l[k])
                           /\ SX[k] =
                                { i \in Wide!ByteOnes(m[k]) \cup Wide!ByteOnes(l[k]) :
                                     ~ (i \in Wide!ByteOnes(m[k]) /\ i \in Wide!ByteOnes(l[k])) }
  BY DEF Wide!SymDiff
<1>5. \A k \in Wide!Limb : /\ SA[k] \in SUBSET (0 .. WideBits - 1)
                           /\ SO[k] \in SUBSET (0 .. WideBits - 1)
                           /\ SX[k] \in SUBSET (0 .. WideBits - 1)
  <2> TAKE k \in Wide!Limb
  <2>1. Wide!ByteOnes(m[k]) \in SUBSET (0 .. WideBits - 1)
    BY OnesOfByte
  <2>2. Wide!ByteOnes(l[k]) \in SUBSET (0 .. WideBits - 1)
    BY OnesOfByte
  <2> HIDE DEF SA, SO, SX
  <2> QED
    BY <1>4, <2>1, <2>2
<1>6. /\ ra = [k \in Wide!Limb |-> Wide!ByteOf(SA[k])]
      /\ ro = [k \in Wide!Limb |-> Wide!ByteOf(SO[k])]
      /\ rx = [k \in Wide!Limb |-> Wide!ByteOf(SX[k])]
  BY DEF Wide!and, Wide!or, Wide!xor
<1>7. ASSUME NEW k \in 0 .. WideBytes - 1, NEW j \in 0 .. WideBits - 1
      PROVE  /\ j \in SA[k] <=> Digit(m[k], j) = 1 /\ Digit(l[k], j) = 1
             /\ j \in SO[k] <=> Digit(m[k], j) = 1 \/ Digit(l[k], j) = 1
             /\ j \in SX[k] <=> Digit(m[k], j) # Digit(l[k], j)
  <2>1. j \in Wide!ByteOnes(m[k]) <=> Digit(m[k], j) = 1
    BY OnesOfByte
  <2>2. j \in Wide!ByteOnes(l[k]) <=> Digit(l[k], j) = 1
    BY OnesOfByte
  <2>3. Digit(m[k], j) \in {0, 1} /\ Digit(l[k], j) \in {0, 1}
    BY BytesDigit
  <2>4. k \in Wide!Limb
    BY <1>3
  <2> HIDE DEF SA, SO, SX
  <2> QED
    BY <1>4, <2>1, <2>2, <2>3, <2>4
<1> HIDE DEF ra, ro, rx, SA, SO, SX, x, y, c
<1>8. /\ ra \in Wide!U256
      /\ \A k \in 0 .. WideBytes - 1, j \in 0 .. WideBits - 1 :
            Digit(ra[k], j) = IF j \in SA[k] THEN 1 ELSE 0
  BY <1>5, <1>6, BytesOfOnes
<1>9. /\ ro \in Wide!U256
      /\ \A k \in 0 .. WideBytes - 1, j \in 0 .. WideBits - 1 :
            Digit(ro[k], j) = IF j \in SO[k] THEN 1 ELSE 0
  BY <1>5, <1>6, BytesOfOnes
<1>10. /\ rx \in Wide!U256
       /\ \A k \in 0 .. WideBytes - 1, j \in 0 .. WideBits - 1 :
             Digit(rx[k], j) = IF j \in SX[k] THEN 1 ELSE 0
  BY <1>5, <1>6, BytesOfOnes
<1>11. ASSUME NEW p \in 0 .. WideSize - 1
       PROVE  /\ Digit(Wide!Value(ra), p) = IF Digit(x, p) = 1 /\ Digit(y, p) = 1 THEN 1 ELSE 0
              /\ Digit(Wide!Value(ro), p) = IF Digit(x, p) = 1 \/ Digit(y, p) = 1 THEN 1 ELSE 0
              /\ Digit(Wide!Value(rx), p) = IF Digit(x, p) # Digit(y, p) THEN 1 ELSE 0
  <2>1. PICK k \in 0 .. WideBytes - 1, j \in 0 .. WideBits - 1 : p = WideBits * k + j
    BY ByteOfBit
  <2>2. Digit(m[k], j) = Digit(x, p) /\ Digit(l[k], j) = Digit(y, p)
    BY <2>1, BitsOfBytes DEF x, y
  <2>3. /\ Digit(ra[k], j) = Digit(Wide!Value(ra), p)
        /\ Digit(ro[k], j) = Digit(Wide!Value(ro), p)
        /\ Digit(rx[k], j) = Digit(Wide!Value(rx), p)
    BY <1>8, <1>9, <1>10, <2>1, BitsOfBytes
  <2>4. Digit(ra[k], j) = IF Digit(x, p) = 1 /\ Digit(y, p) = 1 THEN 1 ELSE 0
    BY <1>7, <1>8, <2>2
  <2>5. Digit(ro[k], j) = IF Digit(x, p) = 1 \/ Digit(y, p) = 1 THEN 1 ELSE 0
    BY <1>7, <1>9, <2>2
  <2>6. Digit(rx[k], j) = IF Digit(x, p) # Digit(y, p) THEN 1 ELSE 0
    BY <1>7, <1>10, <2>2
  <2> QED
    BY <2>3, <2>4, <2>5, <2>6
<1>12. /\ Wide!Value(ra) \in Int /\ Wide!Value(ra) % WideModulus = Wide!Value(ra)
       /\ Wide!Value(ro) \in Int /\ Wide!Value(ro) % WideModulus = Wide!Value(ro)
       /\ Wide!Value(rx) \in Int /\ Wide!Value(rx) % WideModulus = Wide!Value(rx)
       /\ x % WideModulus = x /\ y % WideModulus = y /\ c % WideModulus = c
  <2>1. /\ Wide!Value(ra) \in 0 .. WideModulus - 1
        /\ Wide!Value(ro) \in 0 .. WideModulus - 1
        /\ Wide!Value(rx) \in 0 .. WideModulus - 1
    BY <1>8, <1>9, <1>10, ValueOfBytes
  <2>2. \A v \in 0 .. WideModulus - 1 : v \in Int /\ v % WideModulus = v
    BY <1>1, Remainders
  <2> QED
    BY <1>1, <1>2, <2>1, <2>2
<1>13. Wide!Value(ra) = c
  <2>1. \A p \in 0 .. WideSize - 1 : Digit(Wide!Value(ra), p) = Digit(c, p)
    BY <1>2, <1>11 DEF InCommon
  <2>2. Wide!Value(ra) % 2^WideSize = c % 2^WideSize
    BY <1>1, <1>2, <1>12, <2>1, DigitsBelow
  <2> QED
    BY <1>1, <1>12, <2>2
<1>14. Wide!Value(ro) = x + y - c
  <2> DEFINE v == Wide!Value(ro)
  <2>1. OnesOf(v, x, y, c, WideSize) /\ InEither(v, x, y, WideSize)
    BY <1>1, <1>2, <1>11, <1>12 DEF InEither, OnesOf
  <2>2. v % WideModulus = v
    BY <1>12
  <2> HIDE DEF v
  <2>3. InEither(v, x, y, WideSize) =>
           v % 2^WideSize = (x % 2^WideSize) + (y % 2^WideSize) - (c % 2^WideSize)
    BY <2>1, BitwiseSums, SMT
  <2>4. v % 2^WideSize = (x % 2^WideSize) + (y % 2^WideSize) - (c % 2^WideSize)
    BY <2>1, <2>3
  <2> QED
    BY <1>1, <1>12, <2>2, <2>4 DEF v
<1>15. Wide!Value(rx) = x + y - 2 * c
  <2> DEFINE v == Wide!Value(rx)
  <2>1. OnesOf(v, x, y, c, WideSize) /\ InOne(v, x, y, WideSize)
    BY <1>1, <1>2, <1>11, <1>12 DEF InOne, OnesOf
  <2>2. v % WideModulus = v
    BY <1>12
  <2> HIDE DEF v
  <2>3. InOne(v, x, y, WideSize) =>
           v % 2^WideSize = (x % 2^WideSize) + (y % 2^WideSize) - 2 * (c % 2^WideSize)
    BY <2>1, BitwiseSums, SMT
  <2>4. v % 2^WideSize = (x % 2^WideSize) + (y % 2^WideSize) - 2 * (c % 2^WideSize)
    BY <2>1, <2>3
  <2> QED
    BY <1>1, <1>12, <2>2, <2>4 DEF v
<1> QED
  BY <1>8, <1>9, <1>10, <1>13, <1>14, <1>15 DEF ra, ro, rx, x, y, c

-----------------------------------------------------------------------------
\* The digits of a byte shifted right, and left.
LEMMA ShiftedByte ==
    ASSUME NEW w \in Nat, NEW u \in 0 .. 2^w - 1, NEW k \in 0 .. w, NEW j \in 0 .. w - 1
    PROVE  /\ Digit(u \div 2^k, j) = IF j + k < w THEN Digit(u, j + k) ELSE 0
           /\ Digit((u * 2^k) % 2^w, j) = IF j < k THEN 0 ELSE Digit(u, j - k)
<1>1. u \in Int /\ k \in Nat /\ j \in Nat /\ j + k \in Nat /\ 0 <= u /\ u < 2^w
  BY TwoPowers
<1>2. Digit(u \div 2^k, j) = Digit(u, j + k)
  BY <1>1, DigitOfQuotient
<1>3. w <= j + k => Digit(u, j + k) = 0
  BY <1>1, DigitsAbove
<1>4. ~(j + k < w) => w <= j + k
  BY <1>1
<1>5. 2^k \in Int /\ u * 2^k \in Int
  BY <1>1, TwoPowers
<1>6. Digit((u * 2^k) % 2^w, j) = Digit(u * 2^k, j)
  <2> DEFINE i == u * 2^k
  <2> HIDE DEF i
  <2>1. Digit(i % 2^w, j) = Digit(i, j)
    BY <1>5, DigitOfRemainder DEF i
  <2> QED
    BY <2>1 DEF i
<1>7. Digit(u * 2^k, j) = IF j < k THEN 0 ELSE Digit(u, j - k)
  BY <1>1, DigitOfMultiple
<1> QED
  BY <1>2, <1>3, <1>4, <1>6, <1>7

\* The parts of an amount.
LEMMA AmountParts ==
    ASSUME NEW amt \in Nat
    PROVE  /\ Wide!byte_off(amt) \in Nat /\ Wide!bit_off(amt) \in 0 .. WideBits - 1
           /\ amt = WideBits * Wide!byte_off(amt) + Wide!bit_off(amt)
           /\ Wide!bit_off(amt) \in 0 .. WideBits
           /\ WideBits - Wide!bit_off(amt) \in 0 .. WideBits
<1>1. WideBits \in Nat \ {0} /\ amt \in Int
  BY WideSizes
<1>2. /\ amt \div WideBits \in Int /\ amt % WideBits \in 0 .. WideBits - 1
      /\ amt = WideBits * (amt \div WideBits) + (amt % WideBits)
  BY <1>1, DivMod
<1>3. amt \div WideBits \in Nat
  <2>1. 0 \in Int /\ amt + 1 \in Int /\ 0 < amt + 1 /\ amt < amt + 1 /\ 0 <= amt /\ 0 <= 0
    OBVIOUS
  <2>2. 0 <= amt \div WideBits
    BY <1>1, <2>1, QuotientBounds
  <2> QED
    BY <1>2, <2>2
<1> QED
  BY <1>1, <1>2, <1>3 DEF Wide!byte_off, Wide!bit_off

\* Positions of bits, with the bytes moved.
LEMMA PositionMoved ==
    ASSUME NEW w \in Int, NEW i \in Int, NEW k \in Int, NEW j \in Int, NEW bit \in Int
    PROVE  /\ w * (i + k) + (j + bit) = (w * i + j) + (w * k + bit)
           /\ w * (i + k + 1) + (j + bit - w) = (w * i + j) + (w * k + bit)
           /\ w * (i - k) + (j - bit) = (w * i + j) - (w * k + bit)
           /\ w * (i - k - 1) + (j + (w - bit)) = (w * i + j) - (w * k + bit)
           /\ w * i + j \in Int /\ w * k + bit \in Int
<1>1. /\ w * (i + k) = w * i + w * k /\ w * (i + k + 1) = w * i + w * k + w
      /\ w * (i - k) = w * i - w * k /\ w * (i - k - 1) = w * i - w * k - w
      /\ w * i \in Int /\ w * k \in Int
  BY Z3
<1> DEFINE wi == w * i
           wk == w * k
           p == w * (i + k)
           q == w * (i + k + 1)
           r == w * (i - k)
           s == w * (i - k - 1)
<1>2. /\ wi \in Int /\ wk \in Int /\ p = wi + wk /\ q = wi + wk + w
      /\ r = wi - wk /\ s = wi - wk - w
  BY <1>1
<1> HIDE DEF wi, wk, p, q, r, s
<1>3. /\ p + (j + bit) = (wi + j) + (wk + bit) /\ q + (j + bit - w) = (wi + j) + (wk + bit)
      /\ r + (j - bit) = (wi + j) - (wk + bit) /\ s + (j + (w - bit)) = (wi + j) - (wk + bit)
      /\ wi + j \in Int /\ wk + bit \in Int
  BY <1>2
<1> QED
  BY <1>3 DEF wi, wk, p, q, r, s

-----------------------------------------------------------------------------
\* A byte of a number shifted right has its low bits from the byte low that lies
\* there and the others from the byte high above it.
LEMMA RightByte ==
    ASSUME NEW amt \in Nat, NEW low \in 0 .. WideSize - 1, NEW high \in 0 .. WideSize - 1,
           NEW j \in 0 .. WideBits - 1
    PROVE  LET bit == Wide!bit_off(amt)
           IN  (\/ j \in Wide!ByteOnes(Wide!shr8(low, bit))
                \/ j \in Wide!ByteOnes(Wide!shl8(high, WideBits - bit)))
               <=> IF j + bit < WideBits THEN Digit(low, j + bit) = 1
                   ELSE Digit(high, j + bit - WideBits) = 1
<1> DEFINE w == WideBits
           bit == Wide!bit_off(amt)
           rest == w - bit
<1>1. w \in Nat /\ WideSize = 2^w /\ bit \in 0 .. w /\ rest \in 0 .. w /\ j \in 0 .. w - 1
      /\ low \in 0 .. 2^w - 1 /\ high \in 0 .. 2^w - 1
  BY WideSizes, AmountParts
<1>2. Wide!shr8(low, bit) = low \div 2^bit /\ Wide!shl8(high, rest) = (high * 2^rest) % 2^w
  BY <1>1 DEF Wide!shr8, Wide!shl8
<1>3. j \in Wide!ByteOnes(Wide!shr8(low, bit)) <=> Digit(low \div 2^bit, j) = 1
  BY <1>2, OnesOfByte
<1>4. j \in Wide!ByteOnes(Wide!shl8(high, rest)) <=> Digit((high * 2^rest) % 2^w, j) = 1
  BY <1>2, OnesOfByte
<1> HIDE DEF bit, rest, w
<1>5. Digit(low \div 2^bit, j) = IF j + bit < w THEN Digit(low, j + bit) ELSE 0
  BY <1>1, ShiftedByte
<1>6. Digit((high * 2^rest) % 2^w, j) = IF j < rest THEN 0 ELSE Digit(high, j - rest)
  BY <1>1, ShiftedByte
<1>7. j < rest <=> j + bit < w
  BY <1>1 DEF rest
<1>8. j - rest = j + bit - w
  BY <1>1 DEF rest
<1>9. (\/ j \in Wide!ByteOnes(Wide!shr8(low, bit))
       \/ j \in Wide!ByteOnes(Wide!shl8(high, rest)))
      <=> IF j + bit < w THEN Digit(low, j + bit) = 1 ELSE Digit(high, j + bit - w) = 1
  <2>1. CASE j + bit < w
    BY <1>3, <1>4, <1>5, <1>6, <1>7, <2>1
  <2>2. CASE ~(j + bit < w)
    BY <1>3, <1>4, <1>5, <1>6, <1>7, <1>8, <2>2
  <2> QED
    BY <2>1, <2>2
<1> QED
  BY <1>9, Zenon DEF bit, rest, w

\* A byte of a number shifted left, of the byte high that lies there and the byte
\* low below it.
LEMMA LeftByte ==
    ASSUME NEW amt \in Nat, NEW low \in 0 .. WideSize - 1, NEW high \in 0 .. WideSize - 1,
           NEW j \in 0 .. WideBits - 1
    PROVE  LET bit == Wide!bit_off(amt)
           IN  (\/ j \in Wide!ByteOnes(Wide!shl8(high, bit))
                \/ j \in Wide!ByteOnes(Wide!shr8(low, WideBits - bit)))
               <=> IF j < bit THEN Digit(low, j + (WideBits - bit)) = 1
                   ELSE Digit(high, j - bit) = 1
<1> DEFINE w == WideBits
           bit == Wide!bit_off(amt)
           rest == w - bit
<1>1. w \in Nat /\ WideSize = 2^w /\ bit \in 0 .. w /\ rest \in 0 .. w /\ j \in 0 .. w - 1
      /\ low \in 0 .. 2^w - 1 /\ high \in 0 .. 2^w - 1
  BY WideSizes, AmountParts
<1>2. Wide!shl8(high, bit) = (high * 2^bit) % 2^w /\ Wide!shr8(low, rest) = low \div 2^rest
  BY <1>1 DEF Wide!shr8, Wide!shl8
<1>3. j \in Wide!ByteOnes(Wide!shl8(high, bit)) <=> Digit((high * 2^bit) % 2^w, j) = 1
  BY <1>2, OnesOfByte
<1>4. j \in Wide!ByteOnes(Wide!shr8(low, rest)) <=> Digit(low \div 2^rest, j) = 1
  BY <1>2, OnesOfByte
<1> HIDE DEF bit, rest, w
<1>5. Digit((high * 2^bit) % 2^w, j) = IF j < bit THEN 0 ELSE Digit(high, j - bit)
  BY <1>1, ShiftedByte
<1>6. Digit(low \div 2^rest, j) = IF j + rest < w THEN Digit(low, j + rest) ELSE 0
  BY <1>1, ShiftedByte
<1>7. j < bit <=> j + rest < w
  BY <1>1 DEF rest
<1>9. (\/ j \in Wide!ByteOnes(Wide!shl8(high, bit))
       \/ j \in Wide!ByteOnes(Wide!shr8(low, rest)))
      <=> IF j < bit THEN Digit(low, j + rest) = 1 ELSE Digit(high, j - bit) = 1
  <2>1. CASE j < bit
    BY <1>3, <1>4, <1>5, <1>6, <1>7, <2>1
  <2>2. CASE ~(j < bit)
    BY <1>3, <1>4, <1>5, <1>6, <1>7, <2>2
  <2> QED
    BY <2>1, <2>2
<1> QED
  BY <1>9, Zenon DEF bit, rest, w

-----------------------------------------------------------------------------
\* The digits of an integer are those of a number's bytes and, above them, of
\* those that move in.
Extends(i, m, fill) ==
    /\ i \in Int /\ fill \in 0 .. WideSize - 1
    /\ \A k \in Nat, j \in 0 .. WideBits - 1 :
          Digit(IF k < WideBytes THEN m[k] ELSE fill, j) = Digit(i, WideBits * k + j)

\* The right shifts divide.
LEMMA ShrWide ==
    ASSUME NEW m \in Wide!U256, NEW amt \in Nat, NEW fill, NEW i, Extends(i, m, fill)
    PROVE  /\ Wide!shr(m, amt, fill) \in Wide!U256
           /\ Wide!Value(Wide!shr(m, amt, fill)) = (i \div 2^amt) % WideModulus
<1> DEFINE at(k) == IF k < WideBytes THEN m[k] ELSE fill
           off == Wide!byte_off(amt)
           bit == Wide!bit_off(amt)
           S == [k \in Wide!Limb |-> Wide!ByteOnes(Wide!shr8(at(k + off), bit))
                                     \cup Wide!ByteOnes(Wide!shl8(at(k + off + 1), WideBits - bit))]
           r == Wide!shr(m, amt, fill)
<1>1. /\ WideBits \in Nat \ {0} /\ WideBytes \in Nat \ {0} /\ WideSize \in Nat \ {0}
      /\ off \in Nat /\ bit \in 0 .. WideBits - 1 /\ amt = WideBits * off + bit
      /\ Wide!Limb = 0 .. WideBytes - 1 /\ i \in Int
  <2>1. /\ off \in Nat /\ bit \in 0 .. WideBits - 1 /\ amt = WideBits * off + bit
    BY AmountParts
  <2> QED
    BY <2>1, WideSizes DEF Wide!Limb, Extends
<1>2. \A k \in Nat : at(k) \in 0 .. WideSize - 1
  <2> TAKE k \in Nat
  <2>1. k < WideBytes => m[k] \in 0 .. WideSize - 1
    BY <1>1, ValueOfBytes
  <2>2. fill \in 0 .. WideSize - 1
    BY DEF Extends
  <2> QED
    BY <2>1, <2>2
<1>3. \A k \in Nat, j \in 0 .. WideBits - 1 : Digit(at(k), j) = Digit(i, WideBits * k + j)
  BY DEF Extends
<1>4. r = [k \in Wide!Limb |-> Wide!ByteOf(S[k])]
  BY DEF Wide!shr
<1> HIDE DEF at, off, bit
<1>5. \A k \in Wide!Limb : S[k] \in SUBSET (0 .. WideBits - 1)
  BY OnesOfByte
<1>6. \A k \in Wide!Limb : S[k] = Wide!ByteOnes(Wide!shr8(at(k + off), bit))
                                  \cup Wide!ByteOnes(Wide!shl8(at(k + off + 1), WideBits - bit))
  OBVIOUS
<1> HIDE DEF S, r
<1>7. /\ r \in Wide!U256
      /\ \A k \in 0 .. WideBytes - 1, j \in 0 .. WideBits - 1 :
            Digit(r[k], j) = IF j \in S[k] THEN 1 ELSE 0
  BY <1>4, <1>5, BytesOfOnes
<1> DEFINE q == i \div 2^amt
<1>8. q \in Int
  BY <1>1, DigitTyped
<1>9. ASSUME NEW k \in 0 .. WideBytes - 1, NEW j \in 0 .. WideBits - 1
      PROVE  Digit(r[k], j) = Digit(q, WideBits * k + j)
  <2> DEFINE low  == at(k + off)
             high == at(k + off + 1)
             p == WideBits * k + j
  <2>1. k + off \in Nat /\ k + off + 1 \in Nat /\ k \in Nat /\ k \in Wide!Limb /\ j \in Nat
    BY <1>1
  <2>2. low \in 0 .. WideSize - 1 /\ high \in 0 .. WideSize - 1
    BY <1>2, <2>1
  <2>3. j \in S[k] <=> (\/ j \in Wide!ByteOnes(Wide!shr8(low, bit))
                        \/ j \in Wide!ByteOnes(Wide!shl8(high, WideBits - bit)))
    BY <1>6, <2>1
  <2>4. j \in S[k] <=> IF j + bit < WideBits THEN Digit(low, j + bit) = 1
                       ELSE Digit(high, j + bit - WideBits) = 1
    <3> HIDE DEF low, high
    <3> QED
      BY <2>2, <2>3, RightByte DEF bit
  <2>5. p \in Nat /\ p + amt \in Nat
    <3>1. WideBits * k \in Nat
      BY <1>1, <2>1
    <3> QED
      BY <2>1, <3>1
  <2>6. Digit(q, p) = Digit(i, p + amt)
    <3> HIDE DEF p
    <3> QED
      BY <1>1, <2>5, DigitOfQuotient
  <2>7. /\ WideBits * (k + off) + (j + bit) = p + amt
        /\ WideBits * (k + off + 1) + (j + bit - WideBits) = p + amt
    <3>1. WideBits \in Int /\ k \in Int /\ off \in Int /\ j \in Int /\ bit \in Int
      BY <1>1, <2>1
    <3> QED
      BY <1>1, <3>1, PositionMoved
  <2>8. CASE j + bit < WideBits
    <3>1. j + bit \in 0 .. WideBits - 1
      BY <1>1, <2>1, <2>8
    <3>2. Digit(low, j + bit) = Digit(i, WideBits * (k + off) + (j + bit))
      BY <1>3, <2>1, <3>1
    <3>3. Digit(low, j + bit) = Digit(q, p)
      BY <2>6, <2>7, <3>2
    <3>4. Digit(q, p) \in {0, 1}
      <4> HIDE DEF p, q
      <4> QED
        BY <1>8, <2>5, DigitTyped
    <3> QED
      BY <1>7, <2>4, <2>8, <3>3, <3>4
  <2>9. CASE ~(j + bit < WideBits)
    <3>1. j + bit - WideBits \in 0 .. WideBits - 1
      BY <1>1, <2>1, <2>9
    <3>2. Digit(high, j + bit - WideBits)
            = Digit(i, WideBits * (k + off + 1) + (j + bit - WideBits))
      BY <1>3, <2>1, <3>1
    <3>3. Digit(high, j + bit - WideBits) = Digit(q, p)
      BY <2>6, <2>7, <3>2
    <3>4. Digit(q, p) \in {0, 1}
      <4> HIDE DEF p, q
      <4> QED
        BY <1>8, <2>5, DigitTyped
    <3> QED
      BY <1>7, <2>4, <2>9, <3>3, <3>4
  <2> QED
    BY <2>8, <2>9
<1> HIDE DEF q
<1>10. Wide!Value(r) = q % WideModulus
  BY <1>7, <1>8, <1>9, ValueOfBits
<1> QED
  BY <1>7, <1>10 DEF q, r

\* The left shift multiplies.
LEMMA ShlWide ==
    ASSUME NEW m \in Wide!U256, NEW amt \in Nat
    PROVE  /\ Wide!shl(m, amt) \in Wide!U256
           /\ Wide!Value(Wide!shl(m, amt)) = (Wide!Value(m) * 2^amt) % WideModulus
<1> DEFINE at(k) == IF k >= 0 THEN m[k] ELSE 0
           off == Wide!byte_off(amt)
           bit == Wide!bit_off(amt)
           S == [k \in Wide!Limb |-> Wide!ByteOnes(Wide!shl8(at(k - off), bit))
                                     \cup Wide!ByteOnes(Wide!shr8(at(k - off - 1), WideBits - bit))]
           r == Wide!shl(m, amt)
           x == Wide!Value(m)
<1>1. /\ WideBits \in Nat \ {0} /\ WideBytes \in Nat \ {0} /\ WideSize \in Nat \ {0}
      /\ off \in Nat /\ bit \in 0 .. WideBits - 1 /\ amt = WideBits * off + bit
      /\ Wide!Limb = 0 .. WideBytes - 1 /\ x \in Int
  <2>1. x \in Int
    BY ValueOfBytes
  <2>2. /\ off \in Nat /\ bit \in 0 .. WideBits - 1 /\ amt = WideBits * off + bit
    BY AmountParts
  <2> QED
    BY <2>1, <2>2, WideSizes DEF Wide!Limb
<1>2. \A k \in Int : k < WideBytes => at(k) \in 0 .. WideSize - 1
  <2> TAKE k \in Int
  <2>1. k < WideBytes /\ k >= 0 => m[k] \in 0 .. WideSize - 1
    BY <1>1, ValueOfBytes
  <2> QED
    BY <1>1, <2>1
<1>3. ASSUME NEW k \in Int, NEW j \in 0 .. WideBits - 1, k < WideBytes
      PROVE  Digit(at(k), j) = IF k >= 0 THEN Digit(x, WideBits * k + j) ELSE 0
  <2>1. CASE k >= 0
    <3>1. k \in 0 .. WideBytes - 1
      BY <1>1, <1>3, <2>1
    <3> QED
      BY <2>1, <3>1, BitsOfBytes
  <2>2. CASE ~(k >= 0)
    <3>1. j \in Nat /\ 0 \in Int /\ 0 <= 0 /\ 0 < 2^0 /\ 0 \in Nat /\ 0 <= j
      BY <1>1, TwoPowers
    <3>2. Digit(0, j) = 0
      BY <3>1, DigitsAbove
    <3> QED
      BY <2>2, <3>2
  <2> QED
    BY <2>1, <2>2
<1>4. r = [k \in Wide!Limb |-> Wide!ByteOf(S[k])]
  BY DEF Wide!shl
<1> HIDE DEF at, off, bit, x
<1>5. \A k \in Wide!Limb : S[k] \in SUBSET (0 .. WideBits - 1)
  BY OnesOfByte
<1>6. \A k \in Wide!Limb : S[k] = Wide!ByteOnes(Wide!shl8(at(k - off), bit))
                                  \cup Wide!ByteOnes(Wide!shr8(at(k - off - 1), WideBits - bit))
  OBVIOUS
<1> HIDE DEF S, r
<1>7. /\ r \in Wide!U256
      /\ \A k \in 0 .. WideBytes - 1, j \in 0 .. WideBits - 1 :
            Digit(r[k], j) = IF j \in S[k] THEN 1 ELSE 0
  BY <1>4, <1>5, BytesOfOnes
<1> DEFINE q == x * 2^amt
<1>8. q \in Int
  <2>1. 2^amt \in Int
    BY TwoPowers
  <2> QED
    BY <1>1, <2>1
<1>9. ASSUME NEW k \in 0 .. WideBytes - 1, NEW j \in 0 .. WideBits - 1
      PROVE  Digit(r[k], j) = Digit(q, WideBits * k + j)
  <2> DEFINE low  == at(k - off - 1)
             high == at(k - off)
             p == WideBits * k + j
  <2>1. /\ k - off \in Int /\ k - off - 1 \in Int /\ k \in Nat /\ k \in Wide!Limb /\ j \in Nat
        /\ k - off < WideBytes /\ k - off - 1 < WideBytes
    BY <1>1
  <2>2. low \in 0 .. WideSize - 1 /\ high \in 0 .. WideSize - 1
    BY <1>2, <2>1
  <2>3. j \in S[k] <=> (\/ j \in Wide!ByteOnes(Wide!shl8(high, bit))
                        \/ j \in Wide!ByteOnes(Wide!shr8(low, WideBits - bit)))
    BY <1>6, <2>1
  <2>4. j \in S[k] <=> IF j < bit THEN Digit(low, j + (WideBits - bit)) = 1
                       ELSE Digit(high, j - bit) = 1
    <3> HIDE DEF low, high
    <3> QED
      BY <2>2, <2>3, LeftByte DEF bit
  <2>5. p \in Nat
    <3>1. WideBits * k \in Nat
      BY <1>1, <2>1
    <3> QED
      BY <2>1, <3>1
  <2>6. Digit(q, p) = IF p < amt THEN 0 ELSE Digit(x, p - amt)
    <3> HIDE DEF p
    <3> QED
      BY <1>1, <2>5, DigitOfMultiple
  <2>7. /\ WideBits * (k - off) + (j - bit) = p - amt
        /\ WideBits * (k - off - 1) + (j + (WideBits - bit)) = p - amt
    <3>1. WideBits \in Int /\ k \in Int /\ off \in Int /\ j \in Int /\ bit \in Int
      BY <1>1, <2>1
    <3> QED
      BY <1>1, <3>1, PositionMoved
  <2>10. ASSUME NEW t \in Int, NEW n \in 0 .. WideBits - 1, WideBits * t + n = p - amt
         PROVE  p < amt <=> ~(t >= 0)
    <3> DEFINE u == WideBits * t
    <3>1. t >= 0 => u >= 0
      BY <1>1, Z3
    <3>2. t + 1 <= 0 => u + WideBits <= 0
      <4>1. t + 1 <= 0 => WideBits * (t + 1) <= 0
        BY <1>1, Z3
      <4>2. WideBits * (t + 1) = u + WideBits
        BY <1>1, Z3
      <4> QED
        BY <4>1, <4>2
    <3>3. u \in Int /\ u + n = p - amt /\ n < WideBits /\ 0 <= n
      BY <1>1, <2>10
    <3> HIDE DEF u, p
    <3> QED
      BY <1>1, <2>5, <3>1, <3>2, <3>3
  <2>11. Digit(q, p) \in {0, 1}
    <3> HIDE DEF p, q
    <3> QED
      BY <1>8, <2>5, DigitTyped
  <2>8. CASE j < bit
    <3> DEFINE n == j + (WideBits - bit)
    <3>1. n \in 0 .. WideBits - 1
      BY <1>1, <2>1, <2>8
    <3>2. Digit(low, n) = IF k - off - 1 >= 0 THEN Digit(x, WideBits * (k - off - 1) + n) ELSE 0
      BY <1>3, <2>1, <3>1
    <3>3. p < amt <=> ~(k - off - 1 >= 0)
      BY <2>1, <2>7, <2>10, <3>1
    <3>4. Digit(low, n) = Digit(q, p)
      BY <2>6, <2>7, <3>2, <3>3
    <3> QED
      BY <1>7, <2>4, <2>8, <2>11, <3>4
  <2>9. CASE ~(j < bit)
    <3> DEFINE n == j - bit
    <3>1. n \in 0 .. WideBits - 1
      BY <1>1, <2>1, <2>9
    <3>2. Digit(high, n) = IF k - off >= 0 THEN Digit(x, WideBits * (k - off) + n) ELSE 0
      BY <1>3, <2>1, <3>1
    <3>3. p < amt <=> ~(k - off >= 0)
      BY <2>1, <2>7, <2>10, <3>1
    <3>4. Digit(high, n) = Digit(q, p)
      BY <2>6, <2>7, <3>2, <3>3
    <3> QED
      BY <1>7, <2>4, <2>9, <2>11, <3>4
  <2> QED
    BY <2>8, <2>9
<1> HIDE DEF q
<1>10. Wide!Value(r) = q % WideModulus
  BY <1>7, <1>8, <1>9, ValueOfBits
<1> QED
  BY <1>7, <1>10 DEF q, r, x

-----------------------------------------------------------------------------
\* Byte 0 of the amount counts exactly the bits of a number: it is all of an
\* amount below that.
LEMMA AmountWide ==
    ASSUME NEW l \in Wide!U256
    PROVE  /\ Wide!shift_amount(l) \in Nat
           /\ Wide!Value(l) < WideSize => Wide!shift_amount(l) = Wide!Value(l)
<1> DEFINE y == Wide!Value(l)
<1>1. WideBytes - 1 \in Nat /\ 0 \in 0 .. WideBytes - 1 /\ WideSize = 2^WideBits /\ WideBits \in Nat
  BY WideSizes
<1>2. (y \div Place(WideBits, 0)) % 2^WideBits = l[0] /\ y \in Int /\ l[0] \in Nat
  BY <1>1, ValueOfBytes DEF IsNumber
<1> HIDE DEF y
<1>3. Place(WideBits, 0) = 1
  BY <1>1, Places
<1>4. y \div 1 = y
  BY <1>2
<1>5. y % WideSize = l[0]
  BY <1>1, <1>2, <1>3, <1>4
<1>6. y \in Nat /\ WideSize \in Nat \ {0}
  BY ValueOfBytes, WideSizes DEF y
<1>7. y < WideSize => y % WideSize = y
  BY <1>6
<1> QED
  BY <1>2, <1>5, <1>7 DEF y, Wide!shift_amount

\* The sign of a number.
LEMMA NegativeWide ==
    ASSUME NEW m \in Wide!U256
    PROVE  /\ Wide!negative(m) \in BOOLEAN
           /\ Wide!negative(m) <=> ~ (2 * Wide!Value(m) < WideModulus)
           /\ Wide!Abstract!AsSigned(Wide!Value(m))
                = IF Wide!negative(m) THEN Wide!Value(m) - WideModulus ELSE Wide!Value(m)
           /\ Wide!Abstract!AsSigned(Wide!Value(m)) \in Int
<1> DEFINE x == Wide!Value(m)
<1>1. PICK h \in Nat \ {0} : WideSize = 2 * h
  BY WideSizes
<1>2. WideBits \in Nat /\ WideBytes \in Nat \ {0} /\ 2^WideBits = 2 * h
      /\ WideSize = 2^WideBits
  BY <1>1, WideSizes
<1>3. IsNumber(x, m, WideBits, WideBytes) /\ x \in Int
  BY ValueOfBytes
<1> HIDE DEF x
<1>4. 2 * x >= Place(WideBits, WideBytes) <=> 2 * m[WideBytes - 1] >= 2^WideBits
  BY <1>2, <1>3, TopBit
<1>5. WideModulus = Place(WideBits, WideBytes) /\ WideModulus = Wide!Abstract!Modulus
      /\ WideModulus \in Int
  BY WideModuli DEF WideModulus
<1>6. Wide!negative(m) = (2 * m[WideBytes - 1] >= WideSize)
  BY DEF Wide!negative
<1>7. Wide!negative(m) \in BOOLEAN
  <2>1. \A u \in Int, v \in Int : (u >= v) \in BOOLEAN
    OBVIOUS
  <2>2. 2 * m[WideBytes - 1] \in Int /\ WideSize \in Int
    <3>1. WideBytes - 1 \in 0 .. WideBytes - 1 /\ WideSize \in Int
      BY <1>2, WideSizes
    <3>2. m[WideBytes - 1] \in Nat
      BY <3>1, ValueOfBytes
    <3> QED
      BY <3>1, <3>2
  <2> QED
    BY <1>6, <2>1, <2>2
<1>8. 2 * x >= WideModulus <=> ~(2 * x < WideModulus)
  BY <1>3, <1>5
<1>9. Wide!negative(m) <=> ~(2 * x < WideModulus)
  BY <1>2, <1>4, <1>5, <1>6, <1>8
<1>10. Wide!Abstract!AsSigned(x) = IF 2 * x < WideModulus THEN x ELSE x - WideModulus
  BY <1>5 DEF Wide!Abstract!AsSigned
<1>11. Wide!Abstract!AsSigned(x) = IF Wide!negative(m) THEN x - WideModulus ELSE x
  BY <1>9, <1>10
<1>12. Wide!Abstract!AsSigned(x) \in Int
  BY <1>3, <1>5, <1>10
<1> QED
  BY <1>7, <1>9, <1>11, <1>12 DEF x

\* Bits above those of a number.
LEMMA AboveBits ==
    ASSUME NEW k \in Nat, NEW j \in 0 .. WideBits - 1
    PROVE  /\ j \in Nat /\ WideBits * k + j \in Nat
           /\ k < WideBytes => k \in 0 .. WideBytes - 1 /\ WideBits * k + j \in 0 .. WideSize - 1
           /\ ~(k < WideBytes) => WideSize <= WideBits * k + j
<1>1. WideBits \in Nat \ {0} /\ WideBytes \in Nat \ {0} /\ WideBits * WideBytes = WideSize
      /\ WideSize \in Nat
  BY WideSizes, WideModuli
<1> DEFINE u == WideBits * k
<1>2. u \in Nat
  BY <1>1
<1>3. ~(k < WideBytes) => WideSize <= u
  <2>1. k - WideBytes >= 0 => WideBits * (k - WideBytes) >= 0
    BY <1>1, Z3
  <2>2. WideBits * (k - WideBytes) = u - WideBits * WideBytes
    BY <1>1, Z3
  <2>3. ~(k < WideBytes) => k - WideBytes >= 0
    BY <1>1
  <2> HIDE DEF u
  <2> QED
    BY <1>1, <1>2, <2>1, <2>2, <2>3
<1>4. k < WideBytes => u + WideBits <= WideSize
  <2>1. WideBytes - k - 1 >= 0 => WideBits * (WideBytes - k - 1) >= 0
    BY <1>1, Z3
  <2>2. WideBits * (WideBytes - k - 1) = WideBits * WideBytes - u - WideBits
    BY <1>1, Z3
  <2>3. k < WideBytes => WideBytes - k - 1 >= 0
    BY <1>1
  <2> HIDE DEF u
  <2> QED
    BY <1>1, <1>2, <2>1, <2>2, <2>3
<1> HIDE DEF u
<1>5. /\ j \in Nat /\ u + j \in Nat
      /\ k < WideBytes => k \in 0 .. WideBytes - 1 /\ u + j \in 0 .. WideSize - 1
      /\ ~(k < WideBytes) => WideSize <= u + j
  BY <1>1, <1>2, <1>3, <1>4
<1> QED
  BY <1>5 DEF u

\* The logical right shift.
LEMMA LogicalWide ==
    ASSUME NEW m \in Wide!U256, NEW amt \in Nat
    PROVE  /\ Wide!shr_logical(m, amt) \in Wide!U256
           /\ Wide!Value(Wide!shr_logical(m, amt)) = Wide!Value(m) \div 2^amt
<1> DEFINE x == Wide!Value(m)
<1>1. x \in Int /\ x \in 0 .. WideModulus - 1 /\ WideModulus \in Nat \ {0}
      /\ WideModulus = 2^WideSize /\ WideSize \in Nat \ {0}
  BY ValueOfBytes, WideModuli, WideSizes
<1>2. \A k \in 0 .. WideBytes - 1, j \in 0 .. WideBits - 1 :
         Digit(m[k], j) = Digit(x, WideBits * k + j)
  BY BitsOfBytes
<1> HIDE DEF x
<1>3. ASSUME NEW k \in Nat, NEW j \in 0 .. WideBits - 1
      PROVE  Digit(IF k < WideBytes THEN m[k] ELSE 0, j) = Digit(x, WideBits * k + j)
  <2>1. CASE k < WideBytes
    BY <1>2, <2>1, AboveBits
  <2>2. CASE ~(k < WideBytes)
    <3> DEFINE p == WideBits * k + j
    <3>1. p \in Nat /\ WideSize <= p /\ j \in Nat
      BY <2>2, AboveBits
    <3> HIDE DEF p
    <3>2. 0 <= x /\ x < 2^WideSize
      BY <1>1
    <3>3. Digit(x, p) = 0
      BY <1>1, <3>1, <3>2, DigitsAbove
    <3>4. 0 \in Int /\ 0 <= 0 /\ 0 < 2^0 /\ 0 \in Nat /\ 0 <= j
      BY <3>1, TwoPowers
    <3>5. Digit(0, j) = 0
      BY <3>1, <3>4, DigitsAbove
    <3> QED
      BY <2>2, <3>3, <3>5 DEF p
  <2> QED
    BY <2>1, <2>2
<1>4. Extends(x, m, 0)
  BY <1>1, <1>3 DEF Extends
<1>5. Wide!shr(m, amt, 0) \in Wide!U256
      /\ Wide!Value(Wide!shr(m, amt, 0)) = (x \div 2^amt) % WideModulus
  BY <1>4, ShrWide
<1>6. (x \div 2^amt) % WideModulus = x \div 2^amt
  <2> DEFINE n == 2^amt
             q == x \div n
  <2>1. n \in Nat \ {0}
    BY TwoPowers
  <2>2. 0 \in Int /\ WideModulus \in Int /\ 0 <= 0 /\ 0 < WideModulus /\ 0 <= x /\ x < WideModulus
    BY <1>1
  <2> HIDE DEF n
  <2>3. q \in Int /\ 0 <= q /\ q < WideModulus
    BY <1>1, <2>1, <2>2, QuotientBounds
  <2> HIDE DEF q
  <2>4. q \in 0 .. WideModulus - 1
    BY <1>1, <2>3
  <2>5. q % WideModulus = q
    BY <1>1, <2>4, Remainders
  <2> QED
    BY <2>5 DEF q, n
<1> QED
  BY <1>5, <1>6 DEF x, Wide!shr_logical

\* The arithmetic right shift.
LEMMA ArithWide ==
    ASSUME NEW m \in Wide!U256, NEW amt \in Nat
    PROVE  /\ Wide!shr_arith(m, amt) \in Wide!U256
           /\ Wide!Value(Wide!shr_arith(m, amt))
                = (Wide!Abstract!AsSigned(Wide!Value(m)) \div 2^amt) % WideModulus
<1> DEFINE x == Wide!Value(m)
           y == x - WideModulus
<1>1. x \in Int /\ x \in 0 .. WideModulus - 1 /\ WideModulus \in Nat \ {0}
      /\ WideModulus = 2^WideSize /\ WideSize \in Nat \ {0} /\ WideSize = 2^WideBits
      /\ WideBits \in Nat
  BY ValueOfBytes, WideModuli, WideSizes
<1>2. CASE ~ Wide!negative(m)
  <2>1. Wide!shr_arith(m, amt) = Wide!shr_logical(m, amt)
    BY <1>2, Zenon DEF Wide!shr_arith, Wide!shr_logical
  <2>2. /\ Wide!shr_logical(m, amt) \in Wide!U256
        /\ Wide!Value(Wide!shr_logical(m, amt)) = x \div 2^amt
    BY LogicalWide
  <2>3. Wide!Value(Wide!shr_logical(m, amt)) \in 0 .. WideModulus - 1
    BY <2>2, ValueOfBytes
  <2>4. (x \div 2^amt) % WideModulus = x \div 2^amt
    BY <1>1, <2>2, <2>3, Remainders
  <2>5. Wide!Abstract!AsSigned(x) = x
    BY <1>2, NegativeWide
  <2> QED
    BY <2>1, <2>2, <2>4, <2>5
<1>3. CASE Wide!negative(m)
  <2>1. Wide!shr_arith(m, amt) = Wide!shr(m, amt, WideSize - 1)
    BY <1>3, Zenon DEF Wide!shr_arith
  <2>2. Wide!Abstract!AsSigned(x) = y /\ y \in Int
    BY <1>1, <1>3, NegativeWide
  <2>3. \A k \in 0 .. WideBytes - 1, j \in 0 .. WideBits - 1 :
           Digit(m[k], j) = Digit(x, WideBits * k + j)
    BY BitsOfBytes
  <2>4. -(2^WideSize) <= y /\ y < 0
    BY <1>1
  <2>5. y % WideModulus = x
    <3>1. x + WideModulus * (-1) = y
      BY <1>1
    <3>2. -1 \in Int
      OBVIOUS
    <3>3. (x + WideModulus * (-1)) % WideModulus = x % WideModulus
      BY <1>1, <3>2, Congruent
    <3>4. x % WideModulus = x
      BY <1>1, Remainders
    <3> QED
      BY <3>1, <3>3, <3>4
  <2> HIDE DEF x, y
  <2>6. ASSUME NEW p \in 0 .. WideSize - 1 PROVE Digit(x, p) = Digit(y, p)
    BY <1>1, <2>2, <2>5, DigitOfRemainder
  <2>7. ASSUME NEW j \in 0 .. WideBits - 1 PROVE Digit(WideSize - 1, j) = 1
    <3>1. j \in Nat /\ -1 \in Int /\ 0 \in Nat /\ 0 <= j /\ -(2^0) <= -1 /\ -1 < 0
      BY <1>1, TwoPowers
    <3>2. Digit(-1, j) = 1
      BY <3>1, DigitsAbove
    <3>3. Digit((-1) % 2^WideBits, j) = Digit(-1, j)
      BY <1>1, <3>1, DigitOfRemainder
    <3>4. (-1) % WideSize = WideSize - 1
      <4>1. WideSize * (-1) + (WideSize - 1) = -1 /\ WideSize - 1 \in 0 .. WideSize - 1
        BY <1>1
      <4>2. (WideSize * (-1) + (WideSize - 1)) % WideSize = WideSize - 1
        BY <1>1, <3>1, <4>1, DivModUnique
      <4> QED
        BY <4>1, <4>2
    <3> QED
      BY <1>1, <3>2, <3>3, <3>4
  <2>8. ASSUME NEW k \in Nat, NEW j \in 0 .. WideBits - 1
        PROVE  Digit(IF k < WideBytes THEN m[k] ELSE WideSize - 1, j) = Digit(y, WideBits * k + j)
    <3>1. CASE k < WideBytes
      <4>1. k \in 0 .. WideBytes - 1 /\ WideBits * k + j \in 0 .. WideSize - 1
        BY <3>1, AboveBits
      <4>2. Digit(m[k], j) = Digit(x, WideBits * k + j)
        BY <2>3, <4>1
      <4>3. Digit(x, WideBits * k + j) = Digit(y, WideBits * k + j)
        BY <2>6, <4>1
      <4> QED
        BY <3>1, <4>2, <4>3
    <3>2. CASE ~(k < WideBytes)
      <4> DEFINE p == WideBits * k + j
      <4>1. p \in Nat /\ WideSize <= p
        BY <3>2, AboveBits
      <4> HIDE DEF p
      <4>2. Digit(y, p) = 1
        BY <1>1, <2>2, <2>4, <4>1, DigitsAbove
      <4> QED
        BY <2>7, <3>2, <4>2 DEF p
    <3> QED
      BY <3>1, <3>2
  <2>9. Extends(y, m, WideSize - 1)
    BY <1>1, <2>2, <2>8 DEF Extends
  <2>10. /\ Wide!shr(m, amt, WideSize - 1) \in Wide!U256
         /\ Wide!Value(Wide!shr(m, amt, WideSize - 1)) = (y \div 2^amt) % WideModulus
    BY <2>9, ShrWide
  <2> QED
    BY <2>1, <2>2, <2>10 DEF x
<1> QED
  BY <1>2, <1>3

-----------------------------------------------------------------------------
\* The topmost byte that differs decides.
LEMMA LessWide ==
    ASSUME NEW m \in Wide!U256, NEW l \in Wide!U256
    PROVE  Wide!less_unsigned(m, l) <=> Wide!Value(m) < Wide!Value(l)
<1> DEFINE x == Wide!Value(m)
           y == Wide!Value(l)
           differ == { i \in Wide!Limb : m[i] # l[i] }
           top == Wide!Max(differ)
<1>1. /\ WideBits \in Nat /\ WideBytes \in Nat /\ WideBytes - 1 \in Nat
      /\ Wide!Limb = 0 .. WideBytes - 1
  BY WideSizes DEF Wide!Limb
<1>2. IsNumber(x, m, WideBits, WideBytes) /\ IsNumber(y, l, WideBits, WideBytes)
      /\ x \in Int /\ y \in Int
  BY ValueOfBytes
<1>3. Wide!less_unsigned(m, l) <=> differ # {} /\ m[top] < l[top]
  BY Zenon DEF Wide!less_unsigned
<1>4. CASE differ = {}
  <2>1. m = l
    <3>1. \A i \in Wide!Limb : m[i] = l[i]
      BY <1>4
    <3>2. m = [i \in Wide!Limb |-> m[i]] /\ l = [i \in Wide!Limb |-> l[i]]
      BY DEF Wide!U256
    <3> QED
      BY <3>1, <3>2
  <2> QED
    BY <1>2, <1>3, <1>4, <2>1
<1>5. CASE differ # {}
  <2>1. differ \in SUBSET (0 .. WideBytes - 1)
    BY <1>1
  <2>2. \E k \in differ : \A j \in differ : j <= k
    <3> HIDE DEF differ
    <3> QED
      BY <1>1, <1>5, <2>1, Largest
  <2>3. \E k \in differ : \A j \in differ : k >= j
    <3> HIDE DEF differ
    <3>1. PICK k \in differ : \A j \in differ : j <= k
      BY <2>2
    <3>2. \A j \in differ : k >= j
      BY <1>1, <2>1, <3>1
    <3> QED
      BY <3>2
  <2>4. top \in differ /\ \A j \in differ : top >= j
    <3> HIDE DEF differ
    <3> QED
      BY <2>3, Zenon DEF Wide!Max
  <2>5. top \in 0 .. WideBytes - 1 /\ m[top] # l[top]
    BY <1>1, <2>4
  <2>6. \A i \in top + 1 .. WideBytes - 1 : m[i] = l[i]
    <3> TAKE i \in top + 1 .. WideBytes - 1
    <3>1. i \in 0 .. WideBytes - 1 /\ ~(top >= i)
      BY <1>1, <2>5
    <3>2. i \notin differ
      BY <2>4, <3>1
    <3> QED
      BY <1>1, <3>1, <3>2
  <2> HIDE DEF top, x, y
  <2>7. x < y <=> m[top] < l[top]
    BY <1>1, <1>2, <2>5, <2>6, TopDigits
  <2> QED
    BY <1>3, <1>5, <2>7 DEF x, y
<1> QED
  BY <1>4, <1>5

\* The order of the two's complement.
LEMMA LessSignedWide ==
    ASSUME NEW m \in Wide!U256, NEW l \in Wide!U256
    PROVE  Wide!less_signed(m, l)
             <=> Wide!Abstract!AsSigned(Wide!Value(m)) < Wide!Abstract!AsSigned(Wide!Value(l))
<1> DEFINE x == Wide!Value(m)
           y == Wide!Value(l)
           nm == Wide!negative(m)
           nl == Wide!negative(l)
           less == Wide!less_signed(m, l)
           sx == Wide!Abstract!AsSigned(x)
           sy == Wide!Abstract!AsSigned(y)
<1>1. /\ x \in Int /\ y \in Int /\ x \in 0 .. WideModulus - 1 /\ y \in 0 .. WideModulus - 1
      /\ WideModulus \in Nat \ {0}
  BY ValueOfBytes, WideModuli
<1>2. /\ nm \in BOOLEAN
      /\ sx = IF nm THEN x - WideModulus ELSE x
  BY NegativeWide
<1>3. /\ nl \in BOOLEAN
      /\ sy = IF nl THEN y - WideModulus ELSE y
  BY NegativeWide
<1>4. Wide!less_unsigned(m, l) <=> x < y
  BY LessWide
<1>5. less <=> IF nm # nl THEN nm ELSE Wide!less_unsigned(m, l)
  BY Zenon DEF Wide!less_signed
<1> HIDE DEF x, y, nm, nl, less, sx, sy
<1>6. ASSUME nm, nl
      PROVE  less <=> sx < sy
  <2>3. nm = nl
    BY <1>2, <1>3, <1>6
  <2>1. less <=> x < y
    BY <1>4, <1>5, <2>3, Zenon
  <2>2. sx = x - WideModulus /\ sy = y - WideModulus
    BY <1>2, <1>3, <1>6, Zenon
  <2> QED
    BY <1>1, <2>1, <2>2
<1>7. ASSUME nm, ~nl
      PROVE  less <=> sx < sy
  <2>1. less
    BY <1>4, <1>5, <1>7, Zenon
  <2>2. sx = x - WideModulus /\ sy = y
    BY <1>2, <1>3, <1>7, Zenon
  <2> QED
    BY <1>1, <2>1, <2>2
<1>8. ASSUME ~nm, nl
      PROVE  less <=> sx < sy
  <2>1. ~less
    BY <1>4, <1>5, <1>8, Zenon
  <2>2. sx = x /\ sy = y - WideModulus
    BY <1>2, <1>3, <1>8, Zenon
  <2> QED
    BY <1>1, <2>1, <2>2
<1>9. ASSUME ~nm, ~nl
      PROVE  less <=> sx < sy
  <2>3. nm = nl
    BY <1>2, <1>3, <1>9
  <2>1. less <=> x < y
    BY <1>4, <1>5, <2>3, Zenon
  <2>2. sx = x /\ sy = y
    BY <1>2, <1>3, <1>9, Zenon
  <2> QED
    BY <1>1, <2>1, <2>2
<1>10. less <=> sx < sy
  BY <1>2, <1>3, <1>6, <1>7, <1>8, <1>9, Zenon
<1> QED
  BY <1>10, Zenon DEF x, y, sx, sy, less

\* A truth value as a number.
LEMMA TruthWide ==
    ASSUME NEW p
    PROVE  /\ Wide!bool_to_u256(p) \in Wide!U256
           /\ Wide!Value(Wide!bool_to_u256(p)) = Wide!Abstract!OneIf(p)
<1> DEFINE r == Wide!bool_to_u256(p)
           v == IF p THEN 1 ELSE 0
<1>1. /\ WideBits \in Nat \ {0} /\ WideBytes \in Nat \ {0} /\ WideSize \in Nat /\ WideSize >= 2
      /\ Wide!Limb = 0 .. WideBytes - 1
  BY WideSizes DEF Wide!Limb
<1>2. r = [i \in Wide!Limb |-> IF i = 0 /\ p THEN 1 ELSE 0]
  BY DEF Wide!bool_to_u256
<1>3. r \in Wide!U256
  BY <1>1, <1>2 DEF Wide!U256
<1>4. v \in {0, 1} /\ v \in Int
  OBVIOUS
<1>5. \A k \in 0 .. WideBytes - 1 : r[k] = IF k = 0 THEN v ELSE 0
  BY <1>1, <1>2
<1> HIDE DEF r, v
<1>6. \A n \in Nat : Digit(0, n) = 0
  <2> TAKE n \in Nat
  <2>1. 0 \in Int /\ 0 <= 0 /\ 0 < 2^0 /\ 0 \in Nat /\ 0 <= n
    BY TwoPowers
  <2> QED
    BY <2>1, DigitsAbove
<1>7. \A n \in Nat : n >= 1 => Digit(1, n) = 0
  <2> TAKE n \in Nat
  <2>1. 2^1 = 2
    BY TwoPowers
  <2>2. 1 \in Int /\ 0 <= 1 /\ 1 < 2^1 /\ 1 \in Nat
    BY <2>1
  <2>3. 1 <= n => Digit(1, n) = 0
    BY <2>2, DigitsAbove
  <2> QED
    BY <2>3
<1>8. ASSUME NEW k \in 0 .. WideBytes - 1, NEW j \in 0 .. WideBits - 1
      PROVE  Digit(r[k], j) = Digit(v, WideBits * k + j)
  <2> DEFINE u == WideBits * k
  <2>1. j \in Nat /\ k \in Nat /\ u \in Nat
    BY <1>1
  <2>2. CASE k = 0
    <3>1. u = 0
      BY <1>1, <2>2
    <3>2. u + j = j
      BY <2>1, <3>1
    <3> QED
      BY <1>5, <2>2, <3>2
  <2>3. CASE k # 0
    <3>1. u >= 1
      <4>1. k - 1 >= 0 /\ WideBits \in Int /\ WideBits >= 1 /\ k \in Int
        BY <1>1, <2>1, <2>3
      <4>2. WideBits * k = WideBits * (k - 1) + WideBits
        BY <4>1, Z3
      <4>3. WideBits * (k - 1) >= 0
        BY <4>1, Z3
      <4> QED
        BY <4>1, <4>2, <4>3
    <3> HIDE DEF u
    <3>2. u + j \in Nat /\ u + j >= 1
      BY <2>1, <3>1
    <3>3. Digit(v, u + j) = 0
      BY <1>4, <1>6, <1>7, <3>2
    <3>4. Digit(0, j) = 0
      BY <1>6, <2>1
    <3> QED
      BY <1>5, <2>3, <3>3, <3>4 DEF u
  <2> QED
    BY <2>2, <2>3
<1>9. Wide!Value(r) = v % WideModulus
  BY <1>3, <1>4, <1>8, ValueOfBits
<1>10. v % WideModulus = v
  <2>1. WideModulus \in Nat \ {0} /\ WideModulus = 2^WideSize
    BY WideModuli
  <2>2. WideSize - 1 \in Nat /\ (WideSize - 1) + 1 = WideSize
    BY <1>1
  <2>3. 2^((WideSize - 1) + 1) = 2 * 2^(WideSize - 1) /\ 2^(WideSize - 1) \in Nat \ {0}
    BY <2>2, TwoPowers
  <2>4. WideModulus >= 2
    BY <2>1, <2>2, <2>3
  <2>5. v \in 0 .. WideModulus - 1
    BY <1>4, <2>1, <2>4
  <2> QED
    BY <2>1, <2>5, Remainders
<1> QED
  BY <1>3, <1>9, <1>10 DEF r, v, Wide!Abstract!OneIf

-----------------------------------------------------------------------------
\* What every instruction of int256.rs computes, but for a shift by all bits of
\* a number or more, whose result is only known to be a number.
LEMMA ResultWide ==
    ASSUME NEW op \in Wide!Ops, NEW m \in Wide!U256, NEW l \in Wide!U256
    PROVE  /\ Wide!result(op, m, l) \in Wide!U256
           /\ \/ op \in {"sll", "srl", "sra"} /\ Wide!Value(l) >= Wide!NumBits
              \/ Wide!Value(Wide!result(op, m, l))
                   = Wide!Abstract!Result(op, Wide!Value(m), Wide!Value(l))
<1> DEFINE x == Wide!Value(m)
           y == Wide!Value(l)
           M == WideModulus
           amt == Wide!shift_amount(l)
           r == Wide!result(op, m, l)
           abs == Wide!Abstract!Result(op, x, y)
<1>1. x \in Nat /\ y \in Nat /\ M = Wide!Abstract!Modulus
  BY ValueOfBytes, WideModuli
<1>2. amt \in Nat /\ (y >= Wide!NumBits \/ (y < Wide!NumBits /\ amt = y))
  <2>1. amt \in Nat /\ (y < Wide!NumBits => amt = y) /\ Wide!NumBits \in Nat
    BY AmountWide, WideModuli, WideSizes
  <2> QED
    BY <1>1, <2>1
<1>3. CASE op = "add"
  <2>1. r = Wide!add(m, l) /\ abs = (x + y) % M
    BY <1>1, <1>3 DEF Wide!result, Wide!Abstract!Result
  <2> QED
    BY <2>1, AddsWide
<1>4. CASE op = "sub"
  <2>1. r = Wide!sub(m, l) /\ abs = (x - y) % M
    BY <1>1, <1>4 DEF Wide!result, Wide!Abstract!Result
  <2> QED
    BY <2>1, SubsWide
<1>5. CASE op = "xor"
  <2>1. r = Wide!xor(m, l) /\ abs = x + y - 2 * Wide!Abstract!Common(x, y)
    BY <1>5 DEF Wide!result, Wide!Abstract!Result
  <2> QED
    BY <2>1, BitwiseWide
<1>6. CASE op = "or"
  <2>1. r = Wide!or(m, l) /\ abs = x + y - Wide!Abstract!Common(x, y)
    BY <1>6 DEF Wide!result, Wide!Abstract!Result
  <2> QED
    BY <2>1, BitwiseWide
<1>7. CASE op = "and"
  <2>1. r = Wide!and(m, l) /\ abs = Wide!Abstract!Common(x, y)
    BY <1>7 DEF Wide!result, Wide!Abstract!Result
  <2> QED
    BY <2>1, BitwiseWide
<1>8. CASE op = "sll"
  <2>1. r = Wide!shl(m, amt)
    BY <1>8 DEF Wide!result
  <2>2. y < Wide!NumBits => abs = (x * 2^y) % M
    BY <1>1, <1>8 DEF Wide!Abstract!Result
  <2> QED
    BY <1>2, <1>8, <2>1, <2>2, ShlWide
<1>9. CASE op = "srl"
  <2>1. r = Wide!shr_logical(m, amt)
    BY <1>9 DEF Wide!result
  <2>2. y < Wide!NumBits => abs = x \div 2^y
    BY <1>9 DEF Wide!Abstract!Result, Wide!Abstract!ShiftedRight
  <2> QED
    BY <1>2, <1>9, <2>1, <2>2, LogicalWide
<1>10. CASE op = "sra"
  <2>1. r = Wide!shr_arith(m, amt)
    BY <1>10 DEF Wide!result
  <2>2. y < Wide!NumBits => abs = (Wide!Abstract!AsSigned(x) \div 2^y) % M
    BY <1>1, <1>10 DEF Wide!Abstract!Result, Wide!Abstract!ShiftedRight
  <2> QED
    BY <1>2, <1>10, <2>1, <2>2, ArithWide
<1>11. CASE op = "slt"
  <2> DEFINE p == Wide!less_signed(m, l)
  <2>1. /\ r = Wide!bool_to_u256(p)
        /\ abs = Wide!Abstract!OneIf(Wide!Abstract!AsSigned(x) < Wide!Abstract!AsSigned(y))
    BY <1>11 DEF Wide!result, Wide!Abstract!Result
  <2>2. Wide!Abstract!OneIf(p)
          = Wide!Abstract!OneIf(Wide!Abstract!AsSigned(x) < Wide!Abstract!AsSigned(y))
    BY LessSignedWide DEF Wide!Abstract!OneIf
  <2>3. /\ Wide!bool_to_u256(p) \in Wide!U256
        /\ Wide!Value(Wide!bool_to_u256(p)) = Wide!Abstract!OneIf(p)
    BY TruthWide
  <2> QED
    BY <2>1, <2>2, <2>3, Zenon
<1>12. CASE op = "sltu"
  <2> DEFINE p == Wide!less_unsigned(m, l)
  <2>1. r = Wide!bool_to_u256(p) /\ abs = Wide!Abstract!OneIf(x < y)
    BY <1>12 DEF Wide!result, Wide!Abstract!Result
  <2>2. Wide!Abstract!OneIf(p) = Wide!Abstract!OneIf(x < y)
    BY LessWide DEF Wide!Abstract!OneIf
  <2>3. /\ Wide!bool_to_u256(p) \in Wide!U256
        /\ Wide!Value(Wide!bool_to_u256(p)) = Wide!Abstract!OneIf(p)
    BY TruthWide
  <2> QED
    BY <2>1, <2>2, <2>3, Zenon
<1>13. CASE op = "mul"
  <2>1. r = Wide!mul(m, l) /\ abs = Wide!Abstract!Product(x, y)
    BY <1>13 DEF Wide!result, Wide!Abstract!Result
  <2>2. Wide!Abstract!Product(x, y) = (x * y) % M
    <3> HIDE DEF x, y
    <3> QED
      BY <1>1, ProductInHalves
  <2> QED
    BY <2>1, <2>2, MulsWide
<1> QED
  BY <1>3, <1>4, <1>5, <1>6, <1>7, <1>8, <1>9, <1>10, <1>11, <1>12, <1>13 DEF Wide!Ops

\* The buffers hold numbers of bytes.
WideInv == chip = "int256" => cells \in [Cell -> Wide!U256]

\* The step of handle_int256 is the abstract one, unless it shifts everything out.
LEMMA WideSteps ==
    ASSUME cells \in [Cell -> Wide!U256], Wide!Next
    PROVE  cells' \in [Cell -> Wide!U256] /\ (~Wide!ShiftsOut => Wide!Abstract!Next)
<1> DEFINE val == [c \in Cell |-> Wide!Value(cells[c])]
<1>1. PICK op \in Wide!Ops, out \in Cell, m \in Cell, l \in Cell :
         /\ insn' = <<op, out, m, l>>
         /\ cells' = [cells EXCEPT ![out] = Wide!result(op, cells[m], cells[l])]
  BY DEF Wide!Next, Wide!handle_int256
<1>2. cells[m] \in Wide!U256 /\ cells[l] \in Wide!U256
  OBVIOUS
<1> DEFINE r == Wide!result(op, cells[m], cells[l])
<1> DEFINE abs == Wide!Abstract!Result(op, Wide!Value(cells[m]), Wide!Value(cells[l]))
           out_of_range == op \in {"sll", "srl", "sra"} /\ Wide!Value(cells[l]) >= Wide!NumBits
<1>3. r \in Wide!U256 /\ (out_of_range \/ Wide!Value(r) = abs)
  BY <1>2, ResultWide
<1> HIDE DEF r
<1>4. cells' = [cells EXCEPT ![out] = r]
  BY <1>1 DEF r
<1>5. cells' \in [Cell -> Wide!U256]
  BY <1>3, <1>4
<1>6. insn' \in Wide!Ops \X Cell \X Cell \X Cell
      /\ insn'[1] = op /\ insn'[2] = out /\ insn'[3] = m /\ insn'[4] = l
  BY <1>1
<1>7. ASSUME ~Wide!ShiftsOut
      PROVE  Wide!Abstract!Next
  <2>1. Wide!Value(r) = abs
    BY <1>3, <1>6, <1>7 DEF Wide!ShiftsOut
  <2>2. abs = Wide!Abstract!Result(op, val[m], val[l])
    OBVIOUS
  <2> HIDE DEF abs
  <2>3. [c \in Cell |-> Wide!Value(cells'[c])]
          = [val EXCEPT ![out] = Wide!Abstract!Result(op, val[m], val[l])]
    BY <1>3, <1>4, <2>1, <2>2
  <2>4. Wide!Ops = Wide!Abstract!Ops
    BY DEF Wide!Ops, Wide!Abstract!Ops
  <2> QED
    BY <1>6, <2>3, <2>4 DEF Wide!Abstract!Next
<1> QED
  BY <1>5, <1>7

\* For every size of byte and number, handle_int256 takes the steps of integer
\* arithmetic modulo 2^256: carries, borrows, shifts across bytes, columns and
\* comparisons from the topmost byte down compute what Uint256 says.  A shift by
\* all bits of a number or more is not covered (see ShiftsOut).
THEOREM WideIsArithmetic == Spec => ImplementsUint256
<1>1. ASSUME Init
      PROVE  WideInv /\ (chip = "int256" => Wide!Abstract!Init)
  <2> SUFFICES ASSUME chip = "int256"
               PROVE  cells \in [Cell -> Wide!U256] /\ Wide!Abstract!Init
    BY DEF WideInv
  <2>1. Wide!Init
    BY <1>1 DEF Init
  <2>2. cells \in [Cell -> Wide!U256]
    BY <2>1, WideSizes DEF Wide!Init
  <2>3. \A c \in Cell : Wide!Value(cells[c]) \in Wide!Abstract!Uint
    <3> TAKE c \in Cell
    <3>1. cells[c] \in Wide!U256
      BY <2>2
    <3>2. Wide!Value(cells[c]) \in 0 .. WideModulus - 1
      BY <3>1, ValueOfBytes
    <3> QED
      BY <3>2, WideModuli DEF Wide!Abstract!Uint
  <2> QED
    BY <2>1, <2>2, <2>3 DEF Wide!Init, Wide!Abstract!Init
<1>2. ASSUME WideInv, [Next]_vars
      PROVE  WideInv' /\ [chip = "int256" /\ ~Wide!ShiftsOut => Wide!Abstract!Next]_vars
  <2>1. CASE UNCHANGED vars
    BY <1>2, <2>1 DEF WideInv, vars
  <2>2. CASE Next
    <3>1. chip' = chip /\ (chip = "int256" => Wide!Next)
      BY <2>2 DEF Next, AluStep, Int256Step, ModularStep, Fp2Step, CurveStep
    <3> QED
      BY <1>2, <3>1, WideSteps DEF WideInv
  <2> QED
    BY <1>2, <2>1, <2>2
<1> QED
  BY <1>1, <1>2, PTL DEF Spec, ImplementsUint256
=============================================================================
