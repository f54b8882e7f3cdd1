--------------------------- MODULE MachineLemmas ---------------------------
(***************************************************************************)
(* Facts about the operators of Word, IoState and Memory for every size of  *)
(* a byte and of a page.  Each operation on the host's streams keeps their  *)
(* type, the frame of an entry is its length, its bytes and a padding to    *)
(* whole words, and a read that the hint stream can serve splits the stream *)
(* in two.  Each write to the memory is characterised by the bytes read     *)
(* back.                                                                    *)
(***************************************************************************)
EXTENDS Memory, IoState, NumberLemmas, SequenceTheorems

\* The sizes are positive, and a word has at least sixteen values, because a
\* byte has at least two.
LEMMA Sizes ==
    /\ ByteSize \in Nat \ {0, 1}
    /\ WordSize \in Nat \ {0}
    /\ HalfSize \in Nat \ {0}
    /\ HalfSize <= WordSize
    /\ WordSize >= 16
<1> DEFINE B  == ByteSize
           B2 == B * B
           B3 == B * B2
<1>1. B \in Nat /\ B >= 2
  BY ByteAssumption
<1>2. B2 \in Nat /\ B2 >= 4
  BY <1>1, Z3
<1>3. B3 \in Nat /\ B3 >= 2 * B2
  <2> HIDE DEF B2
  <2> QED BY <1>1, <1>2, Z3
<1>4. B * B3 \in Nat /\ B * B3 >= 2 * B3
  <2> HIDE DEF B3, B2
  <2> QED BY <1>1, <1>2, <1>3, Z3
<1>5. WordSize = B * B3 /\ HalfSize = B2
  BY DEF WordSize, HalfSize
<1> HIDE DEF B3, B2
<1>6. B3 >= 8
  BY <1>2, <1>3
<1> QED BY <1>1, <1>2, <1>3, <1>4, <1>5, <1>6

\* Words are the naturals below WordSize, which is more than fifteen.
LEMMA Words ==
    /\ \A w \in Word : w \in Nat /\ w \in Int /\ w < WordSize
    /\ \A n \in Nat : n < WordSize => n \in Word
    /\ 0 \in Word /\ 1 \in Word /\ 2 \in Word /\ 3 \in Word /\ 4 \in Word
BY Sizes DEF Word

\* There is an even number of words.
LEMMA WordSizeEven == \E h \in Int : WordSize = 2 * h
<1> DEFINE c == (ByteSize \div 2) * (ByteSize * (ByteSize * ByteSize))
<1>1. /\ ByteSize * (ByteSize * ByteSize) \in Int
      /\ ByteSize = 2 * (ByteSize \div 2) /\ ByteSize \div 2 \in Int
  BY Sizes, DivMod, ByteAssumption
<1>2. WordSize = 2 * c /\ c \in Int
  BY <1>1, Sizes, Z3 DEF WordSize
<1> QED
  BY <1>2

\* Wrapping arithmetic stays in the word.
LEMMA WrapTyped ==
    ASSUME NEW a \in Int, NEW b \in Int
    PROVE  wrapping_add(a, b) \in Word /\ wrapping_sub(a, b) \in Word
<1>1. WordSize \in Nat \ {0} /\ a + b \in Int /\ a - b \in Int
  BY Sizes
<1>2. (a + b) % WordSize \in 0 .. WordSize - 1
  BY <1>1, DivMod
<1>3. (a - b) % WordSize \in 0 .. WordSize - 1
  BY <1>1, DivMod
<1> QED BY <1>2, <1>3 DEF wrapping_add, wrapping_sub, Word

\* Sums and differences of words, wrapped, are words.
LEMMA WrapWord ==
    ASSUME NEW a \in Word, NEW b \in Word
    PROVE  wrapping_add(a, b) \in Word /\ wrapping_sub(a, b) \in Word
<1>1. a \in Int /\ b \in Int
  BY Words
<1> QED BY <1>1, WrapTyped

\* The distance from an address to the address i further on is i.
LEMMA WrapDistance ==
    ASSUME NEW a \in Word, NEW i \in Word
    PROVE  wrapping_sub(wrapping_add(a, i), a) = i
<1> DEFINE W == WordSize
<1>1. W \in Nat \ {0} /\ a \in 0 .. W - 1 /\ i \in 0 .. W - 1
  BY Sizes DEF Word
<1> HIDE DEF W
<1>2. CASE a + i < W
  <2>1. (a + i) % W = a + i
    BY <1>1, <1>2, Z3
  <2>2. ((a + i) - a) % W = i
    BY <1>1, Z3
  <2> QED BY <2>1, <2>2 DEF wrapping_add, wrapping_sub, W
<1>3. CASE a + i >= W
  <2> DEFINE r == a + i - W
  <2>0. r \in 0 .. W - 1 /\ 1 \in Int
    BY <1>1, <1>3
  <2>1. (W * 1 + r) % W = r
    <3> HIDE DEF r
    <3> QED BY <1>1, <2>0, DivModUnique
  <2>2. a + i - W = (a + i) % W
    BY <2>1, <1>1
  <2>3. (W * (-1) + i) % W = i
    BY <1>1, DivModUnique
  <2>4. (a + i - W) - a = W * (-1) + i
    BY <1>1
  <2> QED BY <2>2, <2>3, <2>4 DEF wrapping_add, wrapping_sub, W
<1> QED BY <1>1, <1>2, <1>3

\* The address at the distance of b from a is b.
LEMMA WrapReach ==
    ASSUME NEW a \in Word, NEW b \in Word
    PROVE  wrapping_add(a, wrapping_sub(b, a)) = b
<1> DEFINE W == WordSize
<1>1. W \in Nat \ {0} /\ a \in 0 .. W - 1 /\ b \in 0 .. W - 1
  BY Sizes DEF Word
<1> HIDE DEF W
<1>2. CASE b >= a
  <2>1. (b - a) % W = b - a /\ (a + (b - a)) % W = b
    BY <1>1, <1>2, Z3
  <2> QED BY <2>1 DEF wrapping_add, wrapping_sub, W
<1>3. CASE b < a
  <2> DEFINE r == b - a + W
  <2>1. r \in 0 .. W - 1 /\ -1 \in Int /\ 1 \in Int
    BY <1>1, <1>3
  <2>2. (W * (-1) + r) % W = r
    <3> HIDE DEF r
    <3> QED BY <1>1, <2>1, DivModUnique
  <2>3. (b - a) % W = r
    BY <2>2, <1>1
  <2>4. (W * 1 + b) % W = b
    BY <1>1, <2>1, DivModUnique
  <2>5. (a + r) % W = b
    BY <2>4, <1>1
  <2> QED BY <2>3, <2>5 DEF wrapping_add, wrapping_sub, W
<1> QED BY <1>1, <1>2, <1>3

\* Adding zero to a word leaves it alone.
LEMMA WrapZero == ASSUME NEW a \in Word PROVE wrapping_add(a, 0) = a
<1>1. WordSize \in Nat \ {0} /\ a \in 0 .. WordSize - 1
  BY Sizes DEF Word
<1>2. (a + 0) % WordSize = a
  <2> DEFINE W == WordSize
  <2>1. W \in Nat \ {0} /\ a \in 0 .. W - 1
    BY <1>1
  <2> HIDE DEF W
  <2>2. (a + 0) % W = a
    BY <2>1, Z3
  <2> QED BY <2>2 DEF W
<1> QED BY <1>2 DEF wrapping_add

-----------------------------------------------------------------------------
\* The bytes of a word are bytes, and four bytes make a word.
LEMMA BytesTyped ==
    ASSUME NEW w \in Int
    PROVE  /\ to_le_bytes(w) \in Seq(Byte)
           /\ Len(to_le_bytes(w)) = 4
           /\ \A i \in 1 .. 4 : to_le_bytes(w)[i] \in Byte
           /\ to_le_half(w) \in Seq(Byte)
           /\ Len(to_le_half(w)) = 2
           /\ \A i \in 1 .. 2 : to_le_half(w)[i] \in Byte
<1> DEFINE B2 == ByteSize * ByteSize
           B3 == ByteSize * B2
<1>1. ByteSize \in Nat \ {0} /\ B2 \in Nat \ {0} /\ B3 \in Nat \ {0}
  BY Sizes, Product
<1> HIDE DEF B3, B2
<1>2. /\ w % ByteSize \in Byte
      /\ (w \div ByteSize) % ByteSize \in Byte
      /\ (w \div B2) % ByteSize \in Byte
      /\ (w \div B3) % ByteSize \in Byte
  BY <1>1, DivMod DEF Byte
<1> QED BY <1>2 DEF to_le_bytes, to_le_half, B3, B2

\* A byte is a word, two bytes make a half and four a word.
LEMMA WordTyped ==
    ASSUME NEW a \in Byte, NEW b \in Byte, NEW c \in Byte, NEW d \in Byte
    PROVE  /\ a \in Word
           /\ from_le_half(<<a, b>>) \in Word
           /\ from_le_half(<<a, b>>) \in 0 .. HalfSize - 1
           /\ from_le_bytes(<<a, b, c, d>>) \in Word
<1> DEFINE B2 == ByteSize * ByteSize
           B3 == ByteSize * B2
           B4 == ByteSize * B3
           x2 == c + ByteSize * d
           x3 == b + ByteSize * x2
           x4 == a + ByteSize * x3
<1>1. ByteSize \in Nat \ {0} /\ B2 \in Nat \ {0} /\ B3 \in Nat \ {0}
  BY Sizes, Product
<1>2. x2 \in 0 .. B2 - 1 /\ a + ByteSize * b \in 0 .. B2 - 1
  BY <1>1, Horner DEF Byte
<1>3. x3 \in 0 .. B3 - 1
  <2> HIDE DEF x2, B2
  <2> QED BY <1>1, <1>2, Horner DEF Byte
<1>4. x4 \in 0 .. B4 - 1
  <2> HIDE DEF x3, B3
  <2> QED BY <1>1, <1>3, Horner DEF Byte
<1>5. from_le_bytes(<<a, b, c, d>>) = x4 /\ from_le_half(<<a, b>>) = a + ByteSize * b
  BY DEF from_le_bytes, from_le_half
<1>6. WordSize = B4 /\ HalfSize = B2
  BY DEF WordSize, HalfSize
<1>7. a \in 0 .. B2 - 1
  BY <1>1, <1>2, Z3 DEF Byte
<1> HIDE DEF x4, B4, B2
<1> QED BY <1>2, <1>4, <1>5, <1>6, <1>7, Sizes DEF Word

\* A word is put together again from its little-endian bytes.
LEMMA RoundTrip ==
    ASSUME NEW w \in Word
    PROVE  from_le_bytes(to_le_bytes(w)) = w
<1> DEFINE B  == ByteSize
           q1 == w \div B
           q2 == q1 \div B
           q3 == q2 \div B
           b1 == w % B
           b2 == q1 % B
           b3 == q2 % B
<1>1. B \in Nat \ {0} /\ w \in Int /\ 0 <= w /\ w < WordSize /\ WordSize = B * (B * (B * B))
  BY Sizes, Words DEF WordSize
<1>2. /\ q1 \in Int /\ b1 \in 0 .. B - 1 /\ w  = B * q1 + b1
      /\ q2 \in Int /\ b2 \in 0 .. B - 1 /\ q1 = B * q2 + b2
      /\ q3 \in Int /\ b3 \in 0 .. B - 1 /\ q2 = B * q3 + b3
  <2>1. q1 \in Int /\ b1 \in 0 .. B - 1 /\ w  = B * q1 + b1
    BY <1>1, DivMod
  <2>2. q2 \in Int /\ b2 \in 0 .. B - 1 /\ q1 = B * q2 + b2
    BY <1>1, <2>1, DivMod
  <2>3. q3 \in Int /\ b3 \in 0 .. B - 1 /\ q2 = B * q3 + b3
    BY <1>1, <2>2, DivMod
  <2> QED
    BY <2>1, <2>2, <2>3
<1>3. B * B \in Nat \ {0} /\ B * (B * B) \in Nat \ {0}
  BY <1>1, Product
<1>4. w \div (B * B) = q2
  <2>1. b1 + B * b2 \in 0 .. (B * B) - 1
    BY <1>1, <1>2, Horner
  <2>2. w = (B * B) * q2 + (b1 + B * b2)
    <3> HIDE DEF B, q1, q2, b1, b2
    <3> QED
      BY <1>1, <1>2, Z3
  <2> QED
    BY <1>2, <1>3, <2>1, <2>2, DivModUnique
<1>5. w \div (B * (B * B)) = q3
  <2>1. b2 + B * b3 \in 0 .. (B * B) - 1
    BY <1>1, <1>2, Horner
  <2>2. b1 + B * (b2 + B * b3) \in 0 .. (B * (B * B)) - 1
    BY <1>1, <1>2, <1>3, <2>1, Horner
  <2>3. w = (B * (B * B)) * q3 + (b1 + B * (b2 + B * b3))
    <3> HIDE DEF B, q1, q2, q3, b1, b2, b3
    <3> QED
      BY <1>1, <1>2, Z3
  <2> QED
    BY <1>2, <1>3, <2>2, <2>3, DivModUnique
<1>6. q3 % B = q3
  <2>1. q3 \in 0 .. B - 1
    <3>1. w = (B * (B * B)) * q3 + (w % (B * (B * B)))
          /\ w % (B * (B * B)) \in 0 .. (B * (B * B)) - 1
      BY <1>1, <1>3, <1>5, DivMod
    <3> DEFINE C == B * (B * B)
               r == w % C
    <3>2. C \in Nat \ {0} /\ r \in 0 .. C - 1 /\ w = C * q3 + r /\ w < C * B
      <4> HIDE DEF B, q3
      <4>1. B * (B * (B * B)) = (B * (B * B)) * B
        BY <1>1, Z3
      <4> QED
        BY <1>1, <1>3, <3>1, <4>1
    <3> HIDE DEF B, C, r, q3
    <3> QED
      BY <1>1, <1>2, <3>2, Z3
  <2>2. \A r \in 0 .. B - 1 : r % B = r
    BY <1>1, Z3
  <2> QED
    BY <2>1, <2>2
<1>7. to_le_bytes(w) = <<b1, b2, b3, q3>>
  <2>1. (w \div (B * B)) % B = b3
    BY <1>4
  <2>2. (w \div (B * (B * B))) % B = q3
    BY <1>5, <1>6
  <2> QED
    BY <2>1, <2>2 DEF to_le_bytes
<1>8. from_le_bytes(<<b1, b2, b3, q3>>) = b1 + B * (b2 + B * (b3 + B * q3))
  BY DEF from_le_bytes
<1>9. b1 + B * (b2 + B * (b3 + B * q3)) = w
  <2> HIDE DEF B, q1, q2, q3, b1, b2, b3
  <2> QED
    BY <1>1, <1>2, Z3
<1> QED
  BY <1>7, <1>8, <1>9

-----------------------------------------------------------------------------
\* A product may be reduced to a word before something is added to it.
LEMMA InnerReduction ==
    ASSUME NEW p \in Int, NEW r \in Int
    PROVE  wrapping_add(Unsigned(p), r) = (p + r) % WordSize
<1> DEFINE W == WordSize
           m == p % W
           k == p \div W
<1>1. W \in Nat \ {0}
  BY Sizes
<1>2. k \in Int /\ m \in Int /\ p = W * k + m
  BY <1>1, DivMod
<1>3. wrapping_add(Unsigned(p), r) = (m + r) % W
  BY DEF wrapping_add, Unsigned
<1> HIDE DEF W, m, k
<1>4. m + r \in Int /\ p + r = (m + r) + W * k
  BY <1>1, <1>2, Z3
<1>5. ((m + r) + W * k) % W = (m + r) % W
  BY <1>1, <1>2, <1>4, Congruent
<1> QED
  BY <1>3, <1>4, <1>5 DEF W

\* A word is its own remainder, and a multiple of WordSize changes nothing.
LEMMA WordReduced ==
    ASSUME NEW w \in Word
    PROVE  /\ w % WordSize = w
           /\ \A c \in Int : (w + WordSize * c) % WordSize = w
<1> DEFINE W == WordSize
<1>1. W \in Nat \ {0} /\ w \in 0 .. W - 1 /\ w \in Int
  BY Sizes, Words DEF Word
<1> HIDE DEF W
<1>2. w % W = w
  <2>1. (W * 0 + w) % W = w
    BY <1>1, DivModUnique
  <2> QED
    BY <1>1, <2>1
<1>3. ASSUME NEW c \in Int PROVE (w + W * c) % W = w
  <2>1. (w + W * c) % W = w % W
    BY <1>1, Congruent
  <2> QED
    BY <1>2, <2>1
<1> QED
  BY <1>2, <1>3 DEF W

\* Half of the words are negative; the two readings of a word differ by a
\* multiple of WordSize.
LEMMA Signs ==
    \E h \in Nat : /\ WordSize = 2 * h /\ h > 0
                   /\ \A w \in Word : Signed(w) = IF w < h THEN w ELSE w - 2 * h
<1>1. PICK h \in Int : WordSize = 2 * h
  BY WordSizeEven
<1>2. h \in Nat /\ h > 0
  BY <1>1, Sizes
<1>3. \A w \in Word : w \in Int /\ Signed(w) = IF 2 * w < WordSize THEN w ELSE w - WordSize
  BY Words DEF Signed, SignedIn
<1>4. \A w \in Word : Signed(w) = IF w < h THEN w ELSE w - 2 * h
  BY <1>1, <1>2, <1>3
<1> QED
  BY <1>1, <1>2, <1>4

\* An integer in the signed range survives the way to a word and back.
LEMMA SignedUnsigned ==
    ASSUME NEW i \in Int, 2 * i < WordSize, -WordSize <= 2 * i
    PROVE  Signed(Unsigned(i)) = i
<1> DEFINE W == WordSize
<1>1. W \in Nat \ {0}
  BY Sizes
<1>2. W \in Nat \ {0} /\ 2 * i < W /\ -W <= 2 * i
  BY <1>1
<1>3. Unsigned(i) = i % W /\ Signed(i % W) = IF 2 * (i % W) < W THEN i % W ELSE (i % W) - W
  BY DEF Unsigned, Signed, SignedIn
<1> HIDE DEF W
<1>4. CASE i >= 0
  <2>1. i % W = i
    <3>1. i \in 0 .. W - 1
      BY <1>2, <1>4
    <3>2. (W * 0 + i) % W = i
      BY <1>2, <3>1, DivModUnique
    <3> QED
      BY <1>2, <3>2
  <2> QED
    BY <1>2, <1>3, <2>1
<1>5. CASE i < 0
  <2>1. i % W = i + W
    <3>1. i + W \in 0 .. W - 1
      BY <1>2, <1>5
    <3>2. (W * (-1) + (i + W)) % W = i + W
      BY <1>2, <3>1, DivModUnique
    <3>3. W * (-1) + (i + W) = i
      BY <1>2
    <3> QED
      BY <3>2, <3>3
  <2> QED
    BY <1>2, <1>3, <1>5, <2>1
<1> QED
  BY <1>4, <1>5

\* A signed factor of at most h in magnitude and one of less than a word.
LEMMA ProductBound ==
    ASSUME NEW h \in Nat, h > 0, NEW s \in Int, -h <= s, s < h,
           NEW t \in Int, -(2 * h) < t, t < 2 * h
    PROVE  /\ s * t \in Int
           /\ -(h * (2 * h)) <= s * t
           /\ s * t < h * (2 * h)
<1> DEFINE W == 2 * h
<1>1. W \in Nat /\ W > 0 /\ -W < t /\ t < W
  OBVIOUS
<1> HIDE DEF W
<1>2. s * t \in Int /\ h * W \in Int
  BY <1>1, Z3
<1>3. -(h * W) <= s * t /\ s * t < h * W
  <2>1. CASE t = 0
    <3>1. s * t = 0 /\ h * W > 0
      BY <1>1, <2>1, Z3
    <3> QED
      BY <1>2, <3>1
  <2>2. CASE t > 0
    <3>1. /\ s * t < h * t /\ h * t < h * W
          /\ -(h * t) <= s * t /\ h * t \in Int
      BY <1>1, <2>2, Z3
    <3> QED
      BY <1>2, <3>1
  <2>3. CASE t < 0
    <3> DEFINE u == -t
    <3>1. u \in Int /\ u > 0 /\ u < W /\ t = -u
      BY <1>1, <2>3
    <3> HIDE DEF u
    <3>2. /\ s * u < h * u /\ h * u < h * W
          /\ -(h * u) <= s * u /\ h * u \in Int /\ s * u \in Int
          /\ s * t = -(s * u)
      BY <1>1, <3>1, Z3
    <3> QED
      BY <1>2, <3>2
  <2> QED
    BY <2>1, <2>2, <2>3
<1> QED
  BY <1>2, <1>3 DEF W

-----------------------------------------------------------------------------
\* The operations on the IoState.  Padding makes whole words.
LEMMA FramedTyped ==
    ASSUME NEW entry \in Seq(Byte)
    PROVE  /\ framed(entry) \in Seq(Byte)
           /\ Len(framed(entry)) % 4 = 0
           /\ Len(framed(entry)) \in Nat
           /\ Len(framed(entry)) - 4 - Len(entry) \in 0 .. 3
           /\ \A i \in 1 .. 4 : framed(entry)[i] = to_le_bytes(Len(entry) % WordSize)[i]
           /\ \A i \in 1 .. Len(entry) : framed(entry)[4 + i] = entry[i]
<1> DEFINE prefix == to_le_bytes(Len(entry) % WordSize)
           bytes  == prefix \o entry
           pad    == (-Len(bytes)) % 4
<1>1. Len(entry) \in Nat /\ Len(entry) % WordSize \in Int
  BY Sizes, DivMod
<1>2. prefix \in Seq(Byte) /\ Len(prefix) = 4
  BY <1>1, BytesTyped
<1>3. /\ bytes \in Seq(Byte) /\ Len(bytes) = 4 + Len(entry) /\ Len(bytes) \in Nat
      /\ \A i \in 1 .. 4 : bytes[i] = prefix[i]
      /\ \A i \in 1 .. Len(entry) : bytes[4 + i] = entry[i]
  <2> HIDE DEF prefix
  <2>1. /\ bytes \in Seq(Byte)
        /\ Len(bytes) = 4 + Len(entry)
        /\ \A i \in 1 .. 4 + Len(entry) :
              bytes[i] = IF i <= 4 THEN prefix[i] ELSE entry[i - 4]
    <3>1. /\ bytes \in Seq(Byte)
          /\ Len(bytes) = Len(prefix) + Len(entry)
          /\ \A i \in 1 .. Len(prefix) + Len(entry) :
                bytes[i] = IF i <= Len(prefix) THEN prefix[i] ELSE entry[i - Len(prefix)]
      BY <1>2, ConcatProperties
    <3> QED
      BY <1>2, <3>1
  <2> HIDE DEF bytes
  <2> QED
    BY <1>1, <2>1
<1>4. pad \in 0 .. 3 /\ (Len(bytes) + pad) % 4 = 0
  <2> DEFINE m == Len(bytes)
  <2>1. m \in Nat
    BY <1>3
  <2> HIDE DEF m
  <2>2. \A l \in Nat : (-l) % 4 \in 0 .. 3 /\ (l + ((-l) % 4)) % 4 = 0
    BY Z3
  <2>3. (-m) % 4 \in 0 .. 3 /\ (m + ((-m) % 4)) % 4 = 0
    BY <2>1, <2>2
  <2> QED
    BY <2>3 DEF m
<1>5. Zeros(pad) \in Seq(Byte) /\ Len(Zeros(pad)) = pad
  <2> HIDE DEF pad
  <2>1. pad \in Nat /\ 0 \in Byte
    BY <1>4, Sizes DEF Byte
  <2> QED
    BY <2>1 DEF Zeros
<1>6. framed(entry) = bytes \o Zeros(pad)
  BY DEF framed, pad_to_word
<1> HIDE DEF prefix, bytes, pad
<1>7. /\ framed(entry) \in Seq(Byte)
      /\ Len(framed(entry)) = Len(bytes) + pad
      /\ \A i \in 1 .. 4 : framed(entry)[i] = bytes[i]
      /\ \A i \in 1 .. Len(entry) : framed(entry)[4 + i] = bytes[4 + i]
  BY <1>1, <1>3, <1>4, <1>5, <1>6, SMTT(30)
<1> QED
  BY <1>1, <1>3, <1>4, <1>7 DEF prefix

\* The words that hold n bytes are the least whole words that do.
LEMMA WholeWords ==
    ASSUME NEW n \in Nat, NEW m \in Nat, m % 4 = 0, m - n \in 0 .. 3
    PROVE  4 * ((n + 3) \div 4) = m
BY Z3

\* The state that HintInput leaves.
LEMMA HintInputTyped ==
    ASSUME NEW s \in IoStateType, s.input_streams # <<>>
    PROVE  /\ hint_input(s) \in IoStateType
           /\ hint_input(s).input_streams = Tail(s.input_streams)
           /\ hint_input(s).hint_stream = framed(Head(s.input_streams))
           /\ hint_input(s).output = s.output
           /\ Head(s.input_streams) \in Seq(Byte)
<1> DEFINE Streams == Seq(Byte)
<1>1. s.input_streams \in Seq(Streams)
  BY DEF IoStateType
<1>2. Head(s.input_streams) \in Streams /\ Tail(s.input_streams) \in Seq(Streams)
  <2> HIDE DEF Streams
  <2> QED
    BY <1>1, HeadTailProperties
<1>3. framed(Head(s.input_streams)) \in Seq(Byte)
  BY <1>2, FramedTyped
<1> QED
  BY <1>2, <1>3 DEF hint_input, IoStateType

\* What a read of n bytes returns, and leaves.
LEMMA ReadHintTyped ==
    ASSUME NEW s \in IoStateType, NEW n \in Nat
    PROVE  /\ Len(read_hint_bytes(s, n)) = n
           /\ \A i \in 1 .. n : read_hint_bytes(s, n)[i] \in Byte
           /\ after_read_hint(s, n) \in IoStateType
           /\ after_read_hint(s, n).input_streams = s.input_streams
           /\ after_read_hint(s, n).output = s.output
           /\ Len(after_read_hint(s, n).hint_stream)
                = IF n <= Len(s.hint_stream) THEN Len(s.hint_stream) - n ELSE 0
<1> DEFINE h == s.hint_stream
           rest == SubSeq(h, n + 1, Len(h))
<1>1. h \in Seq(Byte) /\ Len(h) \in Nat
  BY DEF IoStateType
<1>2. \A i \in 1 .. Len(h) : h[i] \in Byte
  BY <1>1, ElementOfSeq
<1>3. Len(read_hint_bytes(s, n)) = n
  BY DEF read_hint_bytes
<1>4. \A i \in 1 .. n : read_hint_bytes(s, n)[i] \in Byte
  BY <1>1, <1>2, Sizes DEF read_hint_bytes, Byte
<1>5. /\ rest \in Seq(Byte)
      /\ Len(rest) = IF n + 1 <= Len(h) THEN Len(h) - (n + 1) + 1 ELSE 0
  <2>1. \A i \in n + 1 .. Len(h) : h[i] \in Byte
    BY <1>1, <1>2
  <2> HIDE DEF h
  <2> QED
    BY <1>1, <2>1, SubSeqProperties
<1>6. after_read_hint(s, n) = [s EXCEPT !.hint_stream = rest]
  BY DEF after_read_hint
<1> HIDE DEF rest
<1>7. /\ after_read_hint(s, n) \in IoStateType
      /\ after_read_hint(s, n).input_streams = s.input_streams
      /\ after_read_hint(s, n).output = s.output
      /\ after_read_hint(s, n).hint_stream = rest
  BY <1>5, <1>6 DEF IoStateType
<1> QED
  BY <1>1, <1>3, <1>4, <1>5, <1>7

\* Hints computed by the host replace what the stream holds, or follow it.
LEMMA ProducedHintTyped ==
    ASSUME NEW s \in IoStateType, NEW bytes \in Seq(Byte)
    PROVE  /\ replace_hint_stream(s, bytes) \in IoStateType
           /\ replace_hint_stream(s, bytes).hint_stream = bytes
           /\ replace_hint_stream(s, bytes).input_streams = s.input_streams
           /\ replace_hint_stream(s, bytes).output = s.output
           /\ extend_hint_stream(s, bytes) \in IoStateType
           /\ Len(extend_hint_stream(s, bytes).hint_stream)
                = Len(s.hint_stream) + Len(bytes)
           /\ extend_hint_stream(s, bytes).input_streams = s.input_streams
           /\ extend_hint_stream(s, bytes).output = s.output
<1>1. s.hint_stream \in Seq(Byte)
  BY DEF IoStateType
<1>2. s.hint_stream \o bytes \in Seq(Byte)
      /\ Len(s.hint_stream \o bytes) = Len(s.hint_stream) + Len(bytes)
  BY <1>1, ConcatProperties
<1> QED
  BY <1>2 DEF replace_hint_stream, extend_hint_stream, IoStateType

\* A REVEAL of some bytes: the output keeps or grows its length, and differs
\* from the old one, extended with zeros, in those bytes only.
LEMMA WriteOutputTyped ==
    ASSUME NEW s \in IoStateType, NEW off \in Nat, NEW bytes \in Seq(Byte)
    PROVE  /\ write_output(s, off, bytes) \in IoStateType
           /\ write_output(s, off, bytes).input_streams = s.input_streams
           /\ write_output(s, off, bytes).hint_stream = s.hint_stream
           /\ Len(write_output(s, off, bytes).output) >= Len(s.output)
           /\ \A i \in 1 .. Len(write_output(s, off, bytes).output) :
                 i \notin off + 1 .. off + Len(bytes) =>
                   write_output(s, off, bytes).output[i]
                     = IF i <= Len(s.output) THEN s.output[i] ELSE 0
<1> DEFINE old == s.output
           end == off + Len(bytes)
           n   == IF Len(old) < end THEN end ELSE Len(old)
           new == [i \in 1 .. n |-> IF i \in off + 1 .. end THEN bytes[i - off]
                                    ELSE IF i <= Len(old) THEN old[i] ELSE 0]
<1>1. old \in Seq(Byte) /\ Len(old) \in Nat /\ Len(bytes) \in Nat
  BY DEF IoStateType
<1>2. n \in Nat /\ n >= Len(old)
  BY <1>1
<1>3. /\ \A i \in 1 .. Len(old) : old[i] \in Byte
      /\ \A i \in 1 .. Len(bytes) : bytes[i] \in Byte
      /\ 0 \in Byte
  BY <1>1, ElementOfSeq, Sizes DEF Byte
<1>4. \A i \in 1 .. n : new[i] \in Byte
  BY <1>1, <1>2, <1>3
<1>5. new \in Seq(Byte) /\ Len(new) = n
  <2>1. new \in [1 .. n -> Byte]
    <3> HIDE DEF n
    <3> QED
      BY <1>4
  <2> HIDE DEF new, n
  <2> QED
    BY <1>2, <2>1
<1>6. write_output(s, off, bytes) = [s EXCEPT !.output = new]
  BY DEF write_output
<1>7. \A i \in 1 .. n : i \notin off + 1 .. end => new[i] = IF i <= Len(old) THEN old[i] ELSE 0
  OBVIOUS
<1> HIDE DEF new, n
<1>8. /\ write_output(s, off, bytes) \in IoStateType
      /\ write_output(s, off, bytes).input_streams = s.input_streams
      /\ write_output(s, off, bytes).hint_stream = s.hint_stream
      /\ write_output(s, off, bytes).output = new
  BY <1>5, <1>6 DEF IoStateType
<1> QED
  BY <1>2, <1>5, <1>7, <1>8

\* A read that the stream can serve takes its first n bytes: what is read and
\* what is left make up the stream.
LEMMA ReadSplits ==
    ASSUME NEW s \in IoStateType, NEW n \in 0 .. Len(s.hint_stream)
    PROVE  /\ read_hint_bytes(s, n) \in Seq(Byte)
           /\ after_read_hint(s, n).hint_stream \in Seq(Byte)
           /\ read_hint_bytes(s, n) \o after_read_hint(s, n).hint_stream = s.hint_stream
           /\ after_read_hint(s, n).hint_stream
                = SubSeq(s.hint_stream, n + 1, Len(s.hint_stream))
<1> DEFINE h == s.hint_stream
<1>1. h \in Seq(Byte) /\ Len(h) \in Nat /\ n \in Nat
  BY DEF IoStateType
<1>2. after_read_hint(s, n).hint_stream = SubSeq(h, n + 1, Len(h))
  BY DEF after_read_hint, IoStateType
<1>3. /\ \A i \in 1 .. n : h[i] \in Byte
      /\ \A i \in n + 1 .. Len(h) : h[i] \in Byte
  BY <1>1, ElementOfSeq
<1>4. read_hint_bytes(s, n) = [i \in 1 .. n |-> h[i]]
  BY <1>1 DEF read_hint_bytes
<1> HIDE DEF h
<1>5. /\ SubSeq(h, 1, n) \in Seq(Byte)
      /\ Len(SubSeq(h, 1, n)) = n
      /\ \A i \in 1 .. n : SubSeq(h, 1, n)[i] = h[i]
  BY <1>1, <1>3, SubSeqProperties
<1>6. [i \in 1 .. n |-> h[i]] = SubSeq(h, 1, n)
  <2> DEFINE f == [i \in 1 .. n |-> h[i]]
  <2>1. f \in [1 .. n -> Byte]
    BY <1>3
  <2>2. \A i \in 1 .. n : f[i] = h[i]
    OBVIOUS
  <2> HIDE DEF f
  <2>3. f \in Seq(Byte) /\ Len(f) = n
    BY <1>1, <2>1
  <2>4. f = SubSeq(h, 1, n)
    BY <1>5, <2>2, <2>3, SeqEqual
  <2> QED
    BY <2>4 DEF f
<1>7. SubSeq(h, n + 1, Len(h)) \in Seq(Byte)
  BY <1>1, <1>3, SubSeqProperties
<1>8. SubSeq(h, 1, n) \o SubSeq(h, n + 1, Len(h)) = h
  <2>1. /\ 1 \in 1 .. Len(h) + 1
        /\ n \in 1 - 1 .. Len(h)
        /\ Len(h) \in n .. Len(h)
    BY <1>1 DEF h
  <2>2. SubSeq(h, 1, n) \o SubSeq(h, n + 1, Len(h)) = SubSeq(h, 1, Len(h))
    BY <1>1, <2>1, ConcatAdjacentSubSeq
  <2>3. SubSeq(h, 1, Len(h)) = h
    BY <1>1, SubSeqFull
  <2> QED
    BY <2>2, <2>3
<1> QED
  BY <1>2, <1>4, <1>5, <1>6, <1>7, <1>8 DEF h

\* Concatenation of byte sequences, with the empty one as its unit.
LEMMA ByteStrings ==
    /\ \A u \in Seq(Byte) : Len(u) \in Nat /\ u \o <<>> = u /\ <<>> \o u = u
    /\ \A u, v \in Seq(Byte) : u \o v \in Seq(Byte) /\ Len(u \o v) = Len(u) + Len(v)
    /\ \A u, v, w \in Seq(Byte) : (u \o v) \o w = u \o (v \o w)
<1> DEFINE B == Byte
<1> HIDE DEF B
<1>1. \A u \in Seq(B) : Len(u) \in Nat /\ u \o <<>> = u /\ <<>> \o u = u
  BY LenProperties, ConcatEmptySeq
<1>2. \A u, v \in Seq(B) : u \o v \in Seq(B) /\ Len(u \o v) = Len(u) + Len(v)
  BY ConcatProperties
<1>3. \A u, v, w \in Seq(B) : (u \o v) \o w = u \o (v \o w)
  BY ConcatAssociative
<1> QED
  BY <1>1, <1>2, <1>3 DEF B

\* A read that the stream can serve moves bytes from the stream to the buffer.
LEMMA ReadMoves ==
    ASSUME NEW s \in IoStateType, NEW buf \in Seq(Byte),
           NEW k \in Nat, 4 * k <= Len(s.hint_stream)
    PROVE  /\ buf \o read_hint_bytes(s, 4 * k) \in Seq(Byte)
           /\ Len(buf \o read_hint_bytes(s, 4 * k)) = Len(buf) + 4 * k
           /\ (buf \o read_hint_bytes(s, 4 * k)) \o after_read_hint(s, 4 * k).hint_stream
                = buf \o s.hint_stream
           /\ after_read_hint(s, 4 * k) \in IoStateType
           /\ after_read_hint(s, 4 * k).input_streams = s.input_streams
<1> DEFINE n    == 4 * k
           read == read_hint_bytes(s, n)
           rest == after_read_hint(s, n).hint_stream
<1>1. Len(s.hint_stream) \in Nat
  BY DEF IoStateType
<1>2. n \in Nat /\ n \in 0 .. Len(s.hint_stream)
  BY <1>1
<1> HIDE DEF n
<1>3. read \in Seq(Byte) /\ rest \in Seq(Byte) /\ read \o rest = s.hint_stream
  BY <1>2, ReadSplits
<1>4. /\ Len(read) = n
      /\ after_read_hint(s, n) \in IoStateType
      /\ after_read_hint(s, n).input_streams = s.input_streams
  BY <1>2, ReadHintTyped
<1> HIDE DEF read, rest
<1>5. /\ buf \o read \in Seq(Byte)
      /\ Len(buf \o read) = Len(buf) + Len(read)
      /\ (buf \o read) \o rest = buf \o (read \o rest)
  BY <1>3, ByteStrings, Zenon
<1> QED
  BY <1>3, <1>4, <1>5 DEF read, rest, n

-----------------------------------------------------------------------------
\* An address is a page index and an offset in the page, and back.
LEMMA Addressing ==
    ASSUME NEW a \in Word
    PROVE  /\ page_idx(a) \in PageIndices
           /\ page_off(a) \in PageOffsets
           /\ a = PageSize * page_idx(a) + page_off(a)
<1> DEFINE q == a \div PageSize
           r == a % PageSize
           k == WordSize \div PageSize
<1>1. WordSize \in Nat \ {0} /\ PageSize \in Nat \ {0}
  BY Sizes, PageAssumption
<1>2. a \in Int /\ 0 <= a /\ a < WordSize
  BY <1>1 DEF Word
<1>3. q \in Int /\ r \in 0 .. PageSize - 1 /\ a = PageSize * q + r
  BY <1>1, <1>2, DivMod
<1>4. k \in Int /\ WordSize = PageSize * k
  <2>1. k \in Int /\ WordSize = PageSize * k + (WordSize % PageSize)
    BY <1>1, DivMod
  <2> HIDE DEF k
  <2> QED BY <2>1, <1>1, PageAssumption
<1> HIDE DEF q, r, k
<1>5. q >= 0
  <2>1. SUFFICES ASSUME q <= -1 PROVE FALSE
    BY <1>3
  <2>2. PageSize * q <= PageSize * (-1)
    BY <1>1, <1>3, <2>1, Z3
  <2> QED BY <1>1, <1>2, <1>3, <2>2
<1>6. q <= k - 1
  <2>1. SUFFICES ASSUME q >= k PROVE FALSE
    BY <1>3, <1>4
  <2>2. PageSize * q >= PageSize * k
    BY <1>1, <1>3, <1>4, <2>1, Z3
  <2> QED BY <1>1, <1>2, <1>3, <1>4, <2>2
<1> QED BY <1>3, <1>4, <1>5, <1>6 DEF q, r, k, page_idx, page_off, PageIndices, PageOffsets

LEMMA AddressingBack ==
    ASSUME NEW idx \in PageIndices, NEW off \in PageOffsets
    PROVE  /\ idx * PageSize + off \in Word
           /\ page_idx(idx * PageSize + off) = idx
           /\ page_off(idx * PageSize + off) = off
<1> DEFINE k == WordSize \div PageSize
           a == idx * PageSize + off
<1>1. WordSize \in Nat \ {0} /\ PageSize \in Nat \ {0}
  BY Sizes, PageAssumption
<1>2. k \in Int /\ WordSize = PageSize * k
  <2>1. k \in Int /\ WordSize = PageSize * k + (WordSize % PageSize)
    BY <1>1, DivMod
  <2> HIDE DEF k
  <2> QED BY <2>1, <1>1, PageAssumption
<1>3. idx \in 0 .. k - 1 /\ off \in 0 .. PageSize - 1
  BY DEF PageIndices, PageOffsets
<1> HIDE DEF k
<1>4. off + PageSize * idx \in 0 .. (PageSize * k) - 1
  <2>1. k \in Nat \ {0}
    BY <1>2, <1>3
  <2> QED BY <1>1, <1>3, <2>1, Horner
<1>5. a = PageSize * idx + off
  BY <1>1, <1>3, <1>2, Z3
<1>6. a \in Word
  <2> HIDE DEF a
  <2> QED BY <1>1, <1>2, <1>3, <1>4, <1>5, Z3 DEF Word
<1>7. a \div PageSize = idx /\ a % PageSize = off
  <2> HIDE DEF a
  <2> QED BY <1>1, <1>2, <1>3, <1>5, DivModUnique
<1> QED BY <1>6, <1>7 DEF page_idx, page_off

\* Two addresses are equal when they have the same page and offset.
LEMMA SameAddress ==
    ASSUME NEW a \in Word, NEW b \in Word,
           page_idx(a) = page_idx(b), page_off(a) = page_off(b)
    PROVE  a = b
BY Addressing

\* An aligned word lies within one page.
LEMMA AlignedInPage ==
    ASSUME NEW a \in Word, a % 4 = 0, NEW i \in 0 .. 3
    PROVE  /\ wrapping_add(a, i) = a + i
           /\ a + i \in Word
           /\ page_idx(a + i) = page_idx(a)
           /\ page_off(a + i) = page_off(a) + i
           /\ page_off(a) + i \in PageOffsets
<1> DEFINE q == page_idx(a)
           r == page_off(a)
           m == PageSize \div 4
<1>1. WordSize \in Nat \ {0} /\ PageSize \in Nat \ {0}
  BY Sizes, PageAssumption
<1>2. q \in PageIndices /\ r \in 0 .. PageSize - 1 /\ a = PageSize * q + r
  BY Addressing DEF PageOffsets
<1>2a. q \in Int
  BY <1>2 DEF PageIndices
<1>3. m \in Int /\ PageSize = 4 * m
  BY <1>1, PageAssumption
<1> HIDE DEF q, r, m
<1>4. r % 4 = 0
  <2>1. PageSize * q = 4 * (m * q) /\ m * q \in Int
    BY <1>3, <1>2a, Z3
  <2> QED BY <1>1, <1>2, <2>1
<1>5. r + i <= PageSize - 1
  BY <1>1, <1>2, <1>3, <1>4
<1>6. r + i \in PageOffsets
  BY <1>1, <1>2, <1>5 DEF PageOffsets
<1>7. q * PageSize + (r + i) = a + i
  BY <1>1, <1>2, <1>2a, Z3
<1>8. a + i \in Word /\ page_idx(a + i) = q /\ page_off(a + i) = r + i
  BY <1>2, <1>6, <1>7, AddressingBack
<1>9. (a + i) % WordSize = a + i
  <2> DEFINE W == WordSize
             s == a + i
  <2>1. W \in Nat \ {0} /\ s \in 0 .. W - 1
    BY <1>1, <1>8 DEF Word
  <2>2. s % W = s
    <3> HIDE DEF W, s
    <3> QED BY <2>1, Z3
  <2> QED BY <2>2
<1> QED BY <1>6, <1>8, <1>9 DEF q, r, wrapping_add

-----------------------------------------------------------------------------
\* Page tables.

\* A table maps indices to pages.
LEMMA PageTableElim ==
    ASSUME NEW pages \in PageTable
    PROVE  DOMAIN pages \in SUBSET PageIndices /\ pages \in [DOMAIN pages -> Page]
<1>1. PICK S \in SUBSET PageIndices : pages \in [S -> Page]
  BY DEF PageTable
<1> QED BY <1>1

\* A map from indices to pages is a table.
LEMMA PageTableIntro ==
    ASSUME NEW S \in SUBSET PageIndices, NEW pages \in [S -> Page]
    PROVE  pages \in PageTable
BY DEF PageTable

\* An empty memory is a table.
LEMMA NoPagesTyped ==
    /\ NoPages \in PageTable
    /\ \A a \in Word : read_u8(NoPages, a) = 0
<1>1. NoPages \in [{} -> Page] /\ {} \in SUBSET PageIndices
  BY DEF NoPages
<1> QED BY <1>1, PageTableIntro DEF NoPages, read_u8

\* A page of zeros is a page.
LEMMA ZeroPageTyped == ZeroPage \in Page
BY Sizes DEF ZeroPage, Page, Byte

\* Every byte read is a byte.
LEMMA ReadTyped ==
    ASSUME NEW pages \in PageTable, NEW a \in Word
    PROVE  read_u8(pages, a) \in Byte
BY PageTableElim, Addressing, Sizes DEF read_u8, Page, Byte

\* Touching a page adds it and changes no byte.
LEMMA Touch ==
    ASSUME NEW pages \in PageTable, NEW idx \in PageIndices
    PROVE  /\ page_mut(pages, idx) \in [DOMAIN pages \cup {idx} -> Page]
           /\ DOMAIN page_mut(pages, idx) = DOMAIN pages \cup {idx}
           /\ page_mut(pages, idx) \in PageTable
           /\ \A a \in Word : read_u8(page_mut(pages, idx), a) = read_u8(pages, a)
<1>1. DOMAIN pages \in SUBSET PageIndices /\ pages \in [DOMAIN pages -> Page]
  BY PageTableElim
<1>2. page_mut(pages, idx) \in [DOMAIN pages \cup {idx} -> Page]
  BY <1>1, ZeroPageTyped DEF page_mut
<1>3. page_mut(pages, idx) \in PageTable
  BY <1>1, <1>2, PageTableIntro
<1>4. ASSUME NEW a \in Word
      PROVE  read_u8(page_mut(pages, idx), a) = read_u8(pages, a)
  BY <1>1, Addressing DEF read_u8, page_mut, ZeroPage
<1> QED BY <1>2, <1>3, <1>4

\* A byte write changes that byte and no other.
LEMMA WriteByte ==
    ASSUME NEW pages \in PageTable, NEW a \in Word, NEW v \in Byte
    PROVE  /\ write_u8(pages, a, v) \in PageTable
           /\ \A b \in Word : read_u8(write_u8(pages, a, v), b)
                               = IF b = a THEN v ELSE read_u8(pages, b)
<1> DEFINE idx == page_idx(a)
           off == page_off(a)
           p   == page_mut(pages, idx)
           S   == DOMAIN pages \cup {idx}
           new == [p EXCEPT ![idx][off] = v]
<1>1. idx \in PageIndices /\ off \in PageOffsets
  BY Addressing
<1>2. /\ p \in [S -> Page]
      /\ \A b \in Word : read_u8(p, b) = read_u8(pages, b)
      /\ S \in SUBSET PageIndices
  BY <1>1, Touch, PageTableElim
<1> HIDE DEF p
<1>3. new \in [S -> Page]
  BY <1>1, <1>2 DEF Page
<1>4. ASSUME NEW b \in Word
      PROVE  read_u8(new, b) = IF b = a THEN v ELSE read_u8(p, b)
  <2>1. page_idx(b) \in PageIndices /\ page_off(b) \in PageOffsets
    BY Addressing
  <2>2. CASE b = a
    BY <1>1, <1>2, <2>2 DEF read_u8, Page
  <2>3. CASE b # a
    <3>1. page_idx(b) # idx \/ page_off(b) # off
      BY <2>3, SameAddress
    <3> QED BY <1>1, <1>2, <2>1, <2>3, <3>1 DEF read_u8, Page
  <2> QED BY <2>2, <2>3
<1>5. write_u8(pages, a, v) = new
  BY DEF write_u8, p
<1> QED BY <1>2, <1>3, <1>4, <1>5, PageTableIntro

-----------------------------------------------------------------------------
\* The wider accesses, in terms of bytes.

\* new is old with data written at addr and the addresses that follow it.
Writes(old, new, addr, data) ==
    \A a \in Word :
        read_u8(new, a) = LET d == wrapping_sub(a, addr)
                          IN  IF d < Len(data) THEN data[d + 1] ELSE read_u8(old, a)

\* The aligned fast path reads the same four bytes as the general one.
LEMMA ReadWord ==
    ASSUME NEW pages \in PageTable, NEW a \in Word
    PROVE  read_u32(pages, a) =
             from_le_bytes(<< read_u8(pages, a),
                              read_u8(pages, wrapping_add(a, 1)),
                              read_u8(pages, wrapping_add(a, 2)),
                              read_u8(pages, wrapping_add(a, 3)) >>)
<1>1. CASE a % 4 # 0
  BY <1>1 DEF read_u32
<1>2. CASE a % 4 = 0
  <2>1. \A i \in {1, 2, 3} : /\ wrapping_add(a, i) = a + i
                             /\ page_idx(a + i) = page_idx(a)
                             /\ page_off(a + i) = page_off(a) + i
    BY <1>2, AlignedInPage
  <2>2. CASE page_idx(a) \in DOMAIN pages
    BY <1>2, <2>1, <2>2 DEF read_u32, read_u8
  <2>3. CASE page_idx(a) \notin DOMAIN pages
    <3>1. /\ read_u8(pages, a) = 0
          /\ read_u8(pages, wrapping_add(a, 1)) = 0
          /\ read_u8(pages, wrapping_add(a, 2)) = 0
          /\ read_u8(pages, wrapping_add(a, 3)) = 0
      BY <2>1, <2>3 DEF read_u8
    <3>2. from_le_bytes(<<0, 0, 0, 0>>) = 0
      BY Sizes DEF from_le_bytes
    <3> QED BY <1>2, <2>3, <3>1, <3>2 DEF read_u32
  <2> QED BY <2>2, <2>3
<1> QED BY <1>1, <1>2

\* So are halves, words and slices.
LEMMA ReadsTyped ==
    ASSUME NEW pages \in PageTable, NEW a \in Word
    PROVE  /\ read_u8(pages, a) \in Word
           /\ read_u16(pages, a) \in Word
           /\ read_u16(pages, a) \in 0 .. HalfSize - 1
           /\ read_u32(pages, a) \in Word
<1>1. /\ wrapping_add(a, 1) \in Word
      /\ wrapping_add(a, 2) \in Word
      /\ wrapping_add(a, 3) \in Word
  BY Words, WrapWord
<1>2. /\ read_u8(pages, a) \in Byte
      /\ read_u8(pages, wrapping_add(a, 1)) \in Byte
      /\ read_u8(pages, wrapping_add(a, 2)) \in Byte
      /\ read_u8(pages, wrapping_add(a, 3)) \in Byte
  BY <1>1, ReadTyped
<1>3. read_u8(pages, a) \in Word
  BY <1>2, WordTyped
<1>4. read_u16(pages, a) \in Word /\ read_u16(pages, a) \in 0 .. HalfSize - 1
  BY <1>2, WordTyped DEF read_u16
<1>5. read_u32(pages, a) \in Word
  <2> DEFINE b0 == read_u8(pages, a)
             b1 == read_u8(pages, wrapping_add(a, 1))
             b2 == read_u8(pages, wrapping_add(a, 2))
             b3 == read_u8(pages, wrapping_add(a, 3))
  <2>1. read_u32(pages, a) = from_le_bytes(<<b0, b1, b2, b3>>)
    BY ReadWord
  <2>2. b0 \in Byte /\ b1 \in Byte /\ b2 \in Byte /\ b3 \in Byte
    BY <1>2
  <2> HIDE DEF b0, b1, b2, b3
  <2> QED BY <2>1, <2>2, WordTyped
<1> QED BY <1>3, <1>4, <1>5

\* One more byte, the v at the end of more, written behind the n written.
LEMMA WriteOneMore ==
    ASSUME NEW old \in PageTable, NEW new \in PageTable, NEW addr \in Word,
           NEW data, NEW more, NEW n \in Nat, NEW v \in Byte,
           n < WordSize, Writes(old, new, addr, data),
           Len(data) = n, Len(more) = n + 1, more[n + 1] = v,
           \A i \in 1 .. n : more[i] = data[i]
    PROVE  /\ write_u8(new, wrapping_add(addr, n), v) \in PageTable
           /\ Writes(old, write_u8(new, wrapping_add(addr, n), v), addr, more)
<1> DEFINE e == wrapping_add(addr, n)
<1>1. n \in Word /\ e \in Word
  BY Words, WrapWord
<1>2. ASSUME NEW a \in Word
      PROVE  /\ wrapping_sub(a, addr) \in Word
             /\ (a = e) <=> (wrapping_sub(a, addr) = n)
  <2>1. wrapping_sub(a, addr) \in Word
    BY WrapWord
  <2>2. a = e => wrapping_sub(a, addr) = n
    BY <1>1, WrapDistance
  <2>3. wrapping_sub(a, addr) = n => a = e
    BY WrapReach
  <2> QED BY <2>1, <2>2, <2>3
<1>3. /\ write_u8(new, e, v) \in PageTable
      /\ \A a \in Word : read_u8(write_u8(new, e, v), a)
                            = IF a = e THEN v ELSE read_u8(new, a)
  <2> HIDE DEF e
  <2> QED BY <1>1, WriteByte
<1>4. ASSUME NEW a \in Word
      PROVE  read_u8(write_u8(new, e, v), a)
               = LET d == wrapping_sub(a, addr)
                 IN  IF d < Len(more) THEN more[d + 1] ELSE read_u8(old, a)
  <2> DEFINE d == wrapping_sub(a, addr)
  <2>1. d \in Nat /\ ((a = e) <=> (d = n))
    BY <1>2, Sizes DEF Word
  <2>2. read_u8(new, a) = IF d < n THEN data[d + 1] ELSE read_u8(old, a)
    BY DEF Writes
  <2>3. read_u8(write_u8(new, e, v), a) = IF d = n THEN v ELSE read_u8(new, a)
    BY <1>3, <2>1
  <2> HIDE DEF d, e
  <2>4. d < n => more[d + 1] = data[d + 1]
    BY <2>1
  <2>5. read_u8(write_u8(new, e, v), a)
          = IF d < Len(more) THEN more[d + 1] ELSE read_u8(old, a)
    BY <2>1, <2>2, <2>3, <2>4
  <2> QED BY <2>5 DEF d
<1> QED BY <1>3, <1>4 DEF Writes

LEMMA WriteFirst ==
    ASSUME NEW old \in PageTable, NEW addr \in Word, NEW v \in Byte
    PROVE  /\ write_u8(old, addr, v) \in PageTable
           /\ Writes(old, write_u8(old, addr, v), addr, <<v>>)
<1>1. write_u8(old, addr, v) \in PageTable
  BY WriteByte
<1>2. ASSUME NEW a \in Word
      PROVE  read_u8(write_u8(old, addr, v), a)
               = LET d == wrapping_sub(a, addr)
                 IN  IF d < 1 THEN <<v>>[d + 1] ELSE read_u8(old, a)
  <2> DEFINE d == wrapping_sub(a, addr)
  <2>1. d \in Nat /\ wrapping_add(addr, d) = a
    BY WrapWord, WrapReach, Words
  <2>2. d = 0 => a = addr
    BY <2>1, WrapZero
  <2>3. a = addr => d = 0
    BY WrapZero, WrapDistance, Words
  <2>4. read_u8(write_u8(old, addr, v), a) = IF a = addr THEN v ELSE read_u8(old, a)
    BY WriteByte
  <2> HIDE DEF d
  <2>5. d < 1 => d = 0 /\ <<v>>[d + 1] = v
    BY <2>1
  <2> QED BY <2>1, <2>2, <2>3, <2>4, <2>5 DEF d
<1> QED BY <1>1, <1>2 DEF Writes

\* A half is written as two bytes.
LEMMA WriteHalf ==
    ASSUME NEW old \in PageTable, NEW addr \in Word, NEW v \in Int
    PROVE  /\ write_u16(old, addr, v) \in PageTable
           /\ Writes(old, write_u16(old, addr, v), addr, to_le_half(v))
<1> DEFINE bs == to_le_half(v)
           d1 == <<bs[1]>>
           w1 == write_u8(old, addr, bs[1])
<1>1. bs[1] \in Byte /\ bs[2] \in Byte /\ Len(bs) = 2
  BY BytesTyped
<1>2. Len(d1) = 1 /\ d1[1] = bs[1]
  OBVIOUS
<1>3. write_u16(old, addr, v) = write_u8(w1, wrapping_add(addr, 1), bs[2])
  BY DEF write_u16
<1> HIDE DEF bs
<1>4. w1 \in PageTable /\ Writes(old, w1, addr, d1)
  BY <1>1, WriteFirst
<1> HIDE DEF d1, w1
<1>5. 1 < WordSize /\ Len(bs) = 1 + 1 /\ bs[1 + 1] = bs[2] /\ \A i \in 1 .. 1 : bs[i] = d1[i]
  BY <1>1, <1>2, Sizes
<1>6. /\ write_u8(w1, wrapping_add(addr, 1), bs[2]) \in PageTable
      /\ Writes(old, write_u8(w1, wrapping_add(addr, 1), bs[2]), addr, bs)
  BY <1>1, <1>2, <1>4, <1>5, WriteOneMore
<1> QED BY <1>3, <1>6 DEF bs

LEMMA WriteWordBytewise ==
    ASSUME NEW old \in PageTable, NEW addr \in Word, NEW v \in Int, addr % 4 # 0
    PROVE  /\ write_u32(old, addr, v) \in PageTable
           /\ Writes(old, write_u32(old, addr, v), addr, to_le_bytes(v))
<1> DEFINE bs == to_le_bytes(v)
           d1 == <<bs[1]>>
           d2 == <<bs[1], bs[2]>>
           d3 == <<bs[1], bs[2], bs[3]>>
           w1 == write_u8(old, addr, bs[1])
           w2 == write_u8(w1, wrapping_add(addr, 1), bs[2])
           w3 == write_u8(w2, wrapping_add(addr, 2), bs[3])
           w4 == write_u8(w3, wrapping_add(addr, 3), bs[4])
<1>1. /\ bs[1] \in Byte /\ bs[2] \in Byte /\ bs[3] \in Byte /\ bs[4] \in Byte
      /\ Len(bs) = 4
  BY BytesTyped
<1>2. write_u32(old, addr, v) = w4
  BY DEF write_u32
<1> HIDE DEF bs
<1>3. /\ Len(d1) = 1 /\ Len(d2) = 2 /\ Len(d3) = 3
      /\ d2[2] = bs[2] /\ d3[3] = bs[3]
      /\ \A i \in 1 .. 1 : d2[i] = d1[i]
      /\ \A i \in 1 .. 2 : d3[i] = d2[i]
      /\ \A i \in 1 .. 3 : bs[i] = d3[i]
  OBVIOUS
<1>4. 1 < WordSize /\ 2 < WordSize /\ 3 < WordSize
  BY Sizes
<1>5. w1 \in PageTable /\ Writes(old, w1, addr, d1)
  BY <1>1, WriteFirst
<1> HIDE DEF d1, d2, d3, w1
<1>6. w2 \in PageTable /\ Writes(old, w2, addr, d2)
  <2>1. Len(d2) = 1 + 1 /\ d2[1 + 1] = bs[2]
    BY <1>3
  <2> QED BY <1>1, <1>3, <1>4, <1>5, <2>1, WriteOneMore
<1> HIDE DEF w2
<1>7. w3 \in PageTable /\ Writes(old, w3, addr, d3)
  <2>1. Len(d3) = 2 + 1 /\ d3[2 + 1] = bs[3]
    BY <1>3
  <2> QED BY <1>1, <1>3, <1>4, <1>6, <2>1, WriteOneMore
<1> HIDE DEF w3
<1>8. w4 \in PageTable /\ Writes(old, w4, addr, bs)
  <2>1. Len(bs) = 3 + 1 /\ bs[3 + 1] = bs[4]
    BY <1>1
  <2> QED BY <1>1, <1>3, <1>4, <1>7, <2>1, WriteOneMore
<1> QED BY <1>2, <1>8 DEF bs

LEMMA WriteWordAligned ==
    ASSUME NEW old \in PageTable, NEW addr \in Word, NEW v \in Int, addr % 4 = 0
    PROVE  /\ write_u32(old, addr, v) \in PageTable
           /\ Writes(old, write_u32(old, addr, v), addr, to_le_bytes(v))
<1> DEFINE bs  == to_le_bytes(v)
           idx == page_idx(addr)
           o   == page_off(addr)
           p   == page_mut(old, idx)
           S   == DOMAIN old \cup {idx}
           new == [p EXCEPT ![idx][o]     = bs[1], ![idx][o + 1] = bs[2],
                            ![idx][o + 2] = bs[3], ![idx][o + 3] = bs[4]]
<1>1. /\ bs[1] \in Byte /\ bs[2] \in Byte /\ bs[3] \in Byte /\ bs[4] \in Byte
      /\ Len(bs) = 4
  BY BytesTyped
<1>2. idx \in PageIndices /\ o \in PageOffsets /\ o \in Nat
  BY Addressing DEF PageOffsets
<1>3. /\ p \in [S -> Page]
      /\ \A b \in Word : read_u8(p, b) = read_u8(old, b)
      /\ S \in SUBSET PageIndices
  BY <1>2, Touch, PageTableElim
<1>4. write_u32(old, addr, v) = new
  BY DEF write_u32
<1>5. \A i \in 0 .. 3 : /\ wrapping_add(addr, i) = addr + i
                        /\ addr + i \in Word
                        /\ page_idx(addr + i) = idx
                        /\ page_off(addr + i) = o + i
                        /\ o + i \in PageOffsets
  BY AlignedInPage
<1> HIDE DEF p, bs
<1>6. new \in [S -> Page]
  <2>1. /\ o + 1 \in PageOffsets /\ o + 2 \in PageOffsets /\ o + 3 \in PageOffsets
    BY <1>5
  <2> HIDE DEF o, idx
  <2> QED BY <1>1, <1>2, <1>3, <2>1 DEF Page
<1>7. ASSUME NEW a \in Word
      PROVE  read_u8(new, a) = LET d == wrapping_sub(a, addr)
                               IN  IF d < 4 THEN bs[d + 1] ELSE read_u8(old, a)
  <2> DEFINE d == wrapping_sub(a, addr)
  <2>1. d \in Nat /\ wrapping_add(addr, d) = a
    BY WrapWord, WrapReach, Words
  <2>2. page_idx(a) \in PageIndices /\ page_off(a) \in PageOffsets
    BY Addressing
  <2>3. CASE d < 4
    <3>1. d \in 0 .. 3
      BY <2>1, <2>3
    <3>2. page_idx(a) = idx /\ page_off(a) = o + d
      <4> HIDE DEF d
      <4> QED BY <1>5, <2>1, <3>1
    <3>3. read_u8(new, a) = new[idx][o + d]
      BY <1>3, <1>6, <3>2 DEF read_u8
    <3>4. o + d \in PageOffsets
      BY <1>5, <3>1
    <3> HIDE DEF d, o, idx
    <3>5. new[idx][o + d] = bs[d + 1]
      BY <1>2, <1>3, <3>1, <3>4 DEF Page
    <3> QED BY <2>3, <3>3, <3>5 DEF d
  <2>4. CASE ~(d < 4)
    <3>1. page_idx(a) # idx \/ page_off(a) \notin {o, o + 1, o + 2, o + 3}
      <4>1. SUFFICES ASSUME page_idx(a) = idx, NEW i \in 0 .. 3, page_off(a) = o + i
                     PROVE  FALSE
        BY <1>2
      <4>2. a = addr + i
        BY <1>5, <4>1, SameAddress
      <4>3. a = wrapping_add(addr, i) /\ i \in Word
        BY <1>5, <4>2, Words
      <4>4. d = i
        BY <4>3, WrapDistance
      <4> QED BY <2>4, <4>4
    <3> HIDE DEF d, o, idx
    <3>2. read_u8(new, a) = read_u8(p, a)
      BY <1>2, <1>3, <2>2, <3>1 DEF read_u8, Page
    <3> QED BY <1>3, <2>4, <3>2 DEF d
  <2> QED BY <2>3, <2>4
<1> QED BY <1>1, <1>3, <1>4, <1>6, <1>7, PageTableIntro, ZenonT(30) DEF Writes, bs

LEMMA WriteWord ==
    ASSUME NEW old \in PageTable, NEW addr \in Word, NEW v \in Int
    PROVE  /\ write_u32(old, addr, v) \in PageTable
           /\ Writes(old, write_u32(old, addr, v), addr, to_le_bytes(v))
BY WriteWordAligned, WriteWordBytewise

-----------------------------------------------------------------------------
\* Consecutive bytes.

\* The last write to an address is one of the writes.
LEMMA LastWriteTyped ==
    ASSUME NEW addr \in Word, NEW a \in Word, NEW n \in Nat, Distance(addr, a) < n
    PROVE  /\ LastWrite(addr, n, a) \in 1 .. n
           /\ n <= WordSize => LastWrite(addr, n, a) = Distance(addr, a) + 1
<1> DEFINE d == Distance(addr, a)
           W == WordSize
           q == (n - 1 - d) \div W
<1>1. W \in Nat \ {0} /\ d \in Nat /\ d < W
  BY WrapWord, Words, Sizes DEF Distance
<1>2. LastWrite(addr, n, a) = 1 + d + W * q
  BY DEF LastWrite
<1>3. n - 1 - d \in Nat
  BY <1>1
<1> HIDE DEF W, d
<1>4. q \in Int /\ ((n - 1 - d) % W) \in 0 .. W - 1 /\ n - 1 - d = W * q + ((n - 1 - d) % W)
  <2> DEFINE m == n - 1 - d
  <2>1. m \in Int
    BY <1>3
  <2>2. m \div W \in Int /\ (m % W) \in 0 .. W - 1 /\ m = W * (m \div W) + (m % W)
    <3> HIDE DEF m
    <3> QED BY <1>1, <2>1, DivMod
  <2> QED BY <2>2
<1>5. W * q \in Int /\ W * q <= n - 1 - d
  BY <1>1, <1>4, <1>3
<1>6. W * q >= 0
  <2>1. q >= 0
    BY <1>1, <1>3, <1>4, Z3
  <2> HIDE DEF q
  <2> QED BY <1>1, <1>4, <2>1, Z3
<1>7. n <= W => W * q = 0
  <2>1. n <= W => (n - 1 - d) \div W = 0
    BY <1>1, <1>3, Z3
  <2> QED BY <1>1, <2>1
<1> HIDE DEF q
<1>8. 1 + d + W * q \in 1 .. n /\ (n <= W => 1 + d + W * q = d + 1)
  BY <1>1, <1>5, <1>6, <1>7
<1> QED BY <1>2, <1>8 DEF W, d

\* A slice leaves a table.
LEMMA WriteSliceTyped ==
    ASSUME NEW pages \in PageTable, NEW addr \in Word, NEW data, NEW n \in Nat,
           Len(data) = n, \A i \in 1 .. n : data[i] \in Byte
    PROVE  write_slice(pages, addr, data) \in PageTable
<1> DEFINE S == DOMAIN pages \cup PagesFrom(addr, n)
<1>1. S \in SUBSET PageIndices
  <2>1. ASSUME NEW i \in 0 .. n - 1
        PROVE  page_idx(wrapping_add(addr, i)) \in PageIndices
    <3>1. wrapping_add(addr, i) \in Word
      BY WrapTyped, Words
    <3> QED BY <3>1, Addressing
  <2> QED BY <2>1, PageTableElim DEF PagesFrom
<1>2. ASSUME NEW idx \in S, NEW off \in PageOffsets
      PROVE  (LET a == idx * PageSize + off
              IN  IF Distance(addr, a) < n
                  THEN data[LastWrite(addr, n, a)]
                  ELSE read_u8(pages, a)) \in Byte
  <2> DEFINE a == idx * PageSize + off
  <2>1. a \in Word
    BY <1>1, AddressingBack
  <2> HIDE DEF a
  <2>2. read_u8(pages, a) \in Byte
    BY <2>1, ReadTyped
  <2>3. Distance(addr, a) < n => data[LastWrite(addr, n, a)] \in Byte
    BY <2>1, LastWriteTyped
  <2> QED BY <2>2, <2>3 DEF a
<1>3. write_slice(pages, addr, data) \in [S -> Page]
  BY <1>2 DEF write_slice, Page
<1> QED BY <1>1, <1>3, PageTableIntro

\* What a slice does to every read.
LEMMA WriteSliceWrites ==
    ASSUME NEW pages \in PageTable, NEW addr \in Word, NEW data, NEW n \in Nat,
           Len(data) = n, n <= WordSize
    PROVE  Writes(pages, write_slice(pages, addr, data), addr, data)
<1> SUFFICES ASSUME NEW a \in Word
             PROVE  read_u8(write_slice(pages, addr, data), a)
                      = LET d == wrapping_sub(a, addr)
                        IN  IF d < n THEN data[d + 1] ELSE read_u8(pages, a)
  BY DEF Writes
<1> DEFINE d   == Distance(addr, a)
           S   == DOMAIN pages \cup PagesFrom(addr, n)
           new == write_slice(pages, addr, data)
<1>1. d \in Nat /\ d = wrapping_sub(a, addr) /\ wrapping_add(addr, d) = a
  BY WrapWord, WrapReach, Words DEF Distance
<1>2. /\ page_idx(a) \in PageIndices
      /\ page_off(a) \in PageOffsets
      /\ a = page_idx(a) * PageSize + page_off(a)
  <2>1. /\ page_idx(a) \in PageIndices /\ page_off(a) \in PageOffsets
        /\ a = PageSize * page_idx(a) + page_off(a)
    BY Addressing
  <2> QED BY <2>1, PageAssumption, Z3 DEF PageIndices, PageOffsets
<1>3. d < n => page_idx(a) \in PagesFrom(addr, n)
  BY <1>1 DEF PagesFrom
<1>4. DOMAIN new = S
  BY DEF write_slice
<1>5. CASE page_idx(a) \in S
  <2>1. read_u8(new, a) = new[page_idx(a)][page_off(a)]
    BY <1>4, <1>5 DEF read_u8
  <2>2. new[page_idx(a)][page_off(a)]
          = IF d < n THEN data[LastWrite(addr, n, a)] ELSE read_u8(pages, a)
    BY <1>2, <1>5 DEF write_slice
  <2>3. d < n => LastWrite(addr, n, a) = d + 1
    BY LastWriteTyped
  <2> QED BY <1>1, <2>1, <2>2, <2>3
<1>6. CASE page_idx(a) \notin S
  <2>1. ~(d < n)
    BY <1>3, <1>6
  <2>2. read_u8(new, a) = 0 /\ read_u8(pages, a) = 0
    BY <1>4, <1>6 DEF read_u8
  <2> QED BY <1>1, <2>1, <2>2
<1> QED BY <1>5, <1>6

-----------------------------------------------------------------------------
\* A word has XLEN digits.
LEMMA WordDigits ==
    /\ XLEN \in Nat \ {0} /\ WordSize = 2^XLEN
    /\ \A w \in Word : Bits(w) = { i \in BitPositions : Digit(w, i) = 1 }
<1> DEFINE n == ByteBits
<1>1. n \in Nat \ {0} /\ n + n \in Nat /\ n + (n + n) \in Nat /\ XLEN = n + (n + (n + n))
  BY ByteAssumption DEF XLEN
<1>2. ByteSize = 2^n
  BY ByteAssumption
<1> HIDE DEF n
<1>3. 2^XLEN = 2^n * 2^(n + (n + n))
  BY <1>1, TwoSum
<1>4. 2^(n + (n + n)) = 2^n * 2^(n + n)
  BY <1>1, TwoSum
<1>5. 2^(n + n) = 2^n * 2^n
  BY <1>1, TwoSum
<1>6. WordSize = 2^XLEN
  BY <1>2, <1>3, <1>4, <1>5 DEF WordSize
<1> QED
  BY <1>1, <1>6 DEF Bits, Digit

\* A word is the only one with its digits.
LEMMA WordOfDigits ==
    ASSUME NEW i \in Int, NEW w \in Word, w = i % WordSize
    PROVE  WordOf({ j \in BitPositions : Digit(i, j) = 1 }) = w
<1>1. XLEN \in Nat \ {0} /\ WordSize = 2^XLEN /\ WordSize \in Nat \ {0}
  BY WordDigits, Sizes
<1>2. \A v \in Word : v \in Int /\ v % WordSize = v
  BY <1>1, Words, WordReduced
<1>3. \A j \in BitPositions : j \in Nat /\ j \in 0 .. XLEN - 1
  BY <1>1 DEF BitPositions
<1>4. Bits(w) = { j \in BitPositions : Digit(i, j) = 1 }
  <2>1. \A j \in BitPositions : Digit(w, j) = Digit(i, j)
    BY <1>1, <1>3, DigitOfRemainder
  <2> QED
    BY <2>1, WordDigits
<1>5. ASSUME NEW v \in Word, Bits(v) = Bits(w)
      PROVE  v = w
  <2>1. ASSUME NEW j \in 0 .. XLEN - 1 PROVE Digit(v, j) = Digit(w, j)
    <3>1. j \in BitPositions /\ j \in Nat
      BY DEF BitPositions
    <3>2. (Digit(v, j) = 1) <=> (Digit(w, j) = 1)
      BY <1>5, <3>1, WordDigits
    <3>3. Digit(v, j) \in {0, 1} /\ Digit(w, j) \in {0, 1}
      BY <1>2, <3>1, DigitTyped
    <3> QED
      BY <3>2, <3>3
  <2>2. v % 2^XLEN = w % 2^XLEN
    <3>1. v \in Int /\ w \in Int /\ XLEN \in Nat
      BY <1>1, <1>2
    <3> QED
      BY <2>1, <3>1, DigitsBelow
  <2> QED
    BY <1>1, <1>2, <2>2
<1> DEFINE S == { j \in BitPositions : Digit(i, j) = 1 }
<1>6. Bits(WordOf(S)) = S /\ WordOf(S) \in Word
  <2>1. \E v \in Word : Bits(v) = S
    BY <1>4
  <2>2. \E v \in Word : (\E u \in Word : Bits(u) = S) => Bits(v) = S
    BY <2>1
  <2> HIDE DEF S
  <2> QED
    BY <2>1, <2>2 DEF WordOf
<1> HIDE DEF S
<1> QED
  BY <1>4, <1>5, <1>6 DEF S

\* The bits a left shift moves are the digits of a multiple.
LEMMA ShiftLeftMultiplies ==
    ASSUME NEW w \in Word, NEW n \in 0 .. XLEN - 1
    PROVE  ShiftLeft(w, n) = (w * 2^n) % WordSize
<1> DEFINE k == w * 2^n
<1>1. XLEN \in Nat \ {0} /\ n \in Nat /\ w \in Int /\ WordSize \in Nat \ {0}
  BY WordDigits, Words, Sizes
<1>2. 2^n \in Nat \ {0}
  BY <1>1, TwoPowers
<1>3. k \in Int
  BY <1>1, <1>2, Z3
<1>4. k % WordSize \in Word
  BY <1>1, <1>3, Reduced DEF Word
<1>5. \A j \in BitPositions : (j - n \in Bits(w)) <=> (Digit(k, j) = 1)
  <2> SUFFICES ASSUME NEW j \in BitPositions
               PROVE  (j - n \in Bits(w)) <=> (Digit(k, j) = 1)
    OBVIOUS
  <2>1. j \in Nat /\ j < XLEN
    BY <1>1 DEF BitPositions
  <2>2. Digit(k, j) = IF j < n THEN 0 ELSE Digit(w, j - n)
    BY <1>1, <2>1, DigitOfMultiple
  <2>3. j - n \in BitPositions <=> ~(j < n)
    BY <1>1, <2>1 DEF BitPositions
  <2> HIDE DEF k
  <2> QED
    BY <2>2, <2>3, WordDigits
<1> DEFINE S == { j \in BitPositions : j - n \in Bits(w) }
<1>6. S = { j \in BitPositions : Digit(k, j) = 1 }
  <2> HIDE DEF k
  <2> QED
    BY <1>5
<1>7. WordOf({ j \in BitPositions : Digit(k, j) = 1 }) = k % WordSize
  <2> HIDE DEF k
  <2> QED
    BY <1>3, <1>4, WordOfDigits
<1>8. ShiftLeft(w, n) = WordOf(S)
  BY DEF ShiftLeft
<1> QED
  BY <1>6, <1>7, <1>8

\* The bits a right shift moves are the digits of a quotient.
LEMMA ShiftRightDivides ==
    ASSUME NEW w \in Word, NEW n \in 0 .. XLEN - 1
    PROVE  /\ ShiftRight(w, n) = w \div 2^n
           /\ Signed(ShiftRightArith(w, n)) = Signed(w) \div 2^n
<1>1. /\ XLEN \in Nat \ {0} /\ n \in Nat /\ w \in Int /\ WordSize \in Nat \ {0}
      /\ w \in 0 .. WordSize - 1
  BY WordDigits, Words, Sizes DEF Word
<1>2. 2^n \in Nat \ {0}
  BY <1>1, TwoPowers
<1>3. ASSUME NEW j \in BitPositions PROVE j \in Nat /\ j + n \in Nat /\ j < XLEN
  BY <1>1 DEF BitPositions
<1>4. ShiftRight(w, n) = w \div 2^n
  <2> DEFINE k == w \div 2^n
             S == { j \in BitPositions : j + n \in Bits(w) }
  <2>1. k \in Int /\ k \in Word /\ k % WordSize = k
    <3>1. k \in Int /\ 0 <= k /\ k < WordSize
      BY <1>1, <1>2, QuotientBounds
    <3> HIDE DEF k
    <3> QED
      BY <1>1, <3>1, WordReduced DEF Word
  <2>2. \A j \in BitPositions : (j + n \in Bits(w)) <=> (Digit(k, j) = 1)
    <3> SUFFICES ASSUME NEW j \in BitPositions
                 PROVE  (j + n \in Bits(w)) <=> (Digit(k, j) = 1)
      OBVIOUS
    <3>1. Digit(k, j) = Digit(w, j + n)
      BY <1>1, <1>3, DigitOfQuotient
    <3>2. CASE j + n < XLEN
      <4>1. j + n \in BitPositions
        BY <1>1, <1>3, <3>2 DEF BitPositions
      <4> HIDE DEF k
      <4> QED
        BY <3>1, <4>1, WordDigits
    <3>3. CASE XLEN <= j + n
      <4>1. j + n \notin BitPositions
        BY <1>1, <1>3, <3>3 DEF BitPositions
      <4>2. 0 <= w /\ w < 2^XLEN
        BY <1>1, WordDigits
      <4>3. Digit(w, j + n) = 0
        BY <1>1, <1>3, <3>3, <4>2, DigitsAbove
      <4> HIDE DEF k
      <4> QED
        BY <3>1, <4>1, <4>3, WordDigits
    <3>4. j + n < XLEN \/ XLEN <= j + n
      BY <1>1, <1>3
    <3> QED
      BY <3>2, <3>3, <3>4
  <2>3. S = { j \in BitPositions : Digit(k, j) = 1 }
    <3> HIDE DEF k
    <3> QED
      BY <2>2
  <2>4. WordOf({ j \in BitPositions : Digit(k, j) = 1 }) = k
    <3> HIDE DEF k
    <3> QED
      BY <2>1, WordOfDigits
  <2>5. ShiftRight(w, n) = WordOf(S)
    BY DEF ShiftRight
  <2> QED
    BY <2>3, <2>4, <2>5
<1>5. Signed(ShiftRightArith(w, n)) = Signed(w) \div 2^n
  <2> DEFINE i == Signed(w)
             k == i \div 2^n
             S == { j \in BitPositions :
                      IF j + n < XLEN THEN j + n \in Bits(w) ELSE XLEN - 1 \in Bits(w) }
             X == XLEN - 1
             h == 2^X
  <2>1. X \in Nat /\ X + 1 = XLEN /\ h \in Nat \ {0} /\ WordSize = 2 * h
    <3>1. X \in Nat /\ X + 1 = XLEN
      BY <1>1
    <3> QED
      BY <3>1, TwoPowers, WordDigits
  <2> HIDE DEF X, h
  <2>2. i \in Int /\ i = (IF w < h THEN w ELSE w - 2 * h) /\ -h <= i /\ i < h
    BY <1>1, <2>1 DEF Signed, SignedIn
  <2>3. i % WordSize = w
    <3>1. w % WordSize = w /\ \A c \in Int : (w + WordSize * c) % WordSize = w
      BY WordReduced
    <3>2. i = w \/ i = w + WordSize * (-1)
      BY <1>1, <2>1, <2>2
    <3>3. -1 \in Int
      OBVIOUS
    <3> HIDE DEF i
    <3> QED
      BY <3>1, <3>2, <3>3
  <2> HIDE DEF i
  <2>4. k \in Int /\ 2 * k < WordSize /\ -WordSize <= 2 * k
    <3>1. k \in Int /\ -h <= k /\ k < h
      BY <1>2, <2>1, <2>2, QuotientBounds
    <3> HIDE DEF k
    <3> QED
      BY <2>1, <3>1
  <2>5. \A j \in 0 .. XLEN - 1 : Digit(w, j) = Digit(i, j)
    BY <1>1, <2>2, <2>3, DigitOfRemainder, WordDigits
  <2>6. \A j \in BitPositions : j \in Bits(w) <=> Digit(i, j) = 1
    BY <2>5, WordDigits DEF BitPositions
  <2>7. X \in Bits(w) <=> i < 0
    <3>1. X \in BitPositions /\ X <= X
      BY <1>1, <2>1 DEF BitPositions
    <3>2. /\ 0 <= i /\ i < h => Digit(i, X) = 0
          /\ -h <= i /\ i < 0 => Digit(i, X) = 1
      BY <2>1, <2>2, <3>1, DigitsAbove DEF h
    <3> QED
      BY <2>2, <2>6, <3>1, <3>2
  <2>8. ASSUME NEW j \in BitPositions
        PROVE  (IF j + n < XLEN THEN j + n \in Bits(w) ELSE X \in Bits(w)) <=> (Digit(k, j) = 1)
    <3>1. Digit(k, j) = Digit(i, j + n)
      BY <1>1, <1>3, <2>2, DigitOfQuotient
    <3> HIDE DEF k
    <3>2. CASE j + n < XLEN
      <4>1. j + n \in BitPositions
        BY <1>1, <1>3, <3>2 DEF BitPositions
      <4> QED
        BY <2>6, <3>1, <3>2, <4>1
    <3>3. CASE ~(j + n < XLEN)
      <4>1. X <= j + n
        BY <1>1, <1>3, <2>1, <3>3
      <4>2. /\ 0 <= i /\ i < h => Digit(i, j + n) = 0
            /\ -h <= i /\ i < 0 => Digit(i, j + n) = 1
        BY <1>3, <2>1, <2>2, <4>1, DigitsAbove DEF h
      <4> QED
        BY <2>2, <2>7, <3>1, <3>3, <4>2
    <3> QED
      BY <3>2, <3>3
  <2>9. S = { j \in BitPositions : Digit(k, j) = 1 }
    <3> HIDE DEF k
    <3> QED
      BY <2>8 DEF X
  <2>10. Unsigned(k) \in Word /\ Unsigned(k) = k % WordSize
    <3> HIDE DEF k
    <3> QED
      BY <1>1, <2>4, Reduced DEF Word, Unsigned
  <2>11. WordOf({ j \in BitPositions : Digit(k, j) = 1 }) = Unsigned(k)
    <3> HIDE DEF k
    <3> QED
      BY <2>4, <2>10, WordOfDigits
  <2>12. Signed(Unsigned(k)) = k
    <3> HIDE DEF k
    <3> QED
      BY <2>4, SignedUnsigned
  <2>13. ShiftRightArith(w, n) = WordOf(S)
    BY DEF ShiftRightArith
  <2>14. Signed(ShiftRightArith(w, n)) = k
    BY <2>9, <2>11, <2>12, <2>13
  <2> QED
    BY <2>14 DEF i
<1> QED
  BY <1>4, <1>5
=============================================================================
