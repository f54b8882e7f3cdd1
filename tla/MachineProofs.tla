--------------------------- MODULE MachineProofs ---------------------------
(***************************************************************************)
(* The interpreter, for every byte size, page size, program, step budget,   *)
(* input and table of moduli, curves and pairings.  StepShape, proved       *)
(* instruction by instruction, says what a step can do: stop in place, or   *)
(* go on, to an even address, with one of five changes of the host's state. *)
(* TypeOK is the inductive invariant it rests on; the theorems on the hint  *)
(* stream, the program counter, the step budget, the queue and the output   *)
(* follow from the shape.  Before it stands what the operators yield: every *)
(* immediate and every result of the ALU is a word, and the initial image a *)
(* page table.  The last part is one program: the echo guest, instruction by*)
(* instruction, in the process that loads it and prints its output.         *)
(***************************************************************************)
EXTENDS Runner, MachineLemmas

\* as u32 of any integer is a word.
LEMMA UnsignedTyped == ASSUME NEW i \in Int PROVE Unsigned(i) \in Word
BY DivMod, Sizes DEF Unsigned, Word

\* Sign extension yields an integer.
LEMMA SignedTyped ==
    ASSUME NEW v \in Int, NEW sz \in Int
    PROVE  SignedIn(v, sz) \in Int
BY DEF SignedIn

\* The word of a set of bits is a word, whatever the set.
LEMMA WordOfTyped == ASSUME NEW S PROVE WordOf(S) \in Word
<1>1. \E w \in Word : (\E v \in Word : Bits(v) = S) => Bits(w) = S
  BY Words
<1> QED
  BY <1>1 DEF WordOf

\* Bitwise operators and shifts yield words.
LEMMA BitwiseTyped ==
    /\ \A a, b : BitAnd(a, b) \in Word /\ BitOr(a, b) \in Word /\ BitXor(a, b) \in Word
    /\ \A a, n : /\ ShiftLeft(a, n) \in Word
                 /\ ShiftRight(a, n) \in Word
                 /\ ShiftRightArith(a, n) \in Word
    /\ \A a, b : XorByte(a, b) \in Byte
<1>1. \A a, b : BitAnd(a, b) \in Word /\ BitOr(a, b) \in Word /\ BitXor(a, b) \in Word
  BY WordOfTyped DEF BitAnd, BitOr, BitXor
<1>2. \A a, n : ShiftLeft(a, n) \in Word /\ ShiftRight(a, n) \in Word
  BY WordOfTyped DEF ShiftLeft, ShiftRight
<1>3. \A a, n : ShiftRightArith(a, n) \in Word
  BY WordOfTyped DEF ShiftRightArith
<1>4. \A a, b : XorByte(a, b) \in Byte
  <2> SUFFICES ASSUME NEW a, NEW b
               PROVE  XorByte(a, b) \in Byte
    OBVIOUS
  <2>1. BitXor(a, b) \in Int /\ ByteSize \in Nat \ {0}
    BY <1>1, Words, Sizes
  <2> QED
    BY <2>1, DivMod DEF XorByte, Byte
<1> QED
  BY <1>1, <1>2, <1>3, <1>4

-----------------------------------------------------------------------------
\* The bit fields of an instruction are bounded numbers.
LEMMA FieldsTyped ==
    ASSUME NEW insn \in Insn
    PROVE  /\ insn.rd  \in 0 .. 31 /\ insn.rd  \in Int /\ 0 <= insn.rd  /\ insn.rd  <= 31
           /\ insn.rs1 \in 0 .. 31 /\ insn.rs1 \in Int /\ 0 <= insn.rs1 /\ insn.rs1 <= 31
           /\ insn.rs2 \in 0 .. 31 /\ insn.rs2 \in Int /\ 0 <= insn.rs2 /\ insn.rs2 <= 31
           /\ insn.funct3 \in 0 .. 7   /\ insn.funct3 \in Int
           /\ insn.funct7 \in 0 .. 127 /\ insn.funct7 \in Int
           /\ 0 <= insn.funct7 /\ insn.funct7 <= 127
<1>1. /\ insn.rd \in 0 .. 31 /\ insn.rs1 \in 0 .. 31 /\ insn.rs2 \in 0 .. 31
      /\ insn.funct3 \in 0 .. 7 /\ insn.funct7 \in 0 .. 127
  BY DEF Insn
<1>2. /\ \A v \in 0 .. 31  : v \in Int /\ 0 <= v /\ v <= 31
      /\ \A v \in 0 .. 7   : v \in Int
      /\ \A v \in 0 .. 127 : v \in Int /\ 0 <= v /\ v <= 127
  BY SMT
<1> QED
  BY <1>1, <1>2

\* The immediates of an instruction are words.
LEMMA ImmediatesTyped ==
    ASSUME NEW insn \in Insn
    PROVE  /\ imm12(insn) \in Nat
           /\ imm_i(insn) \in Word /\ imm_s(insn) \in Word
           /\ imm_b(insn) \in Word /\ imm_j(insn) \in Word /\ imm_u(insn) \in Word
<1>1. imm12(insn) \in Nat /\ imm12(insn) \in Int
  BY FieldsTyped, SMT DEF imm12
<1>2. imm_i(insn) \in Word
  BY <1>1, SignedTyped, UnsignedTyped, SMT DEF imm_i
<1>3. imm_s(insn) \in Word
  <2>1. insn.funct7 * 32 + insn.rd \in Int
    BY FieldsTyped, SMT
  <2> QED
    BY <2>1, SignedTyped, UnsignedTyped, SMT DEF imm_s
<1>4. /\ sign(insn) \in Int /\ insn.rd % 2 \in Int /\ insn.rd \div 2 \in Int
      /\ insn.rs2 % 2 \in Int /\ insn.rs2 \div 2 \in Int /\ insn.funct7 % 64 \in Int
  <2>1. \A v \in Int : v \div 64 \in Int /\ v % 64 \in Int /\ v \div 2 \in Int /\ v % 2 \in Int
    BY DivMod
  <2> QED
    BY FieldsTyped, <2>1 DEF sign
<1>5. imm_b(insn) \in Word
  <2>1. 2 * (-2048 * sign(insn) + 1024 * (insn.rd % 2)
             + 16 * (insn.funct7 % 64) + (insn.rd \div 2)) \in Int
    BY <1>4, SMT
  <2> QED
    BY <2>1, UnsignedTyped, SMT DEF imm_b
<1>6. imm_j(insn) \in Word
  <2>1. 2 * (-524288 * sign(insn) + 2048 * (8 * insn.rs1 + insn.funct3)
             + 1024 * (insn.rs2 % 2)
             + 16 * (insn.funct7 % 64) + (insn.rs2 \div 2)) \in Int
    BY FieldsTyped, <1>4, SMT
  <2> QED
    BY <2>1, UnsignedTyped, SMT DEF imm_j
<1>7. imm_u(insn) \in Word
  <2>1. UpperUnit * (8192 * insn.funct7 + 256 * insn.rs2 + 8 * insn.rs1 + insn.funct3) \in Int
    BY FieldsTyped, UpperAssumption, SMT
  <2> QED
    BY <2>1, UnsignedTyped, SMT DEF imm_u
<1> QED
  BY <1>1, <1>2, <1>3, <1>5, <1>6, <1>7

\* Branch and jump offsets are even.
LEMMA OffsetsEven ==
    ASSUME NEW insn \in Insn
    PROVE  imm_b(insn) % 2 = 0 /\ imm_j(insn) % 2 = 0
<1>1. ASSUME NEW i \in Int
      PROVE  Unsigned(2 * i) % 2 = 0
  <2>1. PICK h \in Int : WordSize = 2 * h
    BY WordSizeEven
  <2> DEFINE q == (2 * i) \div WordSize
             u == Unsigned(2 * i)
  <2>2. q \in Int /\ u \in Int /\ 2 * i = WordSize * q + u
    BY Sizes, DivMod, UnsignedTyped, Words DEF Unsigned
  <2> HIDE DEF q, u
  <2>3. u = 2 * (i - h * q) /\ i - h * q \in Int
    BY <2>1, <2>2, Z3
  <2>4. u % 2 = 0
    BY <2>3
  <2> QED
    BY <2>4 DEF u
<1>3. \A v \in Int : v \div 64 \in Int /\ v % 64 \in Int /\ v \div 2 \in Int /\ v % 2 \in Int
  BY DivMod
<1>4. -2048 * sign(insn) + 1024 * (insn.rd % 2)
         + 16 * (insn.funct7 % 64) + (insn.rd \div 2) \in Int
  BY FieldsTyped, <1>3, SMT DEF sign
<1>5. -524288 * sign(insn) + 2048 * (8 * insn.rs1 + insn.funct3)
         + 1024 * (insn.rs2 % 2) + 16 * (insn.funct7 % 64) + (insn.rs2 \div 2) \in Int
  BY FieldsTyped, <1>3, SMT DEF sign
<1> QED
  BY <1>1, <1>4, <1>5 DEF imm_b, imm_j

-----------------------------------------------------------------------------
\* Quotients and remainders are words, for every divisor.
LEMMA DivisionTyped ==
    ASSUME NEW a \in Word, NEW b \in Word
    PROVE  /\ div(a, b) \in Word  /\ rem(a, b) \in Word
           /\ divu(a, b) \in Word /\ remu(a, b) \in Word
<1>1. /\ WordSize \in Nat \ {0} /\ WordSize >= 16
      /\ a \in Int /\ 0 <= a /\ a < WordSize
      /\ b \in Int /\ 0 <= b /\ b < WordSize
  BY Sizes, Words
<1>2. AllOnes \in Word /\ MinSigned \in Word /\ 0 \in Word
  <2>1. WordSize \div 2 \in Int /\ WordSize = 2 * (WordSize \div 2) + (WordSize % 2)
        /\ WordSize % 2 \in 0 .. 1
    BY <1>1, DivMod
  <2> DEFINE h == WordSize \div 2
             r == WordSize % 2
  <2>2. h \in Int /\ r \in 0 .. 1 /\ WordSize = 2 * h + r
    BY <2>1
  <2> HIDE DEF h, r
  <2>3. h \in Nat /\ h < WordSize
    BY <2>2, <1>1
  <2> QED
    BY <2>3, <1>1, Words DEF AllOnes, MinSigned, h, Word
<1>3. divu(a, b) \in Word /\ remu(a, b) \in Word
  <2>1. CASE b = 0
    BY <2>1, <1>2 DEF divu, remu
  <2>2. CASE b # 0
    <3>1. /\ a \div b \in Int /\ a % b \in 0 .. b - 1
          /\ a = b * (a \div b) + (a % b)
      <4>1. b \in Nat \ {0}
        BY <2>2, <1>1
      <4> QED
        BY <4>1, <1>1, DivMod
    <3> DEFINE q == a \div b
               r == a % b
    <3>2. q \in Int /\ r \in Int /\ 0 <= r /\ r < b /\ a = b * q + r
      BY <3>1, <1>1
    <3> HIDE DEF q, r
    <3>3. 0 <= q /\ q <= a
      BY <3>2, <2>2, <1>1, Z3
    <3>4. q \in Word /\ r \in Word
      BY <3>2, <3>3, <1>1, Words
    <3> QED
      BY <3>4, <2>2 DEF divu, remu, q, r
  <2> QED
    BY <2>1, <2>2
<1>4. ASSUME b # 0
      PROVE  TruncDiv(Signed(a), Signed(b)) \in Int /\ TruncRem(Signed(a), Signed(b)) \in Int
  <2>1. /\ Signed(a) \in Int /\ Signed(b) \in Int /\ Signed(b) # 0
    BY <1>1, <1>4 DEF Signed, SignedIn
  <2>2. /\ Abs(Signed(a)) \in Int
        /\ Abs(Signed(b)) \in Nat \ {0}
    BY <2>1 DEF Abs
  <2>3. Abs(Signed(a)) \div Abs(Signed(b)) \in Int
    BY <2>2, DivMod
  <2>4. TruncDiv(Signed(a), Signed(b)) \in Int
    BY <2>3 DEF TruncDiv
  <2> QED
    BY <2>1, <2>4, Z3 DEF TruncRem
<1>5. div(a, b) \in Word /\ rem(a, b) \in Word
  BY <1>2, <1>4, UnsignedTyped DEF div, rem
<1> QED
  BY <1>3, <1>5

\* Register operations and immediate operations yield words.
LEMMA BaseOpTyped ==
    ASSUME NEW a \in Word, NEW b \in Word, NEW funct3 \in 0 .. 7
    PROVE  base_op(funct3, a, b) \in Word /\ m_op(funct3, a, b) \in Word
<1>1. /\ a \in Int /\ b \in Int /\ 0 \in Word /\ 1 \in Word
      /\ WordSize \in Nat \ {0} /\ WordSize \in Int
  BY Words, Sizes
<1>2. funct3 \in {0, 1, 2, 3, 4, 5, 6, 7}
  OBVIOUS
<1>3. base_op(funct3, a, b) \in Word
  <2>1. \A p : truth(p) \in Word
    BY <1>1 DEF truth
  <2>2. wrapping_add(a, b) \in Word
    BY WrapWord
  <2> QED
    BY <1>2, <2>1, <2>2, BitwiseTyped DEF base_op
<1>4. m_op(funct3, a, b) \in Word
  <2>1. \A i \in Int : upper(i) \in Word
    BY <1>1, DivMod, UnsignedTyped DEF upper
  <2>2. Signed(a) \in Int /\ Signed(b) \in Int
    BY <1>1, SignedTyped DEF Signed
  <2>3. a * b \in Int /\ Signed(a) * Signed(b) \in Int /\ Signed(a) * b \in Int
    BY <1>1, <2>2, Z3
  <2> QED
    BY <1>2, <2>1, <2>3, UnsignedTyped, DivisionTyped DEF m_op
<1> QED
  BY <1>3, <1>4

LEMMA OpTyped ==
    ASSUME NEW insn \in Insn, OpLegal(insn), NEW a \in Word, NEW b \in Word
    PROVE  op_value(insn.funct7, insn.funct3, a, b) \in Word
<1>1. insn.funct3 \in 0 .. 7
  BY FieldsTyped
<1>2. wrapping_sub(a, b) \in Word
  BY WrapWord
<1> QED
  BY <1>1, <1>2, BaseOpTyped, BitwiseTyped DEF op_value, OpLegal

LEMMA OpImmTyped ==
    ASSUME NEW insn \in Insn, OpImmLegal(insn), NEW a \in Word
    PROVE  op_imm_value(insn, a) \in Word
<1>1. insn.funct3 \in 0 .. 7 /\ imm_i(insn) \in Word
  BY FieldsTyped, ImmediatesTyped
<1>2. base_op(insn.funct3, a, imm_i(insn)) \in Word
  BY <1>1, BaseOpTyped
<1> QED
  BY <1>2, BitwiseTyped DEF op_imm_value, OpImmLegal

-----------------------------------------------------------------------------
\* Loads yield words, stores page tables.
LEMMA LoadedTyped ==
    ASSUME pages \in PageTable, NEW addr \in Word, NEW funct3 \in {0, 1, 2, 4, 5}
    PROVE  loaded(funct3, addr) \in Word
<1>1. /\ read_u8(pages, addr) \in Word
      /\ read_u16(pages, addr) \in Word
      /\ read_u32(pages, addr) \in Word
  BY ReadsTyped
<1>2. /\ Unsigned(SignedIn(read_u8(pages, addr), ByteSize)) \in Word
      /\ Unsigned(SignedIn(read_u16(pages, addr), HalfSize)) \in Word
  <2>1. /\ read_u8(pages, addr) \in Int /\ read_u16(pages, addr) \in Int
        /\ ByteSize \in Int /\ HalfSize \in Int
    BY <1>1, Words, Sizes
  <2>2. /\ SignedIn(read_u8(pages, addr), ByteSize) \in Int
        /\ SignedIn(read_u16(pages, addr), HalfSize) \in Int
    BY <2>1, SignedTyped
  <2> QED
    BY <2>2, UnsignedTyped
<1> QED
  BY <1>1, <1>2 DEF loaded

LEMMA StoredTyped ==
    ASSUME pages \in PageTable, NEW addr \in Word, NEW val \in Word, NEW funct3 \in {0, 1, 2}
    PROVE  stored(funct3, addr, val) \in PageTable
<1>1. val \in Int /\ ByteSize \in Nat \ {0} /\ HalfSize \in Nat \ {0}
  BY Words, Sizes
<1>2. val % ByteSize \in Byte /\ val % HalfSize \in Int
  BY <1>1, DivMod DEF Byte
<1> QED
  BY <1>1, <1>2, WriteByte, WriteHalf, WriteWord DEF stored

-----------------------------------------------------------------------------
\* Of the segments that cover an address there is a last one.
LEMMA LastCoveringExists ==
    ASSUME NEW a, \E k \in DOMAIN Segments : Covers(Segments[k], a)
    PROVE  LastCovering(a) \in DOMAIN Segments /\ Covers(Segments[LastCovering(a)], a)
<1> DEFINE n == Len(Segments)
           C == { k \in DOMAIN Segments : Covers(Segments[k], a) }
<1>1. DOMAIN Segments = 1 .. n /\ n \in Nat
  BY ProgramAssumption
<1>2. C \in SUBSET (0 .. n) /\ C # {}
  BY <1>1
<1>3. \E k \in C : \A j \in C : j <= k
  <2> HIDE DEF C, n
  <2> QED
    BY <1>1, <1>2, Largest
<1>4. LastCovering(a) \in C
  BY <1>3 DEF LastCovering
<1> QED
  BY <1>4

\* What Cpu::new leaves in memory is a page table.
LEMMA ImageTyped == Image \in PageTable
<1> DEFINE S == UNION { PagesFrom(Segments[k].vaddr, Len(Segments[k].data)) :
                          k \in DOMAIN Segments }
           byte(a) == IF \E k \in DOMAIN Segments : Covers(Segments[k], a)
                      THEN Segments[LastCovering(a)].data
                             [Distance(Segments[LastCovering(a)].vaddr, a) + 1]
                      ELSE 0
<1>1. ASSUME NEW k \in DOMAIN Segments
      PROVE  /\ Segments[k].vaddr \in Word
             /\ Segments[k].data \in Seq(Byte)
  <2> DEFINE Segment == [vaddr : Word, data : Seq(Byte)]
  <2>1. Segments \in Seq(Segment)
    BY ProgramAssumption
  <2>2. Segments[k] \in Segment
    <3> HIDE DEF Segment
    <3> QED
      BY <2>1
  <2> QED
    BY <2>2
<1>2. S \in SUBSET PageIndices
  <2>1. ASSUME NEW k \in DOMAIN Segments
        PROVE  PagesFrom(Segments[k].vaddr, Len(Segments[k].data)) \subseteq PageIndices
    <3>1. ASSUME NEW i \in 0 .. Len(Segments[k].data) - 1
          PROVE  page_idx(wrapping_add(Segments[k].vaddr, i)) \in PageIndices
      <4>1. Segments[k].vaddr \in Int /\ i \in Int
        BY <1>1, Words
      <4>2. wrapping_add(Segments[k].vaddr, i) \in Word
        BY <4>1, WrapTyped
      <4> QED
        BY <4>2, Addressing
    <3> QED
      BY <3>1 DEF PagesFrom
  <2> QED
    BY <2>1
<1>3. ASSUME NEW a \in Word
      PROVE  byte(a) \in Byte
  <2>1. CASE \E k \in DOMAIN Segments : Covers(Segments[k], a)
    <3> DEFINE s == Segments[LastCovering(a)]
               d == Distance(s.vaddr, a)
    <3>1. LastCovering(a) \in DOMAIN Segments /\ Covers(s, a)
      BY <2>1, LastCoveringExists
    <3>2. s.vaddr \in Word /\ s.data \in Seq(Byte)
      BY <3>1, <1>1
    <3>3. d \in Word /\ d \in Nat
      BY <3>2, WrapWord, Words DEF Distance
    <3>4. d < Len(s.data)
      BY <3>1 DEF Covers
    <3>5. byte(a) = s.data[d + 1]
      BY <2>1
    <3> HIDE DEF s, d
    <3> QED
      BY <3>2, <3>3, <3>4, <3>5
  <2>2. CASE ~ (\E k \in DOMAIN Segments : Covers(Segments[k], a))
    BY <2>2, Sizes DEF Byte
  <2> QED
    BY <2>1, <2>2
<1>4. \A idx \in S, off \in PageOffsets : idx * PageSize + off \in Word
  BY <1>2, AddressingBack
<1>5. Image = [idx \in S |-> [off \in PageOffsets |-> byte(idx * PageSize + off)]]
  BY DEF Image
<1> HIDE DEF S, byte
<1>6. Image \in [S -> Page]
  BY <1>3, <1>4, <1>5 DEF Page
<1> QED
  BY <1>2, <1>6, PageTableIntro

-----------------------------------------------------------------------------
\* What XORIN writes, and any number of n bytes, are n bytes.
LEMMA XoredTyped ==
    ASSUME NEW dst, NEW src, NEW len \in Nat
    PROVE  /\ Len(xored(dst, src, len)) = len
           /\ \A i \in 1 .. len : xored(dst, src, len)[i] \in Byte
<1> DEFINE round(i) == wrapping_sub(wrapping_add(src, i), dst)
           s[i \in 0 .. len - 1] ==
              IF round(i) < i
              THEN XorByte(read_u8(pages, wrapping_add(dst, round(i))), s[round(i)])
              ELSE read_u8(pages, wrapping_add(src, i))
           out == [i \in 1 .. len |->
                     XorByte(read_u8(pages, wrapping_add(dst, i - 1)), s[i - 1])]
<1>1. xored(dst, src, len) = out
  BY DEF xored
<1> HIDE DEF round, s
<1> QED
  BY <1>1, BitwiseTyped

LEMMA NumberTyped ==
    ASSUME NEW n \in Nat, NEW r \in Number(n)
    PROVE  r \in Seq(Byte) /\ Len(r) = n /\ \A i \in 1 .. n : r[i] \in Byte
BY DEF Number

-----------------------------------------------------------------------------
\* Evenness of a sum, and of a word with bit 0 cleared.
LEMMA EvenSum ==
    ASSUME NEW a \in Word, NEW b \in Word, a % 2 = 0, b % 2 = 0
    PROVE  wrapping_add(a, b) % 2 = 0
<1>1. PICK h \in Int : WordSize = 2 * h
  BY WordSizeEven
<1>2. /\ a \in Int /\ b \in Int /\ WordSize \in Nat \ {0}
  BY Words, Sizes
<1> DEFINE q == (a + b) \div WordSize
           s == wrapping_add(a, b)
<1>3. /\ q \in Int /\ s \in Int /\ a + b = WordSize * q + s
  BY <1>2, DivMod, WrapWord, Words DEF wrapping_add
<1>4. \E i, j \in Int : a = 2 * i /\ b = 2 * j
  <2>1. a \div 2 \in Int /\ b \div 2 \in Int /\ a = 2 * (a \div 2) /\ b = 2 * (b \div 2)
    BY <1>2, DivMod
  <2> QED
    BY <2>1
<1>5. PICK i, j \in Int : a = 2 * i /\ b = 2 * j
  BY <1>4
<1> HIDE DEF q, s
<1>6. s = 2 * (i + j - h * q) /\ i + j - h * q \in Int
  BY <1>1, <1>3, <1>5, Z3
<1>7. s % 2 = 0
  BY <1>6
<1> QED
  BY <1>7 DEF s

LEMMA ClearBit0Even ==
    ASSUME NEW w \in Word
    PROVE  clear_bit0(w) \in Word /\ clear_bit0(w) % 2 = 0
<1>1. w \in Int /\ 0 <= w /\ w < WordSize /\ WordSize \in Nat
  BY Words, Sizes
<1>2. \A v \in Int : /\ v - (v % 2) \in Int /\ (v - (v % 2)) % 2 = 0
                     /\ v - (v % 2) <= v
                     /\ 0 <= v => 0 <= v - (v % 2)
  BY SMT
<1>3. /\ clear_bit0(w) \in Int /\ clear_bit0(w) % 2 = 0
      /\ 0 <= clear_bit0(w) /\ clear_bit0(w) <= w
  BY <1>1, <1>2 DEF clear_bit0
<1> QED
  BY <1>1, <1>3, Words

-----------------------------------------------------------------------------
\* What a step does.

\* The run returns, and leaves everything else as it is.
Stops ==
    /\ UNCHANGED <<pc, x, pages, steps, io>>
    /\ result' \in [kind : Kind \ {"running"}, val : Word]
    /\ result'.kind # "ok" => result'.val = pc
    /\ result'.kind = "StepLimitExceeded" => steps >= MaxSteps

\* What a step may do to the host's state.
Popped   == io.input_streams # <<>> /\ io' = hint_input(io)
TookHint == \E n \in Nat : io' = after_read_hint(io, 4 * n)
GotHint  == \E bytes \in Seq(Byte) :
               /\ Len(bytes) % 4 = 0
               /\ io' = replace_hint_stream(io, bytes) \/ io' = extend_hint_stream(io, bytes)
Revealed == \E off \in Word, bytes \in Seq(Byte) :
               Len(bytes) = 4 /\ io' = write_output(io, off, bytes)

IoChange ==
    /\ io' \in IoStateType
    /\ UNCHANGED io \/ Popped \/ TookHint \/ GotHint \/ Revealed

\* The run goes on.
Goes ==
    /\ Running
    /\ steps < MaxSteps
    /\ steps' = steps + 1
    /\ UNCHANGED result
    /\ pc' \in Word
    /\ pc % 2 = 0 => pc' % 2 = 0
    /\ x' \in [0 .. 31 -> Word]
    /\ pages' \in PageTable
    /\ IoChange

\* A state in which an instruction is executed.
Ready == TypeOK /\ Running /\ steps < MaxSteps

-----------------------------------------------------------------------------
\* Registers keep their type.
LEMMA Registers ==
    ASSUME TypeOK, NEW r \in 0 .. 31
    PROVE  /\ read_reg(r) \in Word
           /\ \A val \in Word : write_reg(r, val) \in [0 .. 31 -> Word]
BY Words DEF TypeOK, CpuTypeOK, read_reg, write_reg

\* The registers an instruction names.
LEMMA Operands ==
    ASSUME TypeOK, NEW insn \in Insn
    PROVE  /\ read_reg(insn.rd) \in Word
           /\ read_reg(insn.rs1) \in Word
           /\ read_reg(insn.rs2) \in Word
           /\ \A val \in Word : write_reg(insn.rd, val) \in [0 .. 31 -> Word]
<1>1. insn.rd \in 0 .. 31 /\ insn.rs1 \in 0 .. 31 /\ insn.rs2 \in 0 .. 31
  BY FieldsTyped
<1> QED
  BY <1>1, Registers

\* The address behind an instruction.
LEMMA NextAddress ==
    ASSUME TypeOK
    PROVE  /\ pc \in Word
           /\ wrapping_add(pc, 4) \in Word
           /\ pc % 2 = 0 => wrapping_add(pc, 4) % 2 = 0
<1>1. pc \in Word /\ 4 \in Word /\ 4 % 2 = 0
  BY Words DEF TypeOK, CpuTypeOK
<1> QED
  BY <1>1, WrapWord, EvenSum

\* A jump by an even offset.
LEMMA JumpAddress ==
    ASSUME TypeOK, NEW d \in Word
    PROVE  /\ wrapping_add(pc, d) \in Word
           /\ pc % 2 = 0 /\ d % 2 = 0 => wrapping_add(pc, d) % 2 = 0
<1>1. pc \in Word
  BY DEF TypeOK, CpuTypeOK
<1> QED
  BY <1>1, WrapWord, EvenSum

-----------------------------------------------------------------------------
\* The ways an instruction ends.

LEMMA ReturnStops ==
    ASSUME TypeOK, UNCHANGED io, NEW kind \in Kind \ {"running", "StepLimitExceeded"},
           NEW val \in Word, kind # "ok" => val = pc, Return(kind, val)
    PROVE  Stops
BY DEF Return, Stops

LEMMA ContinueGoes ==
    ASSUME Ready, Continue, pc' \in Word, pc % 2 = 0 => pc' % 2 = 0,
           x' \in [0 .. 31 -> Word], pages' \in PageTable, IoChange
    PROVE  Goes
BY DEF Ready, Continue, Goes

LEMMA SetRegGoes ==
    ASSUME Ready, UNCHANGED io, NEW insn \in Insn, NEW val \in Word, SetReg(insn.rd, val)
    PROVE  Goes
<1>1. TypeOK
  BY DEF Ready
<1>2. pc' \in Word /\ (pc % 2 = 0 => pc' % 2 = 0)
  BY <1>1, NextAddress DEF SetReg
<1>3. x' \in [0 .. 31 -> Word] /\ pages' \in PageTable
  BY <1>1, Operands DEF SetReg, TypeOK, CpuTypeOK
<1>4. IoChange
  BY <1>1 DEF IoChange, TypeOK
<1> QED
  BY <1>2, <1>3, <1>4, ContinueGoes DEF SetReg

LEMMA JumpGoes ==
    ASSUME Ready, UNCHANGED io, NEW insn \in Insn, NEW target \in Word,
           pc % 2 = 0 => target % 2 = 0, JumpTo(insn, target)
    PROVE  Goes
<1>1. TypeOK
  BY DEF Ready
<1>2. x' \in [0 .. 31 -> Word] /\ pages' \in PageTable
  BY <1>1, Operands, NextAddress DEF JumpTo, TypeOK, CpuTypeOK
<1>3. IoChange
  BY <1>1 DEF IoChange, TypeOK
<1> QED
  BY <1>2, <1>3, ContinueGoes DEF JumpTo

LEMMA HandledGoes ==
    ASSUME Ready, NEW next \in Word, pc % 2 = 0 => next % 2 = 0, Handled(next),
           x' \in [0 .. 31 -> Word], pages' \in PageTable, IoChange
    PROVE  Goes
<1>1. TypeOK
  BY DEF Ready
<1>2. pc' \in Word /\ (pc % 2 = 0 => pc' % 2 = 0)
  BY <1>1, NextAddress DEF Handled
<1> QED
  BY <1>2, ContinueGoes DEF Handled

\* A handler that leaves cpu.pc alone.
LEMMA PcKept ==
    ASSUME TypeOK
    PROVE  pc \in Word /\ UNCHANGED <<x, pages, io>> =>
              /\ x' \in [0 .. 31 -> Word] /\ pages' \in PageTable /\ IoChange
BY DEF TypeOK, CpuTypeOK, IoChange

LEMMA NoEffectGoes == ASSUME Ready, NoEffect PROVE Goes
<1>1. TypeOK /\ pc \in Word
  BY DEF Ready, TypeOK, CpuTypeOK
<1> QED
  BY <1>1, PcKept, HandledGoes DEF NoEffect

LEMMA WriteMemoryGoes ==
    ASSUME Ready, NEW addr \in Word, NEW bytes, NEW n \in Nat, Len(bytes) = n,
           \A i \in 1 .. n : bytes[i] \in Byte, WriteMemory(addr, bytes)
    PROVE  Goes
<1>1. TypeOK /\ pc \in Word
  BY DEF Ready, TypeOK, CpuTypeOK
<1>2. pages' \in PageTable
  BY <1>1, WriteSliceTyped DEF WriteMemory, TypeOK, CpuTypeOK
<1>3. x' \in [0 .. 31 -> Word] /\ IoChange
  BY <1>1 DEF WriteMemory, TypeOK, CpuTypeOK, IoChange
<1> QED
  BY <1>1, <1>2, <1>3, HandledGoes DEF WriteMemory

LEMMA WriteNumberGoes ==
    ASSUME Ready, NEW addr \in Word, NEW n \in Nat, WriteNumber(addr, n)
    PROVE  Goes
<1>1. PICK r \in Number(n) : WriteMemory(addr, r)
  BY DEF WriteNumber
<1> QED
  BY <1>1, NumberTyped, WriteMemoryGoes

LEMMA WriteRegisterGoes ==
    ASSUME Ready, NEW insn \in Insn, NEW val \in Word, WriteRegister(insn.rd, val)
    PROVE  Goes
<1>1. TypeOK /\ pc \in Word
  BY DEF Ready, TypeOK, CpuTypeOK
<1>2. x' \in [0 .. 31 -> Word]
  BY <1>1, Operands DEF WriteRegister
<1>3. pages' \in PageTable /\ IoChange
  BY <1>1 DEF WriteRegister, TypeOK, CpuTypeOK, IoChange
<1> QED
  BY <1>1, <1>2, <1>3, HandledGoes DEF WriteRegister

LEMMA ChangeIoGoes ==
    ASSUME Ready, NEW new, ChangeIo(new), IoChange
    PROVE  Goes
<1>1. TypeOK /\ pc \in Word
  BY DEF Ready, TypeOK, CpuTypeOK
<1>2. x' \in [0 .. 31 -> Word] /\ pages' \in PageTable
  BY <1>1 DEF ChangeIo, TypeOK, CpuTypeOK
<1> QED
  BY <1>1, <1>2, HandledGoes DEF ChangeIo

\* Errors and panics.
LEMMA CustomOpErrorStops == ASSUME TypeOK, CustomOpError \/ Panic PROVE Stops
<1>1. pc \in Word /\ {"CustomOp", "panic"} \subseteq Kind \ {"running", "StepLimitExceeded"}
  BY DEF TypeOK, CpuTypeOK, Kind
<1> QED
  BY <1>1, ReturnStops DEF CustomOpError, Panic

-----------------------------------------------------------------------------
\* The base instructions, one by one.
LEMMA BaseStepShape ==
    ASSUME Ready, NEW insn \in Insn, BaseStep(insn), UNCHANGED io
    PROVE  Stops \/ Goes
<1>1. TypeOK /\ pc \in Word /\ x \in [0 .. 31 -> Word] /\ pages \in PageTable
  BY DEF Ready, TypeOK, CpuTypeOK
<1>2. /\ read_reg(insn.rs1) \in Word /\ read_reg(insn.rs2) \in Word
  BY <1>1, Operands
<1>3. /\ imm_i(insn) \in Word /\ imm_s(insn) \in Word /\ imm_u(insn) \in Word
      /\ imm_b(insn) \in Word /\ imm_j(insn) \in Word
      /\ imm_b(insn) % 2 = 0 /\ imm_j(insn) % 2 = 0
  BY ImmediatesTyped, OffsetsEven
<1>4. /\ wrapping_add(pc, imm_u(insn)) \in Word
      /\ wrapping_add(read_reg(insn.rs1), imm_i(insn)) \in Word
      /\ wrapping_add(read_reg(insn.rs1), imm_s(insn)) \in Word
  BY <1>1, <1>2, <1>3, WrapWord
<1>5. \A kind \in {"IllegalInstruction", "EBreak", "ECall"} :
         kind \in Kind \ {"running", "StepLimitExceeded"}
  BY DEF Kind
<1>6. CASE Lui(insn)
  BY <1>3, <1>6, SetRegGoes DEF Lui
<1>7. CASE Auipc(insn)
  BY <1>4, <1>7, SetRegGoes DEF Auipc
<1>8. CASE Jal(insn)
  BY <1>1, <1>3, <1>8, JumpAddress, JumpGoes DEF Jal
<1>9. CASE Jalr(insn)
  BY <1>4, <1>9, ClearBit0Even, JumpGoes DEF Jalr
<1>10. CASE Branch(insn)
  <2>1. pc' \in Word /\ (pc % 2 = 0 => pc' % 2 = 0)
    BY <1>1, <1>3, <1>10, JumpAddress, NextAddress DEF Branch
  <2>2. x' \in [0 .. 31 -> Word] /\ pages' \in PageTable /\ IoChange
    BY <1>1, <1>10, PcKept DEF Branch
  <2> QED
    BY <1>10, <2>1, <2>2, ContinueGoes DEF Branch
<1>11. CASE Load(insn)
  <2>1. loaded(insn.funct3, wrapping_add(read_reg(insn.rs1), imm_i(insn))) \in Word
    BY <1>1, <1>4, <1>11, LoadedTyped DEF Load
  <2> QED
    BY <2>1, <1>11, SetRegGoes DEF Load
<1>12. CASE Store(insn)
  <2>1. pages' \in PageTable
    BY <1>1, <1>2, <1>4, <1>12, StoredTyped DEF Store
  <2>2. pc' \in Word /\ (pc % 2 = 0 => pc' % 2 = 0)
    BY <1>1, <1>12, NextAddress DEF Store
  <2>3. x' \in [0 .. 31 -> Word] /\ IoChange
    BY <1>1, <1>12 DEF Store, IoChange, TypeOK
  <2> QED
    BY <1>12, <2>1, <2>2, <2>3, ContinueGoes DEF Store
<1>13. CASE Op(insn)
  <2>1. op_value(insn.funct7, insn.funct3, read_reg(insn.rs1), read_reg(insn.rs2)) \in Word
    BY <1>2, <1>13, OpTyped DEF Op
  <2> QED
    BY <2>1, <1>13, SetRegGoes DEF Op
<1>14. CASE OpImm(insn)
  <2>1. op_imm_value(insn, read_reg(insn.rs1)) \in Word
    BY <1>2, <1>14, OpImmTyped DEF OpImm
  <2> QED
    BY <2>1, <1>14, SetRegGoes DEF OpImm
<1>15. CASE Fence(insn)
  <2>1. pc' \in Word /\ (pc % 2 = 0 => pc' % 2 = 0)
    BY <1>1, <1>15, NextAddress DEF Fence, SetReg
  <2>2. x' = x /\ pages' = pages /\ Continue
    BY <1>15 DEF Fence, SetReg, write_reg
  <2>3. x' \in [0 .. 31 -> Word] /\ pages' \in PageTable /\ IoChange
    BY <1>1, <2>2, PcKept
  <2> QED
    BY <2>1, <2>2, <2>3, ContinueGoes
<1>16. CASE ECall(insn)
  BY <1>1, <1>5, <1>16, ReturnStops DEF ECall
<1>17. CASE EBreak(insn)
  BY <1>1, <1>5, <1>17, ReturnStops DEF EBreak
<1>18. CASE IllegalInstruction(insn)
  BY <1>1, <1>5, <1>18, ReturnStops DEF IllegalInstruction
<1> QED
  BY <1>6, <1>7, <1>8, <1>9, <1>10, <1>11, <1>12, <1>13, <1>14, <1>15, <1>16, <1>17, <1>18
     DEF BaseStep

-----------------------------------------------------------------------------
\* Custom instructions that read, fill or publish.
LEMMA TakeHintGoes ==
    ASSUME Ready, NEW insn \in Insn, NEW k \in Nat, TakeHint(insn, 4 * k)
    PROVE  Goes
<1>1. TypeOK /\ pc \in Word /\ io \in IoStateType /\ pages \in PageTable /\ 4 * k \in Nat
  BY DEF Ready, TypeOK, CpuTypeOK
<1>2. pages' \in PageTable
  <2> DEFINE n == 4 * k
  <2> HIDE DEF n
  <2>1. /\ n \in Nat /\ read_reg(insn.rd) \in Word
        /\ Len(read_hint_bytes(io, n)) = n
        /\ \A i \in 1 .. n : read_hint_bytes(io, n)[i] \in Byte
    BY <1>1, Operands, ReadHintTyped DEF n
  <2>2. pages' = write_slice(pages, read_reg(insn.rd), read_hint_bytes(io, n))
    BY DEF TakeHint, n
  <2> QED
    BY <1>1, <2>1, <2>2, WriteSliceTyped
<1>3. IoChange
  <2>1. after_read_hint(io, 4 * k) \in IoStateType
    BY <1>1, ReadHintTyped
  <2> QED
    BY <2>1 DEF TakeHint, IoChange, TookHint
<1>4. x' \in [0 .. 31 -> Word]
  BY <1>1 DEF TakeHint, TypeOK, CpuTypeOK
<1> QED
  BY <1>1, <1>2, <1>3, <1>4, HandledGoes DEF TakeHint

LEMMA RevealGoes == ASSUME Ready, NEW insn \in Insn, Reveal(insn) PROVE Goes
<1> DEFINE off == wrapping_add(read_reg(insn.rd), imm12(insn))
           bytes == to_le_bytes(read_reg(insn.rs1))
<1>1. TypeOK /\ io \in IoStateType
  BY DEF Ready, TypeOK
<1>2. off \in Word /\ off \in Nat
  <2>1. read_reg(insn.rd) \in Int /\ imm12(insn) \in Int
    BY <1>1, Operands, ImmediatesTyped, Words
  <2> QED
    BY <2>1, WrapTyped, Words
<1>3. bytes \in Seq(Byte) /\ Len(bytes) = 4
  <2>1. read_reg(insn.rs1) \in Int
    BY <1>1, Operands, Words
  <2> QED
    BY <2>1, BytesTyped
<1>4. ChangeIo(write_output(io, off, bytes))
  BY DEF Reveal
<1> HIDE DEF off, bytes
<1>5. IoChange
  <2>1. write_output(io, off, bytes) \in IoStateType
    BY <1>1, <1>2, <1>3, WriteOutputTyped
  <2> QED
    BY <1>2, <1>3, <1>4, <2>1 DEF ChangeIo, IoChange, Revealed
<1> QED
  BY <1>4, <1>5, ChangeIoGoes

LEMMA HintInputShape == ASSUME Ready, NEW insn \in Insn, HintInput(insn) PROVE Stops \/ Goes
<1>1. TypeOK /\ io \in IoStateType
  BY DEF Ready, TypeOK
<1>2. CASE EndOfInputStream(io)
  BY <1>1, <1>2, CustomOpErrorStops DEF HintInput
<1>3. CASE ~ EndOfInputStream(io)
  <2>1. ChangeIo(hint_input(io)) /\ io.input_streams # <<>>
    BY <1>3 DEF HintInput, EndOfInputStream
  <2>2. hint_input(io) \in IoStateType
    BY <1>1, <2>1, HintInputTyped
  <2>3. IoChange
    BY <2>1, <2>2 DEF ChangeIo, IoChange, Popped
  <2> QED
    BY <2>1, <2>3, ChangeIoGoes
<1> QED
  BY <1>2, <1>3

\* An answer of whole words, in place of the stream or behind it.
LEMMA GotHintGoes ==
    ASSUME Ready, NEW bytes \in Seq(Byte), Len(bytes) % 4 = 0,
           \/ ChangeIo(replace_hint_stream(io, bytes))
           \/ ChangeIo(extend_hint_stream(io, bytes))
    PROVE  Goes
<1>1. io \in IoStateType
  BY DEF Ready, TypeOK
<1>2. /\ replace_hint_stream(io, bytes) \in IoStateType
      /\ extend_hint_stream(io, bytes) \in IoStateType
  BY <1>1, ProducedHintTyped
<1>3. IoChange
  BY <1>2 DEF ChangeIo, IoChange, GotHint
<1> QED
  BY <1>3, ChangeIoGoes

-----------------------------------------------------------------------------
\* The custom instructions, one by one.

\* An entry of a table has a size.
LEMMA SizeTyped ==
    ASSUME NEW insn \in Insn, NEW kinds \in Nat \ {0}, NEW table \in Seq(Nat),
           InTable(insn, table, kinds)
    PROVE  /\ size(insn, table, kinds) \in Nat
           /\ entry_index(insn, kinds) + 1 \in DOMAIN table
<1> DEFINE i == entry_index(insn, kinds)
<1>1. i \in Nat
  <2>1. /\ insn.funct7 \in Int /\ 0 <= insn.funct7
    BY FieldsTyped
  <2>2. \A f \in Int : 0 <= f => f \div kinds \in Nat
    BY Z3
  <2> QED
    BY <2>1, <2>2 DEF entry_index
<1>2. i < Len(table) /\ Len(table) \in Nat
  BY DEF InTable
<1> HIDE DEF i
<1>3. i + 1 \in 1 .. Len(table)
  BY <1>1, <1>2
<1>4. table[i + 1] \in Nat
  BY <1>3, ElementOfSeq
<1> QED
  BY <1>3, <1>4 DEF size, i

LEMMA Custom0Shape ==
    ASSUME Ready, NEW insn \in Insn,
           \/ Terminate(insn)
           \/ HintStorew(insn) \/ HintBuffer(insn) \/ HintUnknown(insn)
           \/ Reveal(insn) \/ HintInput(insn) \/ OtherPhantom(insn)
           \/ Keccakf(insn) \/ Xorin(insn) \/ Sha256Compress(insn) \/ HashUnknown(insn)
           \/ Int256(insn) \/ Beq256(insn) \/ NativeStorew(insn)
    PROVE  Stops \/ Goes
<1>1. TypeOK /\ pc \in Word
  BY DEF Ready, TypeOK, CpuTypeOK
<1>2. /\ read_reg(insn.rd) \in Word /\ read_reg(insn.rs1) \in Word
      /\ read_reg(insn.rs2) \in Word /\ read_reg(insn.rs2) \in Nat /\ read_reg(insn.rs1) \in Nat
  BY <1>1, Operands, Words
<1>3. CASE Terminate(insn)
  <2>1. "ok" \in Kind \ {"running", "StepLimitExceeded"}
    BY DEF Kind
  <2> QED
    BY <1>1, <1>2, <1>3, <2>1, ReturnStops DEF Terminate
<1>4. CASE HintStorew(insn)
  <2>1. 4 = 4 * 1 /\ 1 \in Nat
    OBVIOUS
  <2> QED
    BY <1>4, <2>1, TakeHintGoes DEF HintStorew
<1>5. CASE HintBuffer(insn)
  BY <1>2, <1>5, TakeHintGoes DEF HintBuffer
<1>6. CASE HintUnknown(insn) \/ HashUnknown(insn)
  BY <1>1, <1>6, CustomOpErrorStops DEF HintUnknown, HashUnknown
<1>7. CASE Reveal(insn) \/ HintInput(insn)
  BY <1>7, RevealGoes, HintInputShape
<1>8. CASE OtherPhantom(insn) \/ NativeStorew(insn)
  BY <1>8, NoEffectGoes DEF OtherPhantom, NativeStorew
<1>9. CASE Keccakf(insn) \/ Sha256Compress(insn)
  BY <1>2, <1>9, ConfigAssumption, WriteNumberGoes DEF Keccakf, Sha256Compress
<1>10. CASE Xorin(insn)
  BY <1>2, <1>10, XoredTyped, WriteMemoryGoes DEF Xorin
<1>11. CASE Int256(insn)
  BY <1>1, <1>2, <1>11, ConfigAssumption, WriteNumberGoes, CustomOpErrorStops DEF Int256
<1>12. CASE Beq256(insn)
  <2>1. /\ beq256_target(insn) \in Word
        /\ pc % 2 = 0 => beq256_target(insn) % 2 = 0
    BY <1>1, ImmediatesTyped, OffsetsEven, JumpAddress, NextAddress DEF beq256_target
  <2> QED
    BY <1>1, <1>12, <2>1, PcKept, HandledGoes DEF Beq256
<1> QED
  BY <1>3, <1>4, <1>5, <1>6, <1>7, <1>8, <1>9, <1>10, <1>11, <1>12

LEMMA ModularShape ==
    ASSUME Ready, NEW insn \in Insn,
           \/ ModularArith(insn) \/ ModularIsEq(insn) \/ ModularSetup(insn)
           \/ HintNonQr(insn) \/ HintSqrt(insn) \/ ModularUnknown(insn)
    PROVE  Stops \/ Goes
<1>1. TypeOK /\ read_reg(insn.rd) \in Word /\ 0 \in Word /\ 1 \in Word
  BY Operands, Words DEF Ready
<1>2. ASSUME InTable(insn, ModulusBytes, 8)
      PROVE  modulus_size(insn) \in Nat /\ modulus_size(insn) % 4 = 0
  BY <1>2, SizeTyped, ConfigAssumption DEF modulus_size, size
<1>3. CASE ModularArith(insn)
  BY <1>1, <1>2, <1>3, WriteNumberGoes, CustomOpErrorStops DEF ModularArith, Modular, TableOp
<1>4. CASE ModularIsEq(insn)
  BY <1>1, <1>4, WriteRegisterGoes DEF ModularIsEq
<1>5. CASE ModularSetup(insn)
  BY <1>5, NoEffectGoes DEF ModularSetup
<1>6. CASE HintNonQr(insn)
  <2>1. modulus_size(insn) \in Nat /\ modulus_size(insn) % 4 = 0
    BY <1>2, <1>6 DEF HintNonQr, Modular, TableOp
  <2>2. PICK r \in Number(modulus_size(insn)) : ChangeIo(replace_hint_stream(io, r))
    BY <1>6 DEF HintNonQr
  <2>3. r \in Seq(Byte) /\ Len(r) % 4 = 0
    BY <2>1, NumberTyped
  <2> QED
    BY <2>2, <2>3, GotHintGoes
<1>7. CASE HintSqrt(insn)
  <2>1. modulus_size(insn) \in Nat /\ modulus_size(insn) % 4 = 0
    BY <1>2, <1>7 DEF HintSqrt, Modular, TableOp
  <2>2. PICK flag \in {0, 1}, r \in Number(modulus_size(insn)) :
             ChangeIo(replace_hint_stream(io, <<flag, 0, 0, 0>> \o r))
    BY <1>7 DEF HintSqrt
  <2>3. r \in Seq(Byte) /\ Len(r) = modulus_size(insn)
    BY <2>1, NumberTyped
  <2>4. <<flag, 0, 0, 0>> \in Seq(Byte) /\ Len(<<flag, 0, 0, 0>>) = 4
    BY Sizes DEF Byte
  <2>5. /\ <<flag, 0, 0, 0>> \o r \in Seq(Byte)
        /\ Len(<<flag, 0, 0, 0>> \o r) = 4 + modulus_size(insn)
    BY <2>3, <2>4, ConcatProperties
  <2>6. Len(<<flag, 0, 0, 0>> \o r) % 4 = 0
    BY <2>1, <2>5
  <2> QED
    BY <2>2, <2>5, <2>6, GotHintGoes
<1>8. CASE ModularUnknown(insn)
  BY <1>1, <1>8, CustomOpErrorStops DEF ModularUnknown, UnknownTableOp
<1> QED
  BY <1>3, <1>4, <1>5, <1>6, <1>7, <1>8

LEMMA ComplexShape ==
    ASSUME Ready, NEW insn \in Insn,
           \/ ComplexArith(insn) \/ ComplexIsEq(insn)
           \/ ComplexSetup(insn) \/ ComplexUnknown(insn)
    PROVE  Stops \/ Goes
<1>1. TypeOK /\ read_reg(insn.rd) \in Word /\ 0 \in Word /\ 1 \in Word
  BY Operands, Words DEF Ready
<1>2. CASE ComplexArith(insn)
  <2>1. 2 * size(insn, ComplexBytes, 8) \in Nat
    BY <1>2, SizeTyped, ConfigAssumption DEF ComplexArith, Complex, TableOp
  <2> QED
    BY <1>1, <1>2, <2>1, WriteNumberGoes, CustomOpErrorStops DEF ComplexArith
<1>3. CASE ComplexIsEq(insn)
  BY <1>1, <1>3, WriteRegisterGoes DEF ComplexIsEq
<1>4. CASE ComplexSetup(insn)
  BY <1>4, NoEffectGoes DEF ComplexSetup
<1>5. CASE ComplexUnknown(insn)
  BY <1>1, <1>5, CustomOpErrorStops DEF ComplexUnknown, UnknownTableOp
<1> QED
  BY <1>2, <1>3, <1>4, <1>5

LEMMA CurveShape ==
    ASSUME Ready, NEW insn \in Insn,
           CurveArith(insn) \/ CurveSetup(insn) \/ CurveHint(insn) \/ CurveUnknown(insn)
    PROVE  Stops \/ Goes
<1>1. TypeOK /\ read_reg(insn.rd) \in Word
  BY Operands DEF Ready
<1>2. ASSUME InTable(insn, CurveBytes, 8)
      PROVE  size(insn, CurveBytes, 8) \in Nat /\ 2 * size(insn, CurveBytes, 8) \in Nat
  BY <1>2, SizeTyped, ConfigAssumption
<1>3. CASE CurveArith(insn)
  BY <1>1, <1>2, <1>3, WriteNumberGoes, CustomOpErrorStops DEF CurveArith, Curve, TableOp
<1>4. CASE CurveSetup(insn)
  BY <1>4, NoEffectGoes DEF CurveSetup
<1>5. CASE CurveHint(insn)
  BY <1>1, <1>2, <1>5, WriteNumberGoes, CustomOpErrorStops DEF CurveHint, Curve, TableOp
<1>6. CASE CurveUnknown(insn)
  BY <1>1, <1>6, CustomOpErrorStops DEF CurveUnknown, UnknownTableOp
<1> QED
  BY <1>3, <1>4, <1>5, <1>6

LEMMA PairingShape ==
    ASSUME Ready, NEW insn \in Insn,
           HintFinalExp(insn) \/ PairingUnknown(insn) \/ Custom1Unknown(insn)
    PROVE  Stops \/ Goes
<1>1. TypeOK
  BY DEF Ready
<1>2. CASE HintFinalExp(insn)
  <2> DEFINE n == size(insn, PairingBytes, 16)
  <2>1. InTable(insn, PairingBytes, 16)
    BY <1>2 DEF HintFinalExp, TableOp
  <2>2. n \in Nat /\ n % 4 = 0
    BY <2>1, SizeTyped, ConfigAssumption DEF size
  <2>3. CASE CustomOpError \/ Panic
    BY <1>1, <2>3, CustomOpErrorStops
  <2>4. ASSUME NEW c \in Number(n), NEW u \in Number(n), ChangeIo(extend_hint_stream(io, c \o u))
        PROVE  Goes
    <3> HIDE DEF n
    <3>1. c \in Seq(Byte) /\ u \in Seq(Byte) /\ Len(c) = n /\ Len(u) = n
      BY <2>2, NumberTyped
    <3>2. c \o u \in Seq(Byte) /\ Len(c \o u) = Len(c) + Len(u)
      BY <3>1, ConcatProperties
    <3>3. Len(c \o u) % 4 = 0
      BY <2>2, <3>1, <3>2 DEF LooksBack
    <3> QED
      BY <2>4, <3>2, <3>3, GotHintGoes
  <2> QED
    BY <1>2, <2>3, <2>4 DEF HintFinalExp
<1>3. CASE PairingUnknown(insn) \/ Custom1Unknown(insn)
  BY <1>1, <1>3, CustomOpErrorStops DEF PairingUnknown, UnknownTableOp, Custom1Unknown
<1> QED
  BY <1>2, <1>3

\* Every step has one of the two shapes.
LEMMA StepShape == ASSUME TypeOK, Next PROVE Stops \/ Goes
<1>1. pc \in Word
  BY DEF TypeOK, CpuTypeOK
<1>2. CASE StepLimit /\ UNCHANGED io
  BY <1>1, <1>2 DEF StepLimit, Return, Stops, Kind
<1>3. CASE Run
  <2>1. PICK insn \in Decoded[read_u32(pages, pc)] : Step(insn)
    BY <1>3 DEF Run
  <2>2. insn \in Insn
    <3>1. read_u32(pages, pc) \in Word
      BY <1>1, ReadsTyped DEF TypeOK, CpuTypeOK
    <3> QED
      BY <3>1, <2>1, ProgramAssumption
  <2>3. Ready
    BY <2>1 DEF Ready, Step, Fetched
  <2>4. CASE BaseStep(insn) /\ UNCHANGED io
    BY <2>2, <2>3, <2>4, BaseStepShape
  <2>5. CASE CustomStep(insn)
    BY <2>2, <2>3, <2>5, Custom0Shape, ModularShape, ComplexShape, CurveShape, PairingShape
       DEF CustomStep
  <2> QED
    BY <2>1, <2>4, <2>5 DEF Step
<1> QED
  BY <1>2, <1>3 DEF Next

-----------------------------------------------------------------------------
\* The machine is well typed once a guest is loaded.
LEMMA InitialTypes ==
    ASSUME NEW streams \in Seq(Seq(Byte)), CpuInit, io = with_input_streams(streams)
    PROVE  TypeOK
<1>1. WordSize - 16 \in Word /\ 0 \in Word
  BY Sizes, Words DEF Word
<1>2. CpuTypeOK
  BY <1>1, ImageTyped, ProgramAssumption DEF CpuInit, CpuTypeOK, DEFAULT_STACK_TOP, Kind
<1>3. io \in IoStateType
  BY DEF with_input_streams, IoStateType
<1> QED
  BY <1>2, <1>3 DEF TypeOK

\* A step keeps it so.
LEMMA TypesKept == ASSUME TypeOK, [Next]_vars PROVE TypeOK'
<1>1. CASE UNCHANGED vars
  BY <1>1 DEF vars, TypeOK, CpuTypeOK
<1>2. CASE Stops
  BY <1>2 DEF Stops, TypeOK, CpuTypeOK
<1>3. CASE Goes
  BY <1>3 DEF Goes, IoChange, TypeOK, CpuTypeOK
<1> QED
  BY <1>1, <1>2, <1>3, StepShape

\* Every reachable state is well typed: registers and program counter hold
\* words, memory is a page table, the streams hold bytes.
THEOREM MachineTypeCorrect == Spec => []TypeOK
<1>1. Init => TypeOK
  BY InitialTypes, ConfigAssumption DEF Init
<1>2. TypeOK /\ [Next]_vars => TypeOK'
  BY TypesKept
<1> QED
  BY <1>1, <1>2, PTL DEF Spec

\* A program entered at an even address stays at even addresses.
THEOREM StaysEven == Spec => []PcEven
<1>1. Init => PcEven
  BY DEF Init, CpuInit, PcEven
<1>2. TypeOK /\ PcEven /\ [Next]_vars => PcEven'
  <2> SUFFICES ASSUME TypeOK, PcEven, [Next]_vars PROVE PcEven'
    OBVIOUS
  <2>1. CASE UNCHANGED vars
    BY <2>1 DEF vars, PcEven
  <2>2. CASE Stops
    BY <2>2 DEF Stops, PcEven
  <2>3. CASE Goes
    BY <2>3 DEF Goes, PcEven
  <2> QED
    BY <2>1, <2>2, <2>3, StepShape
<1> QED
  BY <1>1, <1>2, MachineTypeCorrect, PTL DEF Spec

\* The budget is never exceeded, and never said to be before it is used up.
THEOREM BudgetKept == Spec => []StepBudget
<1>1. Init => StepBudget
  BY ProgramAssumption DEF Init, CpuInit, StepBudget
<1>2. TypeOK /\ StepBudget /\ [Next]_vars => StepBudget'
  <2> SUFFICES ASSUME TypeOK, StepBudget, [Next]_vars PROVE StepBudget'
    OBVIOUS
  <2>1. steps \in Nat /\ MaxSteps \in Nat
    BY ProgramAssumption DEF TypeOK, CpuTypeOK
  <2>2. CASE UNCHANGED vars
    BY <2>2 DEF vars, StepBudget
  <2>3. CASE Stops
    BY <2>1, <2>3 DEF Stops, StepBudget
  <2>4. CASE Goes
    BY <2>1, <2>4 DEF Goes, Running, StepBudget
  <2> QED
    BY <2>2, <2>3, <2>4, StepShape
<1> QED
  BY <1>1, <1>2, MachineTypeCorrect, PTL DEF Spec

\* The hint stream is always a whole number of words, in whatever order the
\* guest reads, asks and leaves unread, and however long its entries are.
THEOREM HintsStayAligned == Spec => []HintAligned
<1>1. Init => HintAligned
  <2>1. Len(<<>>) % 4 = 0
    OBVIOUS
  <2> QED
    BY <2>1 DEF Init, with_input_streams, HintAligned
<1>2. TypeOK /\ HintAligned /\ [Next]_vars => HintAligned'
  <2> SUFFICES ASSUME TypeOK, HintAligned, [Next]_vars PROVE HintAligned'
    OBVIOUS
  <2>1. io \in IoStateType /\ io.hint_stream \in Seq(Byte) /\ Len(io.hint_stream) \in Nat
    BY DEF TypeOK, IoStateType
  <2>2. CASE UNCHANGED io
    BY <2>2 DEF HintAligned
  <2>3. CASE Popped
    BY <2>1, <2>3, HintInputTyped, FramedTyped, ZenonT(30) DEF Popped, HintAligned
  <2>4. CASE TookHint
    <3>1. PICK n \in Nat : io' = after_read_hint(io, 4 * n)
      BY <2>4 DEF TookHint
    <3> DEFINE k == 4 * n
               left == after_read_hint(io, k)
    <3>2. k \in Nat /\ k % 4 = 0
      OBVIOUS
    <3> HIDE DEF k
    <3>3. Len(left.hint_stream)
            = IF k <= Len(io.hint_stream) THEN Len(io.hint_stream) - k ELSE 0
      BY <2>1, <3>2, ReadHintTyped
    <3>4. Len(left.hint_stream) % 4 = 0
      <4> DEFINE h == Len(io.hint_stream)
      <4>1. h \in Nat /\ h % 4 = 0
        BY <2>1 DEF HintAligned
      <4> HIDE DEF h
      <4>2. (IF k <= h THEN h - k ELSE 0) % 4 = 0
        BY <3>2, <4>1
      <4> QED
        BY <3>3, <4>2 DEF h
    <3> QED
      BY <3>1, <3>4 DEF HintAligned, k
  <2>5. CASE GotHint
    <3>1. PICK bytes \in Seq(Byte) :
             /\ Len(bytes) % 4 = 0
             /\ io' = replace_hint_stream(io, bytes) \/ io' = extend_hint_stream(io, bytes)
      BY <2>5 DEF GotHint
    <3>2. Len(replace_hint_stream(io, bytes).hint_stream) % 4 = 0
      BY <2>1, <3>1, ProducedHintTyped
    <3>3. Len(extend_hint_stream(io, bytes).hint_stream) % 4 = 0
      <4> DEFINE m == Len(io.hint_stream)
                 l == Len(bytes)
      <4>1. m \in Nat /\ l \in Nat /\ m % 4 = 0 /\ l % 4 = 0
        <5>1. m \in Nat /\ m % 4 = 0
          BY <2>1 DEF HintAligned
        <5>2. l \in Nat
          BY LenProperties
        <5> QED
          BY <3>1, <5>1, <5>2
      <4>2. Len(extend_hint_stream(io, bytes).hint_stream) = m + l
        BY <2>1, ProducedHintTyped
      <4> HIDE DEF m, l
      <4>3. (m + l) % 4 = 0
        BY <4>1
      <4> QED
        BY <4>2, <4>3
    <3> QED
      BY <3>1, <3>2, <3>3 DEF HintAligned
  <2>6. CASE Revealed
    <3>1. PICK off \in Word, bytes \in Seq(Byte) : io' = write_output(io, off, bytes)
      BY <2>6 DEF Revealed
    <3>2. write_output(io, off, bytes).hint_stream = io.hint_stream
      BY <2>1, Words, WriteOutputTyped
    <3> QED
      BY <3>1, <3>2 DEF HintAligned
  <2> QED
    BY <2>2, <2>3, <2>4, <2>5, <2>6, StepShape DEF Stops, Goes, IoChange, vars
<1> QED
  BY <1>1, <1>2, MachineTypeCorrect, PTL DEF Spec

\* An instruction that ends the run does nothing else.
THEOREM MachineStopsInPlace == Spec => StopsInPlace
<1>1. TypeOK /\ [Next]_vars =>
        [ result'.kind # "running"
            => /\ UNCHANGED <<pc, x, pages, steps, io>>
               /\ result'.kind # "ok" => result'.val = pc ]_vars
  <2> SUFFICES ASSUME TypeOK, Next, result'.kind # "running"
               PROVE  /\ UNCHANGED <<pc, x, pages, steps, io>>
                      /\ result'.kind # "ok" => result'.val = pc
    BY DEF vars
  <2>1. ~ Goes
    BY DEF Goes, Running
  <2> QED
    BY <2>1, StepShape DEF Stops
<1> QED
  BY <1>1, MachineTypeCorrect, PTL DEF Spec, StopsInPlace

\* Streams leave the queue in order, and after each the guest's next word is
\* the length of the stream that left.
THEOREM QueueInOrder == Spec => StreamsInOrder
<1> DEFINE entry == Head(io.input_streams)
<1>1. TypeOK /\ [Next]_vars =>
        [ io'.input_streams # io.input_streams
            => /\ io.input_streams # <<>>
               /\ io'.input_streams = Tail(io.input_streams)
               /\ from_le_bytes(read_hint_bytes(io', 4)) = Len(entry) % WordSize
               /\ Len(io'.hint_stream) - 4 - Len(entry) \in 0 .. 3 ]_vars
  <2> SUFFICES ASSUME TypeOK, Next, io'.input_streams # io.input_streams
               PROVE  /\ io.input_streams # <<>>
                      /\ io'.input_streams = Tail(io.input_streams)
                      /\ from_le_bytes(read_hint_bytes(io', 4)) = Len(entry) % WordSize
                      /\ Len(io'.hint_stream) - 4 - Len(entry) \in 0 .. 3
    BY DEF vars
  <2>1. io \in IoStateType
    BY DEF TypeOK
  <2>2. Popped
    <3>1. ~ (UNCHANGED io)
      OBVIOUS
    <3>2. ~ TookHint
      <4>1. ASSUME NEW n \in Nat
            PROVE  after_read_hint(io, 4 * n).input_streams = io.input_streams
        <5>1. 4 * n \in Nat
          OBVIOUS
        <5> QED
          BY <2>1, <5>1, ReadHintTyped
      <4> QED
        BY <4>1 DEF TookHint
    <3>3. ~ GotHint
      <4>1. ASSUME NEW bytes \in Seq(Byte)
            PROVE  /\ replace_hint_stream(io, bytes).input_streams = io.input_streams
                   /\ extend_hint_stream(io, bytes).input_streams = io.input_streams
        BY <2>1, ProducedHintTyped
      <4> QED
        BY <4>1 DEF GotHint
    <3>4. ~ Revealed
      <4>1. ASSUME NEW off \in Word, NEW bytes \in Seq(Byte)
            PROVE  write_output(io, off, bytes).input_streams = io.input_streams
        BY <2>1, Words, WriteOutputTyped
      <4> QED
        BY <4>1 DEF Revealed
    <3> QED
      BY <3>1, <3>2, <3>3, <3>4, StepShape DEF Stops, Goes, IoChange
  <2> DEFINE next == hint_input(io)
             l == Len(entry) % WordSize
  <2>3. io.input_streams # <<>> /\ io' = next
    BY <2>2 DEF Popped
  <2>4. /\ entry \in Seq(Byte)
        /\ next.input_streams = Tail(io.input_streams)
        /\ next.hint_stream = framed(entry)
    BY <2>1, <2>3, HintInputTyped
  <2> HIDE DEF entry, next
  <2>5. /\ Len(framed(entry)) \in Nat /\ Len(entry) \in Nat
        /\ Len(framed(entry)) - 4 - Len(entry) \in 0 .. 3
        /\ \A i \in 1 .. 4 : framed(entry)[i] = to_le_bytes(l)[i]
    BY <2>4, FramedTyped, LenProperties
  <2>6. l \in Word
    <3>1. Len(entry) \in Int /\ WordSize \in Nat \ {0}
      BY <2>5, Sizes
    <3> QED
      BY <3>1, DivMod DEF Word
  <2> HIDE DEF l
  <2>7. from_le_bytes(read_hint_bytes(next, 4)) = from_le_bytes(to_le_bytes(l))
    <3>1. Len(framed(entry)) >= 4
      BY <2>5
    <3>2. \A i \in 1 .. 4 : read_hint_bytes(next, 4)[i] = to_le_bytes(l)[i]
      BY <2>4, <2>5, <3>1 DEF read_hint_bytes
    <3> QED
      BY <3>2 DEF from_le_bytes
  <2>8. from_le_bytes(read_hint_bytes(next, 4)) = l
    BY <2>6, <2>7, RoundTrip
  <2> QED
    BY <2>3, <2>4, <2>5, <2>8 DEF l
<1> QED
  BY <1>1, MachineTypeCorrect, PTL DEF Spec, StreamsInOrder

\* The public output never gets shorter, and a step changes four bytes of it.
THEOREM OutputGrows == Spec => OutputOnlyRevealed
<1> DEFINE OneReveal ==
             /\ Len(io'.output) >= Len(io.output)
             /\ \E off \in 0 .. WordSize - 1 :
                  \A i \in DOMAIN io'.output \ (off + 1 .. off + 4) :
                     io'.output[i] = IF i \in DOMAIN io.output THEN io.output[i] ELSE 0
<1>1. TypeOK /\ [Next]_vars => [io'.output # io.output => OneReveal]_vars
  <2> SUFFICES ASSUME TypeOK, Next, io'.output # io.output
               PROVE  OneReveal
    BY DEF vars
  <2>1. io \in IoStateType
    BY DEF TypeOK
  <2>2. Revealed
    <3>1. ~ (UNCHANGED io)
      OBVIOUS
    <3>2. ~ TookHint
      <4>1. ASSUME NEW n \in Nat
            PROVE  after_read_hint(io, 4 * n).output = io.output
        <5>1. 4 * n \in Nat
          OBVIOUS
        <5> QED
          BY <2>1, <5>1, ReadHintTyped
      <4> QED
        BY <4>1 DEF TookHint
    <3>3. ~ GotHint
      <4>1. ASSUME NEW bytes \in Seq(Byte)
            PROVE  /\ replace_hint_stream(io, bytes).output = io.output
                   /\ extend_hint_stream(io, bytes).output = io.output
        BY <2>1, ProducedHintTyped
      <4> QED
        BY <4>1 DEF GotHint
    <3>4. ~ Popped
      BY <2>1, HintInputTyped DEF Popped
    <3> QED
      BY <3>1, <3>2, <3>3, <3>4, StepShape DEF Stops, Goes, IoChange
  <2>3. PICK off \in Word, bytes \in Seq(Byte) :
           Len(bytes) = 4 /\ io' = write_output(io, off, bytes)
    BY <2>2 DEF Revealed
  <2> DEFINE new == write_output(io, off, bytes).output
             old == io.output
  <2>4. /\ Len(new) >= Len(old)
        /\ \A i \in 1 .. Len(new) :
              i \notin off + 1 .. off + 4 => new[i] = IF i <= Len(old) THEN old[i] ELSE 0
        /\ write_output(io, off, bytes) \in IoStateType
    <3>1. off \in Nat /\ Len(bytes) = 4
      BY <2>3, Words
    <3>2. /\ Len(new) >= Len(old)
          /\ write_output(io, off, bytes) \in IoStateType
          /\ \A i \in 1 .. Len(new) :
                i \notin off + 1 .. off + Len(bytes) =>
                  new[i] = IF i <= Len(old) THEN old[i] ELSE 0
      BY <2>1, <3>1, WriteOutputTyped, ZenonT(30)
    <3> HIDE DEF new, old
    <3> QED
      BY <3>1, <3>2
  <2>5. /\ new \in Seq(Byte) /\ old \in Seq(Byte)
    BY <2>1, <2>4 DEF IoStateType
  <2>6. io'.output = new /\ off \in 0 .. WordSize - 1
    BY <2>3 DEF Word
  <2> HIDE DEF new, old
  <2>7. /\ DOMAIN new = 1 .. Len(new) /\ DOMAIN old = 1 .. Len(old)
        /\ Len(new) \in Nat /\ Len(old) \in Nat
    BY <2>5, LenProperties
  <2>8. \A i \in DOMAIN new \ (off + 1 .. off + 4) :
           new[i] = IF i \in DOMAIN old THEN old[i] ELSE 0
    BY <2>4, <2>7
  <2> QED
    BY <2>4, <2>6, <2>8 DEF old
<1> QED
  BY <1>1, MachineTypeCorrect, PTL DEF Spec, OutputOnlyRevealed

-----------------------------------------------------------------------------
\* XORIN of ranges that may overlap.

\* The bytes that the rounds find at the source.
LEMMA XorinSources ==
    ASSUME pages \in PageTable, NEW dst \in Word, NEW src \in Word, NEW len \in Nat
    PROVE  \E s \in [0 .. len - 1 -> Byte] :
              /\ xored(dst, src, len) =
                    [i \in 1 .. len |-> XorByte(read_u8(pages, wrapping_add(dst, i - 1)), s[i - 1])]
              /\ \A i \in 0 .. len - 1 :
                    LET r == wrapping_sub(wrapping_add(src, i), dst)
                    IN  s[i] = IF r < i
                               THEN XorByte(read_u8(pages, wrapping_add(dst, r)), s[r])
                               ELSE read_u8(pages, wrapping_add(src, i))
<1> DEFINE round(i) == wrapping_sub(wrapping_add(src, i), dst)
           own(i)   == read_u8(pages, wrapping_add(src, i))
           old(i)   == read_u8(pages, wrapping_add(dst, round(i)))
           sol(g)   == [i \in 0 .. len - 1 |->
                           IF round(i) < i THEN XorByte(old(i), g[round(i)]) ELSE own(i)]
           s[i \in 0 .. len - 1] ==
              IF round(i) < i THEN XorByte(old(i), s[round(i)]) ELSE own(i)
<1>1. ASSUME NEW i \in 0 .. len
      PROVE  round(i) \in Word /\ round(i) \in Nat /\ own(i) \in Byte
  <2>1. wrapping_add(src, i) \in Word
    BY WrapTyped, Words
  <2> QED
    BY <2>1, WrapTyped, Words, ReadTyped
<1>2. \E g : g = sol(g)
  <2> DEFINE prev == [i \in 0 .. len |-> round(i)]
             base == [i \in 0 .. len |-> own(i)]
             step == [iv \in (0 .. len) \X Byte |-> XorByte(old(iv[1]), iv[2])]
  <2>1. /\ prev \in [0 .. len -> Int]
        /\ base \in [0 .. len -> Byte]
        /\ step \in [(0 .. len) \X Byte -> Byte]
    BY <1>1, BitwiseTyped
  <2>2. PICK g \in [0 .. len -> Byte] : LooksBack(g, len, prev, base, step)
    <3> HIDE DEF prev, base, step
    <3> QED
      BY <2>1, Recursion
  <2> DEFINE h == [i \in 0 .. len - 1 |-> g[i]]
  <2>3. ASSUME NEW i \in 0 .. len - 1
        PROVE  h[i] = IF round(i) < i THEN XorByte(old(i), h[round(i)]) ELSE own(i)
    <3>1. i \in 0 .. len /\ round(i) \in Nat
      BY <1>1
    <3>2. round(i) \in 0 .. i - 1 <=> round(i) < i
      BY <3>1
    <3>3. g[i] = IF round(i) < i THEN step[<<i, g[round(i)]>>] ELSE own(i)
      BY <2>2, <3>1, <3>2 DEF LooksBack
    <3>4. round(i) < i => /\ step[<<i, g[round(i)]>>] = XorByte(old(i), g[round(i)])
                          /\ h[round(i)] = g[round(i)]
      BY <3>1
    <3> QED
      BY <3>3, <3>4
  <2>4. h = sol(h)
    <3> HIDE DEF round, own, old
    <3> QED
      BY <2>3
  <2> QED
    BY <2>4
<1>3. s = sol(s)
  BY <1>2
<1>4. xored(dst, src, len) =
         [i \in 1 .. len |-> XorByte(read_u8(pages, wrapping_add(dst, i - 1)), s[i - 1])]
  BY DEF xored
<1> HIDE DEF s
<1>5. \A i \in 0 .. len - 1 :
         s[i] = IF round(i) < i THEN XorByte(old(i), s[round(i)]) ELSE own(i)
  BY <1>3
<1>6. s \in [0 .. len - 1 -> Byte]
  <2>1. \A i \in 0 .. len - 1 : s[i] \in Byte
    BY <1>1, <1>5, BitwiseTyped
  <2>2. DOMAIN s = 0 .. len - 1 /\ s = [i \in 0 .. len - 1 |-> s[i]]
    BY <1>3
  <2> QED
    BY <2>1, <2>2
<1> QED
  BY <1>4, <1>5, <1>6

\* The round that writes byte i of the source comes after round i, unless the
\* destination starts within the source.
LEMMA NotYetWritten ==
    ASSUME NEW dst \in Word, NEW src \in Word, NEW i \in Nat, NEW len \in Nat,
           i < len, len < WordSize, wrapping_sub(dst, src) \notin 1 .. len - 1
    PROVE  ~(wrapping_sub(wrapping_add(src, i), dst) < i)
<1> DEFINE d == wrapping_sub(dst, src)
<1>1. /\ dst \in Nat /\ src \in Nat /\ dst < WordSize /\ src < WordSize
      /\ WordSize \in Nat \ {0}
  BY Words, Sizes
<1>2. d = IF dst >= src THEN dst - src ELSE dst - src + WordSize
  BY <1>1, Z3 DEF wrapping_sub
<1>3. wrapping_sub(wrapping_add(src, i), dst)
         = IF d <= i THEN i - d ELSE i - d + WordSize
  BY <1>1, <1>2, Z3 DEF wrapping_sub, wrapping_add
<1>4. d = 0 \/ d >= len
  BY <1>1, <1>2
<1> HIDE DEF d
<1> QED
  BY <1>1, <1>2, <1>3, <1>4

\* What one write of the bytes xored leaves in memory.
LEMMA XoredBytes ==
    ASSUME pages \in PageTable, NEW dst \in Word, NEW src \in Word, NEW len \in Word,
           NEW new, new = write_slice(pages, dst, xored(dst, src, len))
    PROVE  /\ Distance(src, dst) \notin 1 .. len - 1
              => \A i \in 0 .. len - 1 :
                    read_u8(new, wrapping_add(dst, i))
                      = XorByte(read_u8(pages, wrapping_add(dst, i)),
                                read_u8(pages, wrapping_add(src, i)))
           /\ \A a \in Word : Distance(dst, a) >= len => read_u8(new, a) = read_u8(pages, a)
<1> DEFINE at(i)   == wrapping_add(dst, i)
           from(i) == wrapping_add(src, i)
           back(a) == wrapping_sub(a, dst)
           data    == xored(dst, src, len)
<1>1. len \in Nat /\ len < WordSize /\ WordSize \in Nat
  BY Words, Sizes
<1>2. PICK s \in [0 .. len - 1 -> Byte] :
         /\ data = [i \in 1 .. len |-> XorByte(read_u8(pages, wrapping_add(dst, i - 1)), s[i - 1])]
         /\ \A i \in 0 .. len - 1 :
               s[i] = IF back(from(i)) < i
                      THEN XorByte(read_u8(pages, at(back(from(i)))), s[back(from(i))])
                      ELSE read_u8(pages, from(i))
  BY <1>1, XorinSources
<1> HIDE DEF data
<1>3. Len(data) = len
  BY <1>1, <1>2
<1>4. Writes(pages, new, dst, data)
  BY <1>1, <1>3, WriteSliceWrites DEF data
<1>5. \A a \in Word : read_u8(new, a) = IF back(a) < len THEN data[back(a) + 1] ELSE read_u8(pages, a)
  BY <1>3, <1>4 DEF Writes
<1>6. ASSUME NEW a \in Word, Distance(dst, a) >= len
      PROVE  read_u8(new, a) = read_u8(pages, a)
  <2>1. back(a) \in Nat
    BY WrapWord, Words
  <2>2. ~(back(a) < len)
    BY <1>1, <1>6, <2>1 DEF Distance
  <2> QED
    BY <1>5, <2>2
<1>7. ASSUME Distance(src, dst) \notin 1 .. len - 1, NEW i \in 0 .. len - 1
      PROVE  read_u8(new, at(i)) = XorByte(read_u8(pages, at(i)), read_u8(pages, from(i)))
  <2>1. i \in Word /\ i \in Nat /\ i < len
    BY <1>1, Words
  <2>2. at(i) \in Word /\ back(at(i)) = i
    BY <2>1, WrapWord, WrapDistance
  <2>3. read_u8(new, at(i)) = data[i + 1]
    BY <1>5, <2>1, <2>2
  <2>4. i + 1 \in 1 .. len /\ (i + 1) - 1 = i
    BY <1>1
  <2>5. data[i + 1] = XorByte(read_u8(pages, at(i)), s[i])
    BY <1>2, <2>4
  <2>6. ~(back(from(i)) < i)
    BY <1>1, <1>7, <2>1, NotYetWritten DEF Distance
  <2>7. s[i] = read_u8(pages, from(i))
    BY <1>2, <2>6
  <2> QED
    BY <2>3, <2>5, <2>7
<1> QED
  BY <1>6, <1>7

\* Every XORIN: where the destination does not start within the source, no
\* round reads what an earlier one wrote; outside of it nothing changes.
THEOREM XorinXorsSource == Spec => XorinXors
<1> DEFINE Xors(insn) ==
       LET dst == read_reg(insn.rd)
           src == read_reg(insn.rs1)
           len == read_reg(insn.rs2)
       IN  /\ Distance(src, dst) \notin 1 .. len - 1
              => \A i \in 0 .. len - 1 :
                    read_u8(pages', wrapping_add(dst, i))
                      = XorByte(read_u8(pages, wrapping_add(dst, i)),
                                read_u8(pages, wrapping_add(src, i)))
           /\ \A a \in Word :
                 Distance(dst, a) >= len => read_u8(pages', a) = read_u8(pages, a)
<1>1. ASSUME TypeOK, NEW insn \in Decoded[read_u32(pages, pc)], Xorin(insn)
      PROVE  Xors(insn)
  <2>1. pages \in PageTable /\ pc \in Word
    BY <1>1 DEF TypeOK, CpuTypeOK
  <2>2. insn \in Insn
    BY <1>1, <2>1, ReadsTyped, ProgramAssumption
  <2>3. read_reg(insn.rd) \in Word /\ read_reg(insn.rs1) \in Word /\ read_reg(insn.rs2) \in Word
    BY <1>1, <2>2, Operands
  <2>4. pages' = write_slice(pages, read_reg(insn.rd),
                    xored(read_reg(insn.rd), read_reg(insn.rs1), read_reg(insn.rs2)))
    BY <1>1 DEF Xorin, WriteMemory
  <2> QED
    BY <2>1, <2>3, <2>4, XoredBytes
<1>2. TypeOK => [\A insn \in Decoded[read_u32(pages, pc)] : Xorin(insn) => Xors(insn)]_vars
  BY <1>1
<1> QED
  BY <1>2, MachineTypeCorrect, PTL DEF Spec, XorinXors

-----------------------------------------------------------------------------
\* The signed immediate that addi and lw put in their fields is the one that is read.
LEMMA ImmediateRead ==
    ASSUME NEW imm \in Int, -2048 <= imm, imm <= 2047, NEW insn,
           insn.rs2 = imm % 32, insn.funct7 = (imm \div 32) % 128
    PROVE  imm12(insn) = imm % 4096 /\ imm_i(insn) = imm % WordSize
<1>1. PICK q \in Int, r \in 0 .. 31 : q = imm \div 32 /\ r = imm % 32 /\ imm = 32 * q + r
  OBVIOUS
<1>2. q \in -64 .. 63
  BY <1>1
<1>3. q % 128 = IF q >= 0 THEN q ELSE q + 128
  BY <1>2
<1>4. imm12(insn) = IF imm >= 0 THEN imm ELSE imm + 4096
  BY <1>1, <1>2, <1>3 DEF imm12
<1>5. imm % 4096 = IF imm >= 0 THEN imm ELSE imm + 4096
  OBVIOUS
<1>6. SignedIn(imm12(insn), 4096) = imm
  BY <1>4 DEF SignedIn
<1> QED
  BY <1>4, <1>5, <1>6 DEF imm_i, Unsigned

\* A branch k words back adds -4 k.
LEMMA BranchBack ==
    ASSUME NEW a, NEW b, NEW k \in 1 .. 7
    PROVE  imm_b(bne_back(a, b, k)) = (-4 * k) % WordSize
<1>1. /\ bne_back(a, b, k).rd = 33 - 4 * k
      /\ bne_back(a, b, k).funct7 = 127
  BY DEF bne_back
<1>2. (33 - 4 * k) % 2 = 1 /\ (33 - 4 * k) \div 2 = 16 - 2 * k
  OBVIOUS
<1>3. sign(bne_back(a, b, k)) = 1 /\ 127 % 64 = 63
  BY <1>1 DEF sign
<1> QED
  BY <1>1, <1>2, <1>3 DEF imm_b, Unsigned

\* The opcode tells the instructions of the base set apart.
LEMMA BaseByOpcode ==
    ASSUME NEW insn, BaseStep(insn)
    PROVE  /\ insn.opcode \notin {CUSTOM_0, CUSTOM_1}
           /\ insn.opcode = OP_IMM /\ insn.funct3 = 0 => OpImm(insn)
           /\ insn.opcode = OP /\ insn.funct7 = 0 => Op(insn)
           /\ insn.opcode = LOAD /\ insn.funct3 = 2 => Load(insn)
           /\ insn.opcode = STORE /\ insn.funct3 = 2 => Store(insn)
           /\ insn.opcode = BRANCH /\ insn.funct3 = 1 => Branch(insn)
           /\ insn.opcode = 0 => IllegalInstruction(insn)
BY DEF BaseStep, Lui, Auipc, Jal, Jalr, Branch, Load, Store, Op, OpImm, Fence, ECall, EBreak,
       IllegalInstruction, Illegal, OpLegal, OpImmLegal, LUI, AUIPC, JAL, JALR, BRANCH, LOAD,
       STORE, OP_IMM, OP, MISC_MEM, SYSTEM, CUSTOM_0, CUSTOM_1

\* The opcode, funct3 and the immediate tell those of custom-0 apart.
LEMMA CustomByOpcode ==
    ASSUME NEW insn, CustomStep(insn)
    PROVE  /\ insn.opcode \in {CUSTOM_0, CUSTOM_1}
           /\ insn.opcode = CUSTOM_0 =>
                /\ insn.funct3 = 0 => Terminate(insn)
                /\ insn.funct3 = 1 /\ imm12(insn) = 0 => HintStorew(insn)
                /\ insn.funct3 = 2 => Reveal(insn)
                /\ insn.funct3 = 3 /\ imm12(insn) = 0 => HintInput(insn)
BY DEF CustomStep, Terminate, HintStorew, HintBuffer, HintUnknown, Reveal, HintInput, OtherPhantom,
       Keccakf, Xorin, Sha256Compress, HashUnknown, Int256, Beq256, NativeStorew,
       ModularArith, ModularIsEq, ModularSetup, HintNonQr, HintSqrt, ModularUnknown,
       ComplexArith, ComplexIsEq, ComplexSetup, ComplexUnknown,
       CurveArith, CurveSetup, CurveHint, CurveUnknown,
       HintFinalExp, PairingUnknown, Custom1Unknown, Custom0, Custom1,
       Modular, Complex, Curve, TableOp, UnknownTableOp, CUSTOM_0, CUSTOM_1

\* The program word by word.
LEMMA ProgramWords ==
    /\ Len(Program) = 23 /\ DOMAIN Program = 1 .. 23
    /\ Program[1] = addi(2, 0, StackTop)
    /\ Program[2] = guest_hint_input
    /\ Program[3] = addi(10, 2, -4)
    /\ Program[4] = sw(0, 0, 10)
    /\ Program[5] = hint_storew(10)
    /\ Program[6] = addi(2, 2, -20)
    /\ Program[7] = sw(0, 0, 2)
    /\ Program[8] = sw(0, 4, 2)
    /\ Program[9] = sw(0, 8, 2)
    /\ Program[10] = sw(0, 12, 2)
    /\ Program[11] = addi(5, 0, 0)
    /\ Program[12] = addi(6, 0, 16)
    /\ Program[13] = add(10, 2, 5)
    /\ Program[14] = hint_storew(10)
    /\ Program[15] = addi(5, 5, 4)
    /\ Program[16] = bne_back(5, 6, 3)
    /\ Program[17] = addi(5, 0, 0)
    /\ Program[18] = add(10, 2, 5)
    /\ Program[19] = lw(11, 0, 10)
    /\ Program[20] = reveal(5, 11)
    /\ Program[21] = addi(5, 5, 4)
    /\ Program[22] = bne_back(5, 6, 4)
    /\ Program[23] = terminate
BY DEF Program

-----------------------------------------------------------------------------
\* What the instructions of the echo guest do.
Sets(d, val) ==
    /\ x' = [x EXCEPT ![d] = val]
    /\ pc' = wrapping_add(pc, 4)
    /\ UNCHANGED <<pages, result, io>>

\* An instruction outside the custom opcodes leaves the host alone.
LEMMA BaseOf ==
    ASSUME NEW insn, Step(insn), insn.opcode \notin {CUSTOM_0, CUSTOM_1}
    PROVE  BaseStep(insn) /\ UNCHANGED io
BY CustomByOpcode DEF Step

\* An instruction of the first custom opcode goes to the handler.
LEMMA CustomOf ==
    ASSUME NEW insn, Step(insn), insn.opcode = CUSTOM_0
    PROVE  CustomStep(insn)
BY BaseByOpcode DEF Step

\* Registers and immediate of an addi.
AddiOperands(d, a, imm) ==
    d \in 1 .. 31 /\ a \in 0 .. 31 /\ imm \in Int /\ -2048 <= imm /\ imm <= 2047

\* What addi does.
AddiSet(d, a, imm) == Sets(d, (read_reg(a) + imm) % WordSize)

\* addi adds its signed immediate.
LEMMA AddiSets ==
    ASSUME TypeOK, NEW d, NEW a, NEW imm, AddiOperands(d, a, imm), Step(addi(d, a, imm))
    PROVE  AddiSet(d, a, imm)
<1>0. d \in 1 .. 31 /\ a \in 0 .. 31 /\ imm \in Int /\ -2048 <= imm /\ imm <= 2047
  BY DEF AddiOperands
<1> DEFINE insn == addi(d, a, imm)
<1>1. /\ insn.opcode = OP_IMM /\ insn.funct3 = 0 /\ insn.rd = d /\ insn.rs1 = a
      /\ insn.rs2 = imm % 32 /\ insn.funct7 = (imm \div 32) % 128
  BY DEF addi, i_type
<1>2. Step(insn)
  OBVIOUS
<1> HIDE DEF insn
<1>3. imm_i(insn) = imm % WordSize
  BY <1>0, <1>1, ImmediateRead
<1>4. OpImm(insn) /\ UNCHANGED io
  BY <1>1, <1>2, BaseOf, BaseByOpcode DEF OP_IMM, CUSTOM_0, CUSTOM_1
<1>5. op_imm_value(insn, read_reg(a)) = base_op(0, read_reg(a), imm_i(insn))
  BY <1>1 DEF op_imm_value
<1>6. base_op(0, read_reg(a), imm_i(insn)) = wrapping_add(read_reg(a), imm_i(insn))
  BY DEF base_op
<1>7. read_reg(a) \in Int
  BY <1>0, Registers, Words
<1>8. wrapping_add(read_reg(a), imm_i(insn)) = (read_reg(a) + imm) % WordSize
  <2>1. wrapping_add(Unsigned(imm), read_reg(a)) = (imm + read_reg(a)) % WordSize
    BY <1>0, <1>7, InnerReduction
  <2>2. Unsigned(imm) = imm_i(insn) /\ imm_i(insn) \in Int
    BY <1>0, <1>3, Sizes DEF Unsigned
  <2> QED
    BY <1>0, <2>1, <2>2, <1>7 DEF wrapping_add
<1>9. SetReg(d, (read_reg(a) + imm) % WordSize)
  BY <1>0, <1>1, <1>4, <1>5, <1>6, <1>8 DEF OpImm
<1> QED
  BY <1>0, <1>4, <1>9 DEF AddiSet, SetReg, Sets, Continue, write_reg

\* What add does.
AddSet(d, a, b) == Sets(d, wrapping_add(read_reg(a), read_reg(b)))

\* add adds two registers.
LEMMA AddSets ==
    ASSUME TypeOK, NEW d, d \in 1 .. 31, NEW a, NEW b, Step(add(d, a, b))
    PROVE  AddSet(d, a, b)
<1> DEFINE insn == add(d, a, b)
<1>1. /\ insn.opcode = OP /\ insn.funct3 = 0 /\ insn.funct7 = 0
      /\ insn.rd = d /\ insn.rs1 = a /\ insn.rs2 = b
  BY DEF add
<1>2. Step(insn)
  OBVIOUS
<1> HIDE DEF insn
<1>3. Op(insn) /\ UNCHANGED io
  BY <1>1, <1>2, BaseOf, BaseByOpcode DEF OP, CUSTOM_0, CUSTOM_1
<1>4. op_value(0, 0, read_reg(a), read_reg(b)) = base_op(0, read_reg(a), read_reg(b))
  BY DEF op_value
<1>5. base_op(0, read_reg(a), read_reg(b)) = wrapping_add(read_reg(a), read_reg(b))
  BY DEF base_op
<1>6. SetReg(d, wrapping_add(read_reg(a), read_reg(b)))
  BY <1>1, <1>3, <1>4, <1>5 DEF Op
<1> QED
  BY <1>3, <1>6 DEF AddSet, SetReg, Sets, Continue, write_reg

\* lw reads the word a register points at.
LEMMA LoadSets ==
    ASSUME TypeOK, NEW d \in 1 .. 31, NEW a \in 0 .. 31, Step(lw(d, 0, a))
    PROVE  Sets(d, read_u32(pages, read_reg(a)))
<1> DEFINE insn == lw(d, 0, a)
<1>1. /\ insn.opcode = LOAD /\ insn.funct3 = 2 /\ insn.rd = d /\ insn.rs1 = a
      /\ insn.rs2 = 0 % 32 /\ insn.funct7 = (0 \div 32) % 128
  BY DEF lw, i_type
<1>2. Step(insn)
  OBVIOUS
<1> HIDE DEF insn
<1>3. imm_i(insn) = 0
  BY <1>1, ImmediateRead, Sizes
<1>4. Load(insn) /\ UNCHANGED io
  BY <1>1, <1>2, BaseOf, BaseByOpcode DEF LOAD, CUSTOM_0, CUSTOM_1
<1>5. wrapping_add(read_reg(a), imm_i(insn)) = read_reg(a)
  BY <1>3, Registers, WrapZero
<1>6. loaded(2, read_reg(a)) = read_u32(pages, read_reg(a))
  BY DEF loaded
<1>7. SetReg(d, read_u32(pages, read_reg(a)))
  BY <1>1, <1>4, <1>5, <1>6 DEF Load
<1> QED
  BY <1>4, <1>7 DEF SetReg, Sets, Continue, write_reg

\* What sw does.
Stores(a, imm, b) ==
    /\ pages' = write_u32(pages, (read_reg(a) + imm) % WordSize, read_reg(b))
    /\ pc' = wrapping_add(pc, 4)
    /\ UNCHANGED <<x, result, io>>

\* sw writes a register where another one, and a small immediate, points.
LEMMA StoreWrites ==
    ASSUME TypeOK, NEW b, NEW a, a \in 0 .. 31, NEW imm, imm \in 0 .. 31, Step(sw(b, imm, a))
    PROVE  Stores(a, imm, b)
<1> DEFINE insn == sw(b, imm, a)
<1>1. /\ insn.opcode = STORE /\ insn.funct3 = 2 /\ insn.rd = imm
      /\ insn.rs1 = a /\ insn.rs2 = b /\ insn.funct7 = 0
  BY DEF sw
<1>2. Step(insn)
  OBVIOUS
<1> HIDE DEF insn
<1>3. imm_s(insn) = Unsigned(imm)
  BY <1>1 DEF imm_s, SignedIn
<1>4. Store(insn) /\ UNCHANGED io
  BY <1>1, <1>2, BaseOf, BaseByOpcode DEF STORE, CUSTOM_0, CUSTOM_1
<1>5. wrapping_add(read_reg(a), imm_s(insn)) = (read_reg(a) + imm) % WordSize
  <2>1. read_reg(a) \in Int /\ imm \in Int
    BY Registers, Words
  <2>2. wrapping_add(Unsigned(imm), read_reg(a)) = (imm + read_reg(a)) % WordSize
    BY <2>1, InnerReduction
  <2>3. Unsigned(imm) \in Int
    BY <2>1, Sizes DEF Unsigned
  <2> QED
    BY <1>3, <2>1, <2>2, <2>3 DEF wrapping_add
<1>6. \A addr, val : stored(2, addr, val) = write_u32(pages, addr, val)
  BY DEF stored
<1> QED
  BY <1>1, <1>4, <1>5, <1>6 DEF Stores, Store, Continue

\* What bne_back does.
Branches(a, b, k) ==
    /\ pc' = wrapping_add(pc, IF read_reg(a) # read_reg(b) THEN (-4 * k) % WordSize ELSE 4)
    /\ UNCHANGED <<x, pages, result, io>>

\* bne goes k words back or on.
LEMMA BranchGoes ==
    ASSUME NEW a, NEW b, NEW k, k \in 1 .. 7, Step(bne_back(a, b, k))
    PROVE  Branches(a, b, k)
<1> DEFINE insn == bne_back(a, b, k)
<1>1. insn.opcode = BRANCH /\ insn.funct3 = 1 /\ insn.rs1 = a /\ insn.rs2 = b
  BY DEF bne_back
<1>2. Step(insn) /\ imm_b(insn) = (-4 * k) % WordSize
  BY BranchBack
<1> HIDE DEF insn
<1>3. Branch(insn) /\ UNCHANGED io
  BY <1>1, <1>2, BaseOf, BaseByOpcode DEF BRANCH, CUSTOM_0, CUSTOM_1
<1>4. taken(1, read_reg(a), read_reg(b)) <=> read_reg(a) # read_reg(b)
  BY DEF taken
<1> QED
  BY <1>1, <1>2, <1>3, <1>4 DEF Branches, Branch, Continue

\* hint_input makes the only entry the hint stream, which is not empty however short the entry.
LEMMA HintInputTakes ==
    ASSUME NEW s \in Seq(Byte), io = with_input_streams(<< s >>), Step(guest_hint_input)
    PROVE  /\ io' = hint_input(io)
           /\ pc' = wrapping_add(pc, 4)
           /\ UNCHANGED <<x, pages, result>>
<1> DEFINE insn == guest_hint_input
<1>1. /\ insn.opcode = CUSTOM_0 /\ insn.funct3 = 3
      /\ insn.rs2 = 0 % 32 /\ insn.funct7 = (0 \div 32) % 128
  BY DEF guest_hint_input, i_type
<1>2. Step(insn)
  OBVIOUS
<1> HIDE DEF insn
<1>3. imm12(insn) = 0
  BY <1>1, ImmediateRead
<1>4. HintInput(insn)
  BY <1>1, <1>2, <1>3, CustomOf, CustomByOpcode
<1>5. io.input_streams = << s >> /\ ~EndOfInputStream(io)
  BY DEF with_input_streams, EndOfInputStream
<1>6. ChangeIo(hint_input(io))
  BY <1>4, <1>5 DEF HintInput
<1> QED
  BY <1>6 DEF ChangeIo, Handled, Continue

\* hint_storew moves a word from the hint stream into memory.
LEMMA HintStorewTakes ==
    ASSUME NEW a \in 0 .. 31, Step(hint_storew(a))
    PROVE  /\ pages' = write_slice(pages, read_reg(a), read_hint_bytes(io, 4))
           /\ io' = after_read_hint(io, 4)
           /\ pc' = wrapping_add(pc, 4)
           /\ UNCHANGED <<x, result>>
<1> DEFINE insn == hint_storew(a)
<1>1. /\ insn.opcode = CUSTOM_0 /\ insn.funct3 = 1 /\ insn.rd = a
      /\ insn.rs2 = 0 % 32 /\ insn.funct7 = (0 \div 32) % 128
  BY DEF hint_storew, i_type
<1>2. Step(insn)
  OBVIOUS
<1> HIDE DEF insn
<1>3. imm12(insn) = 0
  BY <1>1, ImmediateRead
<1>4. HintStorew(insn)
  BY <1>1, <1>2, <1>3, CustomOf, CustomByOpcode
<1>5. TakeHint(insn, 4)
  BY <1>4 DEF HintStorew
<1> QED
  BY <1>1, <1>5 DEF TakeHint, Handled, Continue

\* reveal writes a register to the output, at the offset another one holds.
LEMMA RevealWrites ==
    ASSUME TypeOK, NEW a \in 0 .. 31, NEW b \in 0 .. 31, Step(reveal(a, b))
    PROVE  /\ io' = write_output(io, read_reg(a), to_le_bytes(read_reg(b)))
           /\ pc' = wrapping_add(pc, 4)
           /\ UNCHANGED <<x, pages, result>>
<1> DEFINE insn == reveal(a, b)
<1>1. /\ insn.opcode = CUSTOM_0 /\ insn.funct3 = 2 /\ insn.rd = a /\ insn.rs1 = b
      /\ insn.rs2 = 0 % 32 /\ insn.funct7 = (0 \div 32) % 128
  BY DEF reveal, i_type
<1>2. Step(insn)
  OBVIOUS
<1> HIDE DEF insn
<1>3. imm12(insn) = 0
  BY <1>1, ImmediateRead
<1>4. Reveal(insn)
  BY <1>1, <1>2, CustomOf, CustomByOpcode
<1>5. wrapping_add(read_reg(a), 0) = read_reg(a)
  BY Registers, WrapZero
<1>6. ChangeIo(write_output(io, read_reg(a), to_le_bytes(read_reg(b))))
  BY <1>1, <1>3, <1>4, <1>5 DEF Reveal
<1> QED
  BY <1>6 DEF ChangeIo, Handled, Continue

\* terminate ends the run well.
LEMMA TerminateEnds ==
    ASSUME Step(terminate)
    PROVE  result'.kind = "ok" /\ UNCHANGED <<pc, x, pages, io>>
<1> DEFINE insn == terminate
<1>1. insn.opcode = CUSTOM_0 /\ insn.funct3 = 0
  BY DEF terminate, i_type
<1>2. Step(insn)
  OBVIOUS
<1> HIDE DEF insn
<1>3. Terminate(insn)
  BY <1>1, <1>2, CustomOf, CustomByOpcode
<1> QED
  BY <1>3 DEF Terminate, Return

\* A word that is no instruction ends the run with an error.
LEMMA UnimpEnds ==
    ASSUME Step(unimp)
    PROVE  result'.kind = "IllegalInstruction" /\ UNCHANGED <<pc, x, pages, io>>
<1> DEFINE insn == unimp
<1>1. insn.opcode = 0
  BY DEF unimp
<1>2. Step(insn)
  OBVIOUS
<1> HIDE DEF insn
<1>3. IllegalInstruction(insn) /\ UNCHANGED io
  BY <1>1, <1>2, BaseOf, BaseByOpcode DEF CUSTOM_0, CUSTOM_1
<1> QED
  BY <1>3 DEF IllegalInstruction, Return

\* What is written where addresses do not wrap.
WrittenAt(old, new, addr, n, data) ==
    \A a \in Word : read_u8(new, a) = IF addr <= a /\ a < addr + n
                                      THEN data[a - addr + 1] ELSE read_u8(old, a)

\* What a write within the address space leaves behind, address by address.
LEMMA WritesAt ==
    ASSUME NEW old, NEW new, NEW addr \in Word, NEW data, NEW n \in Nat, Len(data) = n,
           addr + n <= WordSize, Writes(old, new, addr, data)
    PROVE  WrittenAt(old, new, addr, n, data)
<1> SUFFICES ASSUME NEW a \in Word
             PROVE  read_u8(new, a) = IF addr <= a /\ a < addr + n
                                      THEN data[a - addr + 1] ELSE read_u8(old, a)
  BY DEF WrittenAt
<1> DEFINE d == wrapping_sub(a, addr)
<1>1. addr \in Int /\ a \in Int /\ 0 <= addr /\ 0 <= a /\ addr < WordSize /\ a < WordSize
  BY Words
<1>2. WordSize \in Nat \ {0}
  BY Sizes
<1>3. d = IF addr <= a THEN a - addr ELSE a - addr + WordSize
  <2>1. CASE addr <= a
    <3>1. a - addr \in 0 .. WordSize - 1
      BY <1>1, <1>2, <2>1
    <3> QED
      BY <1>2, <2>1, <3>1, Remainders DEF wrapping_sub
  <2>2. CASE addr > a
    <3>1. WordSize + a - addr \in 0 .. WordSize - 1
      BY <1>1, <1>2, <2>2
    <3>2. (WordSize + a - addr) % WordSize = (a - addr) % WordSize
      BY <1>1, <1>2, Raised
    <3>3. (WordSize + a - addr) % WordSize = WordSize + a - addr
      BY <1>2, <3>1, Remainders
    <3> QED
      BY <1>1, <1>2, <2>2, <3>2, <3>3 DEF wrapping_sub
  <2> QED
    BY <1>1, <2>1, <2>2
<1>4. read_u8(new, a) = IF d < n THEN data[d + 1] ELSE read_u8(old, a)
  BY DEF Writes
<1> HIDE DEF d
<1> QED
  BY <1>1, <1>2, <1>3, <1>4

\* Bytes make a word that is written as these bytes.
LEMMA WordRoundTrip ==
    ASSUME NEW a \in Byte, NEW b \in Byte, NEW c \in Byte, NEW d \in Byte
    PROVE  to_le_bytes(from_le_bytes(<<a, b, c, d>>)) = <<a, b, c, d>>
<1> DEFINE B  == ByteSize
           q3 == d
           q2 == c + B * q3
           q1 == b + B * q2
           w  == a + B * q1
<1>1. /\ B \in Nat \ {0}
      /\ a \in 0 .. B - 1 /\ b \in 0 .. B - 1 /\ c \in 0 .. B - 1 /\ d \in 0 .. B - 1
  BY Sizes DEF Byte
<1>2. q3 \in Int /\ q2 \in Int /\ q1 \in Int /\ w \in Int
  BY <1>1
<1>3. B * B \in Nat \ {0} /\ B * (B * B) \in Nat \ {0}
  BY <1>1, Product
<1>4. from_le_bytes(<<a, b, c, d>>) = w
  BY DEF from_le_bytes
<1>5. w % B = a /\ w \div B = q1
  <2>1. w = B * q1 + a
    BY <1>1, <1>2
  <2> HIDE DEF w, q1
  <2> QED
    BY <1>1, <1>2, <2>1, DivModUnique
<1>6. q1 % B = b
  <2>1. q1 = B * q2 + b
    BY <1>1, <1>2
  <2> HIDE DEF q1, q2
  <2> QED
    BY <1>1, <1>2, <2>1, DivModUnique
<1>7. q2 % B = c
  <2>1. q2 = B * q3 + c
    BY <1>1, <1>2
  <2> HIDE DEF q2, q3
  <2> QED
    BY <1>1, <1>2, <2>1, DivModUnique
<1>8. w \div (B * B) = q2
  <2>1. a + B * b \in 0 .. (B * B) - 1
    BY <1>1, Horner
  <2>2. w = (B * B) * q2 + (a + B * b)
    <3>1. w = a + B * (b + B * q2)
      OBVIOUS
    <3> HIDE DEF B, w, q1, q2, q3
    <3> QED
      BY <1>1, <1>2, <3>1, Z3
  <2> HIDE DEF w, q2
  <2> QED
    BY <1>2, <1>3, <2>1, <2>2, DivModUnique
<1>9. w \div (B * (B * B)) = q3
  <2>1. b + B * c \in 0 .. (B * B) - 1
    BY <1>1, Horner
  <2>2. a + B * (b + B * c) \in 0 .. (B * (B * B)) - 1
    BY <1>1, <1>3, <2>1, Horner
  <2>3. w = (B * (B * B)) * q3 + (a + B * (b + B * c))
    <3>1. w = a + B * (b + B * (c + B * q3))
      OBVIOUS
    <3> HIDE DEF B, w, q1, q2, q3
    <3> QED
      BY <1>1, <1>2, <3>1, Z3
  <2> HIDE DEF w, q3
  <2> QED
    BY <1>2, <1>3, <2>2, <2>3, DivModUnique
<1>10. q3 % B = d
  BY <1>1, Remainders
<1> HIDE DEF w, q1, q2, q3
<1> QED
  BY <1>4, <1>5, <1>6, <1>7, <1>8, <1>9, <1>10 DEF to_le_bytes

\* The addresses and offsets of the guest.
EchoOf(s) == [i \in 1 .. Echoed |-> IF i <= Len(s) THEN s[i] ELSE 0]
Buf == StackTop - 20

\* The words of the program are in memory.
ProgramIn(p) ==
    \A n \in 1 .. 23 : \A j \in 0 .. 3 :
       read_u8(p, 4 * (n - 1) + j) = to_le_bytes(n)[j + 1]

\* The stack and what is below it are addresses, and arithmetic on them does not wrap.
LEMMA EchoAddresses ==
    ASSUME EchoLoaded
    PROVE  /\ StackTop \in Int /\ 112 <= StackTop /\ StackTop <= 2047 /\ StackTop < WordSize
           /\ WordSize \in Int /\ WordSize > 112
           /\ \A a \in 0 .. StackTop : a \in Word /\ a % WordSize = a
<1>1. StackTop \in Word /\ StackTop \in 112 .. 2047
  BY ProgramWords DEF EchoLoaded
<1>2. StackTop \in Int /\ 112 <= StackTop /\ StackTop <= 2047 /\ StackTop < WordSize
  BY <1>1, Words
<1>3. WordSize \in Nat \ {0}
  BY Sizes
<1>4. \A a \in 0 .. StackTop : a \in 0 .. WordSize - 1
  BY <1>2, <1>3
<1> QED
  BY <1>2, <1>3, <1>4, Remainders DEF Word

\* An aligned or unaligned word that does not reach around the top of memory.
LEMMA ReadWordAt ==
    ASSUME EchoLoaded, NEW p \in PageTable, NEW a \in Int, 0 <= a, a + 4 <= StackTop
    PROVE  read_u32(p, a) = from_le_bytes(<< read_u8(p, a), read_u8(p, a + 1),
                                             read_u8(p, a + 2), read_u8(p, a + 3) >>)
<1>1. /\ a \in 0 .. StackTop /\ a + 1 \in 0 .. StackTop
      /\ a + 2 \in 0 .. StackTop /\ a + 3 \in 0 .. StackTop
  BY EchoAddresses
<1>2. /\ wrapping_add(a, 1) = a + 1 /\ wrapping_add(a, 2) = a + 2 /\ wrapping_add(a, 3) = a + 3
  BY <1>1, EchoAddresses DEF wrapping_add
<1> QED
  BY <1>1, <1>2, EchoAddresses, ReadWord

\* The instruction at 4 (n - 1) is the n-th of the program, or the one that fails.
LEMMA EchoFetches ==
    ASSUME EchoLoaded, TypeOK, ProgramIn(pages), NEW n \in 1 .. 23, pc = 4 * (n - 1), Run
    PROVE  Step(Program[n]) \/ Step(unimp)
<1>1. n \in Int /\ n \in 0 .. StackTop /\ n \in Word
  BY EchoAddresses
<1>2. pages \in PageTable
  BY DEF TypeOK, CpuTypeOK
<1>3. pc \in Int /\ 0 <= pc /\ pc + 4 <= StackTop
  BY <1>1, EchoAddresses
<1>4. read_u32(pages, pc) = from_le_bytes(<< read_u8(pages, pc), read_u8(pages, pc + 1),
                                             read_u8(pages, pc + 2), read_u8(pages, pc + 3) >>)
  BY <1>2, <1>3, ReadWordAt
<1>5. \A j \in 0 .. 3 : read_u8(pages, pc + j) = to_le_bytes(n)[j + 1]
  BY DEF ProgramIn
<1>6. /\ read_u8(pages, pc) = to_le_bytes(n)[1] /\ read_u8(pages, pc + 1) = to_le_bytes(n)[2]
      /\ read_u8(pages, pc + 2) = to_le_bytes(n)[3] /\ read_u8(pages, pc + 3) = to_le_bytes(n)[4]
  <2>1. /\ read_u8(pages, pc + 0) = to_le_bytes(n)[0 + 1]
        /\ read_u8(pages, pc + 1) = to_le_bytes(n)[1 + 1]
        /\ read_u8(pages, pc + 2) = to_le_bytes(n)[2 + 1]
        /\ read_u8(pages, pc + 3) = to_le_bytes(n)[3 + 1]
    BY <1>5
  <2>2. pc + 0 = pc /\ 0 + 1 = 1 /\ 1 + 1 = 2 /\ 2 + 1 = 3 /\ 3 + 1 = 4
    BY <1>3
  <2> QED
    BY <2>1, <2>2
<1>7. read_u32(pages, pc) = from_le_bytes(to_le_bytes(n))
  BY <1>4, <1>6 DEF from_le_bytes
<1>8. read_u32(pages, pc) = n
  BY <1>1, <1>7, RoundTrip
<1>9. Decoded[n] \subseteq {Program[n], unimp}
  BY ProgramWords DEF EchoLoaded
<1> QED
  BY <1>8, <1>9 DEF Run

\* The image of the program.
LEMMA ImageHoldsProgram ==
    ASSUME EchoLoaded, pages = Image
    PROVE  ProgramIn(pages)
<1> DEFINE data == [i \in 1 .. 4 * 23 |-> to_le_bytes((i + 3) \div 4)[1 + ((i - 1) % 4)]]
<1>1. Segments = << [vaddr |-> 0, data |-> data] >>
  BY ProgramWords DEF EchoLoaded, EchoSegments
<1>2. Len(data) = 92
  OBVIOUS
<1>3. /\ DOMAIN Segments = {1} /\ Segments[1].vaddr = 0 /\ Segments[1].data = data
      /\ Len(Segments[1].data) = 92
  BY <1>1, <1>2
<1> HIDE DEF data
<1>4. ASSUME NEW a \in 0 .. 91
      PROVE  read_u8(pages, a) = data[a + 1]
  <2>1. a \in Word /\ a \in Int /\ 0 <= a /\ a <= 91 /\ a % WordSize = a /\ a \in 0 .. StackTop
    BY EchoAddresses
  <2>2. Distance(0, a) = a
    BY <2>1 DEF Distance, wrapping_sub
  <2>3. Covers(Segments[1], a) /\ 1 \in DOMAIN Segments
    BY <1>3, <2>1, <2>2 DEF Covers
  <2>4. LastCovering(a) = 1
    BY <1>3, <2>3, LastCoveringExists
  <2>5. /\ page_idx(a) \in PageIndices /\ page_off(a) \in PageOffsets
        /\ a = PageSize * page_idx(a) + page_off(a)
    BY <2>1, Addressing
  <2>6. page_idx(a) \in PagesFrom(0, 92)
    <3>1. a \in 0 .. 92 - 1 /\ wrapping_add(0, a) = a
      BY <2>1 DEF wrapping_add
    <3> QED
      BY <3>1 DEF PagesFrom
  <2>7. page_idx(a) \in DOMAIN Image
    <3>1. page_idx(a) \in PagesFrom(Segments[1].vaddr, Len(Segments[1].data))
      BY <1>3, <2>6
    <3>2. page_idx(a) \in UNION { PagesFrom(Segments[k].vaddr, Len(Segments[k].data)) :
                                    k \in DOMAIN Segments }
      BY <2>3, <3>1, Zenon
    <3> QED
      BY <3>2, Zenon DEF Image
  <2>8. page_idx(a) * PageSize + page_off(a) = a
    BY <2>5, PageAssumption DEF PageIndices, PageOffsets
  <2>9. Image[page_idx(a)][page_off(a)] = Segments[1].data[Distance(0, a) + 1]
    BY <1>3, <2>3, <2>4, <2>5, <2>7, <2>8 DEF Image
  <2> QED
    BY <1>3, <2>2, <2>7, <2>9 DEF read_u8
<1>5. ASSUME NEW n \in 1 .. 23, NEW j \in 0 .. 3
      PROVE  read_u8(pages, 4 * (n - 1) + j) = to_le_bytes(n)[j + 1]
  <2> DEFINE i == 4 * (n - 1) + j + 1
  <2>1. 4 * (n - 1) + j \in 0 .. 91 /\ i \in 1 .. 4 * 23
    OBVIOUS
  <2>2. (i + 3) \div 4 = n /\ (i - 1) % 4 = j
    OBVIOUS
  <2>3. data[i] = to_le_bytes(n)[1 + j]
    BY <2>1, <2>2 DEF data
  <2>4. 1 + j = j + 1
    OBVIOUS
  <2>5. read_u8(pages, 4 * (n - 1) + j) = data[(4 * (n - 1) + j) + 1]
    BY <1>4, <2>1
  <2> QED
    BY <2>3, <2>4, <2>5
<1> QED
  BY <1>5 DEF ProgramIn

\* The byte a read takes j-th; bytes m + 1 to 16 of the echo come after d more
\* bytes; the first m of them are in buf.
Upcoming(s, j) == IF j <= Len(s) THEN s[j] ELSE 0
ComesNext(s, d, m, echo) == \A i \in m + 1 .. 16 : Upcoming(s, d + i - m) = echo[i]
BufferHas(p, m, echo) == \A i \in 1 .. m : read_u8(p, Buf + i - 1) = echo[i]

\* The echo is 16 bytes.
LEMMA EchoTyped ==
    ASSUME NEW s \in Seq(Byte)
    PROVE  EchoOf(s) \in [1 .. 16 -> Byte]
<1>1. ASSUME NEW i \in 1 .. 16
      PROVE  (IF i <= Len(s) THEN s[i] ELSE 0) \in Byte
  <2>1. 0 \in Byte /\ Len(s) \in Nat
    BY Sizes DEF Byte
  <2>2. i <= Len(s) => i \in 1 .. Len(s)
    BY <2>1
  <2>3. i \in 1 .. Len(s) => s[i] \in Byte
    OBVIOUS
  <2> QED
    BY <2>1, <2>2, <2>3
<1> QED
  BY <1>1 DEF EchoOf, Echoed

\* Behind the length, the frame of an input has what is echoed.
LEMMA FrameComesNext ==
    ASSUME NEW s \in Seq(Byte)
    PROVE  ComesNext(framed(s), 4, 0, EchoOf(s))
<1> DEFINE b == to_le_bytes(Len(s) % WordSize)
           u == b \o s
           n == (-Len(u)) % 4
           e == EchoOf(s)
<1>1. Len(s) \in Nat /\ Len(s) % WordSize \in Int
  BY Sizes
<1>2. b \in Seq(Byte) /\ Len(b) = 4
  BY <1>1, BytesTyped
<1> HIDE DEF b
<1>3. u \in Seq(Byte) /\ Len(u) = 4 + Len(s)
  <2>1. u \in Seq(Byte) /\ Len(u) = Len(b) + Len(s)
    BY <1>2, ByteStrings, Zenon
  <2> QED
    BY <1>2, <2>1
<1>4. n \in Nat
  BY <1>1, <1>3
<1>5. framed(s) = u \o Zeros(n)
  BY DEF framed, pad_to_word, b
<1> HIDE DEF u, n
<1>6. Zeros(n) \in Seq(Byte) /\ Len(Zeros(n)) = n /\ \A i \in 1 .. n : Zeros(n)[i] = 0
  BY <1>4, Sizes DEF Zeros, Byte
<1>7. /\ Len(u \o Zeros(n)) = Len(u) + n
      /\ \A i \in 1 .. Len(u) + n :
            (u \o Zeros(n))[i] = IF i <= Len(u) THEN u[i] ELSE Zeros(n)[i - Len(u)]
  BY <1>3, <1>4, <1>6
<1>8. ASSUME NEW i \in 1 .. 16
      PROVE  Upcoming(framed(s), 4 + i) = e[i]
  <2>1. e[i] = IF i <= Len(s) THEN s[i] ELSE 0
    BY DEF EchoOf, Echoed
  <2>2. CASE i <= Len(s)
    <3>1. framed(s)[4 + i] = s[i]
      <4>1. i \in 1 .. Len(s)
        BY <1>1, <2>2
      <4> QED
        BY <4>1, FramedTyped, Zenon
    <3>2. 4 + i <= Len(framed(s))
      BY <1>1, <1>3, <1>4, <1>5, <1>7, <2>2
    <3> QED
      BY <2>1, <2>2, <3>1, <3>2 DEF Upcoming
  <2>3. CASE i > Len(s) /\ 4 + i <= Len(framed(s))
    <3>1. 4 + i \in 1 .. Len(u) + n /\ ~(4 + i <= Len(u)) /\ 4 + i - Len(u) \in 1 .. n
      BY <1>1, <1>3, <1>4, <1>5, <1>7, <2>3
    <3>2. framed(s)[4 + i] = 0
      BY <1>5, <1>6, <1>7, <3>1
    <3> QED
      BY <1>1, <2>1, <2>3, <3>2 DEF Upcoming
  <2>4. CASE i > Len(s) /\ ~(4 + i <= Len(framed(s)))
    BY <1>1, <2>1, <2>4 DEF Upcoming
  <2> QED
    BY <1>1, <2>2, <2>3, <2>4
<1>9. \A i \in 0 + 1 .. 16 : 4 + i - 0 = 4 + i /\ i \in 1 .. 16
  OBVIOUS
<1> QED
  BY <1>8, <1>9 DEF ComesNext

\* A word that is taken from the stream.
LEMMA WordTaken ==
    ASSUME NEW s \in IoStateType
    PROVE  /\ \A i \in 1 .. 4 : read_hint_bytes(s, 4)[i] = Upcoming(s.hint_stream, i)
           /\ Len(read_hint_bytes(s, 4)) = 4
           /\ after_read_hint(s, 4) \in IoStateType
           /\ after_read_hint(s, 4).output = s.output
           /\ \A j \in Nat \ {0} :
                 Upcoming(after_read_hint(s, 4).hint_stream, j) = Upcoming(s.hint_stream, j + 4)
<1> DEFINE t == s.hint_stream
           r == SubSeq(t, 4 + 1, Len(t))
<1>1. t \in Seq(Byte) /\ Len(t) \in Nat
  BY DEF IoStateType
<1>2. after_read_hint(s, 4).hint_stream = r
  BY DEF after_read_hint, IoStateType
<1>3. \A i \in 1 .. 4 : read_hint_bytes(s, 4)[i] = Upcoming(t, i)
  BY DEF read_hint_bytes, Upcoming
<1>4. /\ Len(r) = IF 4 <= Len(t) THEN Len(t) - 4 ELSE 0
      /\ \A j \in 1 .. Len(r) : r[j] = t[j + 4]
  <2>1. CASE 5 <= Len(t)
    <3>1. 5 \in 1 .. Len(t) + 1 /\ Len(t) \in 0 .. Len(t)
      BY <1>1, <2>1
    <3> QED
      BY <1>1, <2>1, <3>1
  <2>2. CASE ~(5 <= Len(t))
    BY <1>1, <2>2
  <2> QED
    BY <2>1, <2>2
<1> HIDE DEF t, r
<1>5. \A j \in Nat \ {0} : Upcoming(r, j) = Upcoming(t, j + 4)
  BY <1>1, <1>4 DEF Upcoming
<1>6. s.hint_stream = t
  BY DEF t
<1> QED
  BY <1>2, <1>3, <1>5, <1>6, ReadHintTyped

\* After a word is taken, the next bytes of the echo come next.
LEMMA NextWord ==
    ASSUME NEW s \in IoStateType, NEW echo
    PROVE  /\ ComesNext(s.hint_stream, 4, 0, echo)
                => ComesNext(after_read_hint(s, 4).hint_stream, 0, 0, echo)
           /\ \A k \in 0 .. 3 :
                 ComesNext(s.hint_stream, 0, 4 * k, echo)
                   => ComesNext(after_read_hint(s, 4).hint_stream, 0, 4 * (k + 1), echo)
<1> DEFINE t == s.hint_stream
           r == after_read_hint(s, 4).hint_stream
<1>1. \A j \in Nat \ {0} : Upcoming(r, j) = Upcoming(t, j + 4)
  BY WordTaken
<1> HIDE DEF t, r
<1>2. ASSUME ComesNext(t, 4, 0, echo), NEW i \in 0 + 1 .. 16
      PROVE  Upcoming(r, 0 + i - 0) = echo[i]
  <2>1. /\ 0 + i - 0 = i /\ 4 + i - 0 = i + 4 /\ i \in Nat \ {0}
    OBVIOUS
  <2>2. Upcoming(t, 4 + i - 0) = echo[i]
    BY <1>2, Zenon DEF ComesNext
  <2> QED
    BY <1>1, <2>1, <2>2
<1>3. ASSUME NEW k \in 0 .. 3, ComesNext(t, 0, 4 * k, echo), NEW i \in 4 * (k + 1) + 1 .. 16
      PROVE  Upcoming(r, 0 + i - 4 * (k + 1)) = echo[i]
  <2>1. /\ 0 + i - 4 * (k + 1) \in Nat \ {0}
        /\ (0 + i - 4 * (k + 1)) + 4 = 0 + i - 4 * k
        /\ i \in 4 * k + 1 .. 16
    OBVIOUS
  <2>2. Upcoming(t, 0 + i - 4 * k) = echo[i]
    BY <1>3, <2>1 DEF ComesNext
  <2> QED
    BY <1>1, <2>1, <2>2
<1> QED
  BY <1>2, <1>3 DEF ComesNext, t, r

\* Writing a word on the stack leaves the program alone.
LEMMA ProgramKept ==
    ASSUME EchoLoaded, NEW p \in PageTable, NEW q, NEW a \in Int, Buf <= a, a + 4 <= StackTop,
           NEW data, Len(data) = 4, Writes(p, q, a, data), ProgramIn(p)
    PROVE  ProgramIn(q)
<1>1. a \in Word /\ a + 4 <= WordSize /\ 92 <= a /\ 4 \in Nat
  BY EchoAddresses DEF Buf
<1>2. \A b \in Word : read_u8(q, b) = IF a <= b /\ b < a + 4
                                      THEN data[b - a + 1] ELSE read_u8(p, b)
  <2>1. WrittenAt(p, q, a, 4, data)
    BY <1>1, WritesAt
  <2> QED
    BY <2>1 DEF WrittenAt
<1>3. ASSUME NEW n \in 1 .. 23, NEW j \in 0 .. 3
      PROVE  read_u8(q, 4 * (n - 1) + j) = read_u8(p, 4 * (n - 1) + j)
  <2>1. 4 * (n - 1) + j \in 0 .. StackTop /\ ~(a <= 4 * (n - 1) + j)
    BY <1>1, EchoAddresses
  <2> QED
    BY <1>2, <2>1, EchoAddresses
<1> QED
  BY <1>3 DEF ProgramIn

\* A word more in the buffer.
LEMMA BufferGrows ==
    ASSUME EchoLoaded, NEW p, NEW q, NEW k \in 0 .. 3,
           NEW data, Len(data) = 4, Writes(p, q, Buf + 4 * k, data), NEW s, NEW echo,
           \A i \in 1 .. 4 : data[i] = Upcoming(s, i),
           ComesNext(s, 0, 4 * k, echo), BufferHas(p, 4 * k, echo)
    PROVE  BufferHas(q, 4 * (k + 1), echo)
<1> DEFINE a == Buf + 4 * k
<1>1. a \in Word /\ a \in Int /\ a + 4 <= WordSize /\ 92 <= a /\ 4 \in Nat
  <2>1. a \in 0 .. StackTop
    BY EchoAddresses DEF Buf
  <2> QED
    BY <2>1, EchoAddresses DEF Buf
<1>2. \A b \in Word : read_u8(q, b) = IF a <= b /\ b < a + 4
                                      THEN data[b - a + 1] ELSE read_u8(p, b)
  <2>1. WrittenAt(p, q, a, 4, data)
    BY <1>1, WritesAt
  <2> QED
    BY <2>1 DEF WrittenAt
<1>3. ASSUME NEW i \in 1 .. 4 * (k + 1)
      PROVE  read_u8(q, Buf + i - 1) = echo[i]
  <2>1. Buf + i - 1 \in Word /\ Buf \in Int
    <3>1. Buf + i - 1 \in 0 .. StackTop
      BY EchoAddresses DEF Buf
    <3> QED
      BY <3>1, EchoAddresses DEF Buf
  <2>2. CASE i <= 4 * k
    <3>1. read_u8(p, Buf + i - 1) = echo[i]
      BY <2>2 DEF BufferHas
    <3>2. ~(a <= Buf + i - 1)
      BY <2>1, <2>2
    <3> QED
      BY <1>2, <2>1, <3>1, <3>2
  <2>3. CASE i > 4 * k
    <3>1. /\ a <= Buf + i - 1 /\ Buf + i - 1 < a + 4
          /\ (Buf + i - 1) - a + 1 = i - 4 * k /\ i - 4 * k \in 1 .. 4
      BY <2>1, <2>3
    <3>2. read_u8(q, Buf + i - 1) = data[i - 4 * k]
      BY <1>2, <2>1, <3>1
    <3>3. i \in 4 * k + 1 .. 16 /\ 0 + i - 4 * k = i - 4 * k
      BY <2>3
    <3>4. Upcoming(s, 0 + i - 4 * k) = echo[i]
      BY <3>3 DEF ComesNext
    <3> QED
      BY <3>1, <3>2, <3>3, <3>4
  <2> QED
    BY <2>2, <2>3
<1> QED
  BY <1>3 DEF BufferHas

\* The word that is loaded from the buffer.
LEMMA BufferWord ==
    ASSUME EchoLoaded, NEW p \in PageTable, NEW k \in 0 .. 3,
           NEW echo \in [1 .. 16 -> Byte], BufferHas(p, 16, echo)
    PROVE  \A i \in 1 .. 4 : to_le_bytes(read_u32(p, Buf + 4 * k))[i] = echo[4 * k + i]
<1> DEFINE a == Buf + 4 * k
<1>1. a \in Int /\ 0 <= a /\ a + 4 <= StackTop /\ Buf \in Int
  BY EchoAddresses DEF Buf
<1>2. read_u32(p, a) = from_le_bytes(<< read_u8(p, a), read_u8(p, a + 1),
                                        read_u8(p, a + 2), read_u8(p, a + 3) >>)
  BY <1>1, ReadWordAt
<1>3. /\ a = Buf + (4 * k + 1) - 1 /\ a + 1 = Buf + (4 * k + 2) - 1
      /\ a + 2 = Buf + (4 * k + 3) - 1 /\ a + 3 = Buf + (4 * k + 4) - 1
  BY <1>1
<1>4. /\ 4 * k + 1 \in 1 .. 16 /\ 4 * k + 2 \in 1 .. 16
      /\ 4 * k + 3 \in 1 .. 16 /\ 4 * k + 4 \in 1 .. 16
  OBVIOUS
<1>5. /\ read_u8(p, a) = echo[4 * k + 1] /\ read_u8(p, a + 1) = echo[4 * k + 2]
      /\ read_u8(p, a + 2) = echo[4 * k + 3] /\ read_u8(p, a + 3) = echo[4 * k + 4]
  <2>1. \A i \in 1 .. 16 : read_u8(p, Buf + i - 1) = echo[i]
    BY DEF BufferHas
  <2> HIDE DEF a
  <2> QED
    BY <1>3, <1>4, <2>1
<1> HIDE DEF a
<1>6. /\ echo[4 * k + 1] \in Byte /\ echo[4 * k + 2] \in Byte
      /\ echo[4 * k + 3] \in Byte /\ echo[4 * k + 4] \in Byte
  BY <1>4
<1>7. to_le_bytes(read_u32(p, a)) = << echo[4 * k + 1], echo[4 * k + 2],
                                       echo[4 * k + 3], echo[4 * k + 4] >>
  BY <1>2, <1>5, <1>6, WordRoundTrip
<1>8. \A i \in 1 .. 4 : i = 1 \/ i = 2 \/ i = 3 \/ i = 4
  OBVIOUS
<1> QED
  BY <1>7, <1>8 DEF a

\* The first k words of the echo are in the output.
EchoRevealed(output, k, echo) == output = [i \in 1 .. 4 * k |-> echo[i]]

\* A word more in the output.
LEMMA OutputGrowsByWord ==
    ASSUME NEW s, s \in IoStateType, NEW k, k \in 0 .. 3, NEW echo, NEW bytes, Len(bytes) = 4,
           EchoRevealed(s.output, k, echo), \A i \in 1 .. 4 : bytes[i] = echo[4 * k + i]
    PROVE  EchoRevealed(write_output(s, 4 * k, bytes).output, k + 1, echo)
<1> DEFINE old == s.output
           end == 4 * k + 4
<1>1. Len(old) = 4 * k
  BY DEF EchoRevealed
<1>2. write_output(s, 4 * k, bytes).output =
         [i \in 1 .. (IF Len(old) < end THEN end ELSE Len(old)) |->
              IF i \in 4 * k + 1 .. end THEN bytes[i - 4 * k]
              ELSE IF i <= Len(old) THEN old[i] ELSE 0]
  BY DEF write_output, IoStateType
<1>3. (IF Len(old) < end THEN end ELSE Len(old)) = 4 * (k + 1)
  BY <1>1
<1>4. ASSUME NEW i \in 1 .. 4 * (k + 1)
      PROVE  (IF i \in 4 * k + 1 .. end THEN bytes[i - 4 * k]
              ELSE IF i <= Len(old) THEN old[i] ELSE 0) = echo[i]
  <2>1. CASE i <= 4 * k
    BY <1>1, <2>1 DEF EchoRevealed
  <2>2. CASE i > 4 * k
    <3>1. i - 4 * k \in 1 .. 4 /\ 4 * k + (i - 4 * k) = i /\ i \in 4 * k + 1 .. end
      BY <2>2
    <3> QED
      BY <3>1
  <2> QED
    BY <2>1, <2>2
<1> DEFINE new == write_output(s, 4 * k, bytes).output
<1>5. new = [i \in 1 .. 4 * (k + 1) |->
               IF i \in 4 * k + 1 .. end THEN bytes[i - 4 * k]
               ELSE IF i <= Len(old) THEN old[i] ELSE 0]
  BY <1>2, <1>3, Zenon
<1> HIDE DEF new, old, end
<1>6. DOMAIN new = 1 .. 4 * (k + 1) /\ \A i \in 1 .. 4 * (k + 1) : new[i] = echo[i]
  BY <1>4, <1>5, Zenon
<1>7. new = [i \in 1 .. 4 * (k + 1) |-> new[i]]
  BY <1>5, <1>6, Zenon
<1>8. new = [i \in 1 .. 4 * (k + 1) |-> echo[i]]
  BY <1>6, <1>7, Zenon
<1> QED
  BY <1>8, Zenon DEF new, EchoRevealed

\* A word whose bytes are the k-th four of the echo.
Spells(w, k, echo) == \A i \in 1 .. 4 : to_le_bytes(w)[i] = echo[4 * k + i]

\* The next instruction is the n-th, and the loop it is in, if it is in one, has
\* moved k words.
EchoAt(n, k) ==
    LET echo == EchoOf(input_bytes)
    IN  /\ pc = 4 * (n - 1)
        /\ ProgramIn(pages)
        /\ n <= 12 => k = 0
        /\ n \in {13, 14, 18, 19, 20} => k <= 3
        /\ n \in {15, 16, 21, 22} => k >= 1
        /\ n \in {17, 23} => k = 4
        /\ n \in 2 .. 6 => x[2] = StackTop
        /\ n \in 7 .. 22 => x[2] = Buf
        /\ n \in 12 .. 22 => x[5] = IF n \in {15, 21} THEN 4 * k - 4 ELSE 4 * k
        /\ n \in 13 .. 22 => x[6] = 16
        /\ n \in {4, 5} => x[10] = StackTop - 4
        /\ n \in {14, 19} => x[10] = Buf + 4 * k
        /\ n = 20 => Spells(x[11], k, echo)
        /\ n \in {1, 2} => io = with_input_streams(<< input_bytes >>)
        /\ n \in 3 .. 5 => ComesNext(io.hint_stream, 4, 0, echo)
        /\ n \in 6 .. 16 => ComesNext(io.hint_stream, 0, 4 * k, echo)
        /\ n \in 13 .. 17 => BufferHas(pages, 4 * k, echo)
        /\ n \in 18 .. 22 => BufferHas(pages, 16, echo)
        /\ n <= 17 => io.output = <<>>
        /\ n \in 18 .. 23 => io.output = [i \in 1 .. 4 * k |-> echo[i]]

\* The n-th instruction is executed, the one that fails is not.
Executes(n, k) ==
    /\ EchoLoaded
    /\ TypeOK /\ pages' \in PageTable /\ io' \in IoStateType /\ x' \in [0 .. 31 -> Word]
    /\ input_bytes \in Seq(Byte) /\ input_bytes' = input_bytes
    /\ EchoAt(n, k)
    /\ Step(Program[n])

\* The guest goes on to its n-th instruction.
Reaches(n, k) == EchoAt(n, k)' /\ UNCHANGED result

\* The program counter goes on within the program.
LEMMA NextWordAddress ==
    ASSUME EchoLoaded, NEW n \in 1 .. 22, pc = 4 * (n - 1)
    PROVE  wrapping_add(pc, 4) = 4 * n
<1>1. 4 * n \in 0 .. StackTop /\ pc + 4 = 4 * n
  BY EchoAddresses
<1> QED
  BY <1>1, EchoAddresses DEF wrapping_add

\* An instruction that sets register d and goes on.
LEMMA RegisterSet ==
    ASSUME TypeOK, NEW d \in 1 .. 31, NEW val, Sets(d, val)
    PROVE  /\ x'[d] = val
           /\ \A r \in 0 .. 31 \ {d} : x'[r] = x[r]
BY DEF Sets, TypeOK, CpuTypeOK

\* Register d has been set to val, and the n-th instruction was executed.
SetTo(n, d, val) ==
    /\ x'[d] = val /\ \A r \in 0 .. 31 \ {d} : x'[r] = x[r]
    /\ pc' = 4 * n
    /\ UNCHANGED <<pages, result, io>>

\* An addi of the program whose sum is an address sets its register to that sum.
LEMMA AddiExecuted ==
    ASSUME NEW n, n \in 1 .. 22, NEW k, NEW d, NEW a, NEW imm, AddiOperands(d, a, imm),
           Executes(n, k), Program[n] = addi(d, a, imm),
           NEW val, val \in 0 .. StackTop, val = read_reg(a) + imm
    PROVE  SetTo(n, d, val)
<1>1. EchoLoaded /\ TypeOK /\ Step(addi(d, a, imm)) /\ pc = 4 * (n - 1)
  BY DEF Executes, EchoAt
<1>2. Sets(d, (read_reg(a) + imm) % WordSize)
  BY <1>1, AddiSets, Zenon DEF AddiSet
<1>3. (read_reg(a) + imm) % WordSize = val
  BY <1>1, EchoAddresses
<1>4. Sets(d, val)
  BY <1>2, <1>3, Zenon
<1>5. x'[d] = val /\ \A r \in 0 .. 31 \ {d} : x'[r] = x[r]
  BY <1>1, <1>4, RegisterSet DEF AddiOperands
<1> QED
  BY <1>1, <1>4, <1>5, NextWordAddress DEF Sets, SetTo

\* So does an add.
LEMMA AddExecuted ==
    ASSUME NEW n, n \in 1 .. 22, NEW k, NEW d, d \in 1 .. 31,
           NEW a, a \in 1 .. 31, NEW b, b \in 1 .. 31,
           Executes(n, k), Program[n] = add(d, a, b),
           NEW val, val \in 0 .. StackTop, val = x[a] + x[b]
    PROVE  SetTo(n, d, val)
<1>1. EchoLoaded /\ TypeOK /\ Step(add(d, a, b)) /\ pc = 4 * (n - 1)
  BY DEF Executes, EchoAt
<1>2. wrapping_add(read_reg(a), read_reg(b)) = val
  BY <1>1, EchoAddresses DEF wrapping_add, read_reg
<1>3. Sets(d, val)
  <2>1. Sets(d, wrapping_add(read_reg(a), read_reg(b)))
    BY <1>1, AddSets, Zenon DEF AddSet
  <2> QED
    BY <1>2, <2>1, Zenon
<1>4. x'[d] = val /\ \A r \in 0 .. 31 \ {d} : x'[r] = x[r]
  BY <1>1, <1>3, RegisterSet
<1> QED
  BY <1>1, <1>3, <1>4, NextWordAddress DEF Sets, SetTo

\* A word has been written to the stack at address a.
WordWritten(n, a, data) ==
    /\ Writes(pages, pages', a, data)
    /\ ProgramIn(pages')
    /\ pc' = 4 * n
    /\ UNCHANGED <<x, result>>

\* A store of the program to the stack leaves the program as it is.
LEMMA StoreExecuted ==
    ASSUME NEW n, n \in 1 .. 22, NEW k, NEW b, b \in 0 .. 31, NEW a, a \in 0 .. 31,
           NEW imm, imm \in 0 .. 31,
           Executes(n, k), Program[n] = sw(b, imm, a),
           NEW addr, addr \in Int, addr = read_reg(a) + imm, Buf <= addr, addr + 4 <= StackTop
    PROVE  (\E data : WordWritten(n, addr, data)) /\ UNCHANGED io
<1>1. /\ EchoLoaded /\ TypeOK /\ Step(sw(b, imm, a)) /\ pc = 4 * (n - 1)
      /\ ProgramIn(pages) /\ pages \in PageTable
  BY DEF Executes, EchoAt, TypeOK, CpuTypeOK
<1>2. addr \in Word /\ addr % WordSize = addr
  <2>1. addr \in 0 .. StackTop
    BY <1>1, EchoAddresses DEF Buf
  <2> QED
    BY <1>1, <2>1, EchoAddresses
<1>3. read_reg(b) \in Int
  BY <1>1, Registers, Words
<1>4. pages' = write_u32(pages, addr, read_reg(b)) /\ pc' = wrapping_add(pc, 4)
      /\ UNCHANGED <<x, result, io>>
  <2>1. Stores(a, imm, b)
    BY <1>1, StoreWrites, Zenon
  <2> QED
    BY <1>2, <2>1 DEF Stores
<1> DEFINE data == to_le_bytes(read_reg(b))
<1>5. Len(data) = 4 /\ Writes(pages, pages', addr, data)
  BY <1>1, <1>2, <1>3, <1>4, WriteWord, BytesTyped
<1> HIDE DEF data
<1>6. ProgramIn(pages')
  BY <1>1, <1>5, ProgramKept
<1> QED
  BY <1>1, <1>4, <1>5, <1>6, NextWordAddress DEF WordWritten

\* So does a hint_storew, which takes a word from the hint stream.
LEMMA StorewExecuted ==
    ASSUME NEW n \in 1 .. 22, NEW k, Executes(n, k), Program[n] = hint_storew(10),
           x[10] \in Int, Buf <= x[10], x[10] + 4 <= StackTop
    PROVE  /\ WordWritten(n, x[10], read_hint_bytes(io, 4))
           /\ io' = after_read_hint(io, 4) /\ io'.output = io.output
           /\ io \in IoStateType
<1>1. /\ EchoLoaded /\ TypeOK /\ Step(hint_storew(10)) /\ pc = 4 * (n - 1)
      /\ ProgramIn(pages) /\ pages \in PageTable /\ io \in IoStateType
  BY DEF Executes, EchoAt, TypeOK, CpuTypeOK
<1>2. x[10] \in Word
  <2>1. x[10] \in 0 .. StackTop
    BY <1>1, EchoAddresses DEF Buf
  <2> QED
    BY <1>1, <2>1, EchoAddresses
<1>3. read_reg(10) = x[10]
  BY DEF read_reg
<1>4. /\ pages' = write_slice(pages, x[10], read_hint_bytes(io, 4))
      /\ io' = after_read_hint(io, 4) /\ pc' = wrapping_add(pc, 4) /\ UNCHANGED <<x, result>>
  BY <1>1, <1>3, HintStorewTakes
<1>5. Len(read_hint_bytes(io, 4)) = 4 /\ after_read_hint(io, 4).output = io.output
  BY <1>1, WordTaken
<1>6. Writes(pages, pages', x[10], read_hint_bytes(io, 4))
  <2>1. 4 \in Nat /\ 4 <= WordSize
    BY <1>1, EchoAddresses
  <2> QED
    BY <1>1, <1>2, <1>4, <1>5, <2>1, WriteSliceWrites
<1>7. ProgramIn(pages')
  BY <1>1, <1>5, <1>6, ProgramKept
<1> QED
  BY <1>1, <1>4, <1>5, <1>6, <1>7, NextWordAddress DEF WordWritten

\* sp = _stack_top.
LEMMA Step01 == ASSUME NEW k, Executes(1, k) PROVE Reaches(2, 0)
<1>1. SetTo(1, 2, StackTop)
  <2>1. EchoLoaded /\ read_reg(0) = 0 /\ Program[1] = addi(2, 0, StackTop)
    BY ProgramWords DEF Executes, read_reg
  <2>2. /\ 1 \in 1 .. 22 /\ AddiOperands(2, 0, StackTop)
        /\ StackTop \in 0 .. StackTop /\ StackTop = read_reg(0) + StackTop
    BY <2>1, EchoAddresses DEF AddiOperands
  <2> QED
    BY <2>1, <2>2, AddiExecuted, Zenon
<1> QED
  BY <1>1, SMTT(60) DEF Reaches, Executes, EchoAt, SetTo

\* The input becomes the hint stream: its length in a word, then its bytes.
LEMMA Step02 == ASSUME NEW k, Executes(2, k) PROVE Reaches(3, 0)
<1>1. /\ EchoLoaded /\ pc = 4 /\ Step(guest_hint_input) /\ input_bytes \in Seq(Byte)
      /\ io = with_input_streams(<< input_bytes >>) /\ io.output = <<>>
  BY ProgramWords DEF Executes, EchoAt
<1>2. io' = hint_input(io) /\ pc' = wrapping_add(pc, 4) /\ UNCHANGED <<x, pages, result>>
  BY <1>1, HintInputTakes
<1>3. pc' = 8
  BY <1>1, <1>2, NextWordAddress
<1>4. io'.hint_stream = framed(input_bytes) /\ io'.output = <<>>
  BY <1>1, <1>2 DEF hint_input, with_input_streams
<1>5. ComesNext(io'.hint_stream, 4, 0, EchoOf(input_bytes))
  BY <1>1, <1>4, FrameComesNext
<1> QED
  BY <1>2, <1>3, <1>4, <1>5 DEF Reaches, Executes, EchoAt

\* The address of len_word.
LEMMA Step03 == ASSUME NEW k, Executes(3, k) PROVE Reaches(4, 0)
<1>1. SetTo(3, 10, StackTop - 4)
  <2>1. EchoLoaded /\ read_reg(2) = StackTop /\ Program[3] = addi(10, 2, -4)
    BY ProgramWords DEF Executes, EchoAt, read_reg
  <2>2. /\ 3 \in 1 .. 22 /\ AddiOperands(10, 2, -4)
        /\ StackTop - 4 \in 0 .. StackTop /\ StackTop - 4 = read_reg(2) + -4
    BY <2>1, EchoAddresses DEF AddiOperands
  <2> QED
    BY <2>1, <2>2, AddiExecuted, Zenon
<1> QED
  BY <1>1, SMTT(60) DEF Reaches, Executes, EchoAt, SetTo

\* len_word = 0.
LEMMA Step04 == ASSUME NEW k, Executes(4, k) PROVE Reaches(5, 0)
<1>1. (\E data : WordWritten(4, StackTop - 4, data)) /\ UNCHANGED io
  <2>1. EchoLoaded /\ read_reg(10) = StackTop - 4 /\ Program[4] = sw(0, 0, 10)
    BY ProgramWords DEF Executes, EchoAt, read_reg
  <2> QED
    BY <2>1, EchoAddresses, StoreExecuted DEF Buf
<1> QED
  BY <1>1 DEF Reaches, Executes, EchoAt, WordWritten

\* The length goes to len_word; the bytes of the echo come next.
LEMMA Step05 == ASSUME NEW k, Executes(5, k) PROVE Reaches(6, 0)
<1>1. /\ WordWritten(5, x[10], read_hint_bytes(io, 4))
      /\ io' = after_read_hint(io, 4) /\ io'.output = io.output /\ io \in IoStateType
  <2>1. EchoLoaded /\ x[10] = StackTop - 4 /\ Program[5] = hint_storew(10)
    BY ProgramWords DEF Executes, EchoAt
  <2> QED
    BY <2>1, EchoAddresses, StorewExecuted DEF Buf
<1>2. ComesNext(io'.hint_stream, 0, 0, EchoOf(input_bytes))
  <2>1. ComesNext(io.hint_stream, 4, 0, EchoOf(input_bytes))
    BY DEF Executes, EchoAt
  <2> QED
    BY <1>1, <2>1, NextWord
<1> QED
  BY <1>1, <1>2, SMTT(60) DEF Reaches, Executes, EchoAt, WordWritten

\* Room for buf, below which nothing is written.
LEMMA Step06 == ASSUME NEW k \in 0 .. 4, Executes(6, k) PROVE Reaches(7, 0)
<1>1. SetTo(6, 2, Buf)
  <2>1. EchoLoaded /\ read_reg(2) = StackTop /\ Program[6] = addi(2, 2, -20)
    BY ProgramWords DEF Executes, EchoAt, read_reg
  <2>2. /\ 6 \in 1 .. 22 /\ AddiOperands(2, 2, -20)
        /\ Buf \in 0 .. StackTop /\ Buf = read_reg(2) + -20
    BY <2>1, EchoAddresses DEF AddiOperands, Buf
  <2> QED
    BY <2>1, <2>2, AddiExecuted, Zenon
<1> QED
  BY <1>1, SMTT(60) DEF Reaches, Executes, EchoAt, SetTo

\* buf = [0; 4].
LEMMA Steps07to10 ==
    ASSUME NEW n, n \in 7 .. 10, NEW k \in 0 .. 4, Executes(n, k)
    PROVE  Reaches(n + 1, 0)
<1> DEFINE off == 4 * (n - 7)
<1>1. off \in 0 .. 12 /\ n \in 1 .. 22
  OBVIOUS
<1>2. (\E data : WordWritten(n, Buf + off, data)) /\ UNCHANGED io
  <2>1. EchoLoaded /\ read_reg(2) = Buf
    BY DEF Executes, EchoAt, read_reg
  <2>2. Program[n] = sw(0, off, 2)
    <3>1. \/ n = 7 /\ off = 0
          \/ n = 8 /\ off = 4
          \/ n = 9 /\ off = 8
          \/ n = 10 /\ off = 12
      OBVIOUS
    <3> QED
      BY <3>1, ProgramWords, Zenon
  <2> HIDE DEF off
  <2>3. /\ 0 \in 0 .. 31 /\ 2 \in 0 .. 31 /\ off \in 0 .. 31
        /\ Buf + off \in Int /\ Buf + off = read_reg(2) + off
        /\ Buf <= Buf + off /\ Buf + off + 4 <= StackTop
    BY <1>1, <2>1, EchoAddresses DEF Buf
  <2> QED
    BY <1>1, <2>1, <2>2, <2>3, StoreExecuted, Zenon
<1> HIDE DEF off
<1>3. /\ k = 0 /\ x[2] = Buf /\ io.output = <<>> /\ input_bytes' = input_bytes
      /\ ComesNext(io.hint_stream, 0, 4 * 0, EchoOf(input_bytes))
  BY SMTT(60) DEF Executes, EchoAt
<1>4. EchoAt(n + 1, 0)'
  <2>1. n + 1 \in 8 .. 11
    OBVIOUS
  <2>2. pc' = 4 * ((n + 1) - 1) /\ ProgramIn(pages') /\ UNCHANGED <<x, io>>
    BY <1>2 DEF WordWritten
  <2> QED
    BY <1>3, <2>1, <2>2, SMTT(60) DEF EchoAt
<1> QED
  BY <1>2, <1>4 DEF Reaches, WordWritten

\* The loop that fills buf starts at 0.
LEMMA Step11 == ASSUME NEW k \in 0 .. 4, Executes(11, k) PROVE Reaches(12, 0)
<1>1. SetTo(11, 5, 0)
  <2>1. EchoLoaded /\ read_reg(0) = 0 /\ Program[11] = addi(5, 0, 0)
    BY ProgramWords DEF Executes, EchoAt, read_reg
  <2>2. /\ 11 \in 1 .. 22 /\ AddiOperands(5, 0, 0)
        /\ 0 \in 0 .. StackTop /\ 0 = read_reg(0) + 0
    BY <2>1, EchoAddresses DEF AddiOperands, Buf
  <2> QED
    BY <2>1, <2>2, AddiExecuted, Zenon
<1> QED
  BY <1>1, SMTT(60) DEF Reaches, Executes, EchoAt, SetTo

\* It ends at 16.
LEMMA Step12 == ASSUME NEW k \in 0 .. 4, Executes(12, k) PROVE Reaches(13, 0)
<1>1. SetTo(12, 6, 16)
  <2>1. EchoLoaded /\ read_reg(0) = 0 /\ Program[12] = addi(6, 0, 16)
    BY ProgramWords DEF Executes, EchoAt, read_reg
  <2>2. /\ 12 \in 1 .. 22 /\ AddiOperands(6, 0, 16)
        /\ 16 \in 0 .. StackTop /\ 16 = read_reg(0) + 16
    BY <2>1, EchoAddresses DEF AddiOperands, Buf
  <2> QED
    BY <2>1, <2>2, AddiExecuted, Zenon
<1> QED
  BY <1>1, SMTT(60) DEF Reaches, Executes, EchoAt, SetTo, BufferHas

\* The address of the next word of buf.
LEMMA Step13 == ASSUME NEW k \in 0 .. 4, Executes(13, k) PROVE Reaches(14, k)
<1>1. SetTo(13, 10, Buf + 4 * k)
  <2>1. EchoLoaded /\ x[2] = Buf /\ x[5] = 4 * k /\ k <= 3 /\ Program[13] = add(10, 2, 5)
    BY ProgramWords DEF Executes, EchoAt
  <2>2. /\ 13 \in 1 .. 22 /\ 10 \in 1 .. 31 /\ 2 \in 1 .. 31 /\ 5 \in 1 .. 31
        /\ Buf + 4 * k \in 0 .. StackTop /\ Buf + 4 * k = x[2] + x[5]
    BY <2>1, EchoAddresses DEF Buf
  <2> QED
    BY <2>1, <2>2, AddExecuted, Zenon
<1> QED
  BY <1>1, SMTT(60) DEF Reaches, Executes, EchoAt, SetTo

\* That word gets the next four bytes of the echo.
LEMMA Step14 == ASSUME NEW k \in 0 .. 4, Executes(14, k) PROVE Reaches(15, k + 1)
<1> DEFINE echo == EchoOf(input_bytes)
           bytes == read_hint_bytes(io, 4)
<1>1. /\ EchoLoaded /\ k \in 0 .. 3 /\ x[10] = Buf + 4 * k /\ Program[14] = hint_storew(10)
      /\ ComesNext(io.hint_stream, 0, 4 * k, echo) /\ BufferHas(pages, 4 * k, echo)
  BY ProgramWords DEF Executes, EchoAt
<1>2. /\ WordWritten(14, x[10], bytes)
      /\ io' = after_read_hint(io, 4) /\ io'.output = io.output /\ io \in IoStateType
  <2>1. /\ 14 \in 1 .. 22 /\ x[10] \in Int /\ Buf <= x[10] /\ x[10] + 4 <= StackTop
    BY <1>1, EchoAddresses DEF Buf
  <2> QED
    BY <1>1, <2>1, StorewExecuted
<1>3. ComesNext(io'.hint_stream, 0, 4 * (k + 1), echo)
  BY <1>1, <1>2, NextWord
<1>4. BufferHas(pages', 4 * (k + 1), echo)
  <2>1. Len(bytes) = 4 /\ \A i \in 1 .. 4 : bytes[i] = Upcoming(io.hint_stream, i)
    BY <1>2, WordTaken
  <2>2. Writes(pages, pages', Buf + 4 * k, bytes)
    BY <1>1, <1>2 DEF WordWritten
  <2> QED
    BY <1>1, <2>1, <2>2, BufferGrows
<1> QED
  BY <1>1, <1>2, <1>3, <1>4, SMTT(60) DEF Reaches, Executes, EchoAt, WordWritten

\* The next word.
LEMMA Step15 == ASSUME NEW k \in 0 .. 4, Executes(15, k) PROVE Reaches(16, k)
<1>1. SetTo(15, 5, 4 * k)
  <2>1. EchoLoaded /\ read_reg(5) = 4 * k - 4 /\ Program[15] = addi(5, 5, 4)
    BY ProgramWords DEF Executes, EchoAt, read_reg
  <2>2. /\ 15 \in 1 .. 22 /\ AddiOperands(5, 5, 4)
        /\ 4 * k \in 0 .. StackTop /\ 4 * k = read_reg(5) + 4
    BY <2>1, EchoAddresses DEF AddiOperands, Buf
  <2> QED
    BY <2>1, <2>2, AddiExecuted, Zenon
<1> QED
  BY <1>1, SMTT(60) DEF Reaches, Executes, EchoAt, SetTo

\* The loop goes on until buf is full.
LEMMA Step16 ==
    ASSUME NEW k \in 0 .. 4, Executes(16, k) PROVE Reaches(13, k) \/ Reaches(17, 4)
<1>1. /\ EchoLoaded /\ pc = 60 /\ x[5] = 4 * k /\ x[6] = 16 /\ k >= 1
      /\ Step(bne_back(5, 6, 3))
  BY ProgramWords DEF Executes, EchoAt
<1>2. /\ pc' = wrapping_add(pc, IF read_reg(5) # read_reg(6) THEN (-4 * 3) % WordSize ELSE 4)
      /\ UNCHANGED <<x, pages, result, io>>
  <2>1. 3 \in 1 .. 7
    OBVIOUS
  <2>2. Branches(5, 6, 3)
    BY <1>1, <2>1, BranchGoes, Zenon
  <2> QED
    BY <2>2, Zenon DEF Branches
<1>3. read_reg(5) = 4 * k /\ read_reg(6) = 16
  BY <1>1 DEF read_reg
<1>4. CASE k = 4
  <2>1. pc' = 64
    BY <1>1, <1>2, <1>3, <1>4, NextWordAddress
  <2> QED
    BY <1>2, <1>4, <2>1, SMTT(60) DEF Reaches, Executes, EchoAt
<1>5. CASE k # 4
  <2>1. pc' = wrapping_add(60, (-4 * 3) % WordSize)
    BY <1>1, <1>2, <1>3, <1>5
  <2>2. wrapping_add(60, (-4 * 3) % WordSize) = 48
    BY <1>1, EchoAddresses DEF wrapping_add
  <2> QED
    BY <1>2, <1>5, <2>1, <2>2, SMTT(60) DEF Reaches, Executes, EchoAt
<1> QED
  BY <1>4, <1>5

\* The loop that reveals buf starts at 0.
LEMMA Step17 == ASSUME NEW k \in 0 .. 4, Executes(17, k) PROVE Reaches(18, 0)
<1>1. SetTo(17, 5, 0)
  <2>1. EchoLoaded /\ read_reg(0) = 0 /\ Program[17] = addi(5, 0, 0)
    BY ProgramWords DEF Executes, EchoAt, read_reg
  <2>2. /\ 17 \in 1 .. 22 /\ AddiOperands(5, 0, 0)
        /\ 0 \in 0 .. StackTop /\ 0 = read_reg(0) + 0
    BY <2>1, EchoAddresses DEF AddiOperands, Buf
  <2> QED
    BY <2>1, <2>2, AddiExecuted, Zenon
<1> QED
  BY <1>1, SMTT(60) DEF Reaches, Executes, EchoAt, SetTo

\* The address of the next word of buf.
LEMMA Step18 == ASSUME NEW k \in 0 .. 4, Executes(18, k) PROVE Reaches(19, k)
<1>1. SetTo(18, 10, Buf + 4 * k)
  <2>1. EchoLoaded /\ x[2] = Buf /\ x[5] = 4 * k /\ k <= 3 /\ Program[18] = add(10, 2, 5)
    BY ProgramWords DEF Executes, EchoAt
  <2>2. /\ 18 \in 1 .. 22 /\ 10 \in 1 .. 31 /\ 2 \in 1 .. 31 /\ 5 \in 1 .. 31
        /\ Buf + 4 * k \in 0 .. StackTop /\ Buf + 4 * k = x[2] + x[5]
    BY <2>1, EchoAddresses DEF Buf
  <2> QED
    BY <2>1, <2>2, AddExecuted, Zenon
<1>2. /\ k <= 3 /\ x[2] = Buf /\ x[5] = 4 * k /\ x[6] = 16 /\ ProgramIn(pages)
      /\ BufferHas(pages, 16, EchoOf(input_bytes)) /\ input_bytes' = input_bytes
      /\ io.output = [i \in 1 .. 4 * k |-> EchoOf(input_bytes)[i]]
  BY SMTT(60) DEF Executes, EchoAt
<1>3. EchoAt(19, k)'
  <2>1. /\ pc' = 4 * (19 - 1) /\ UNCHANGED <<pages, io>> /\ x'[10] = Buf + 4 * k
        /\ x'[2] = x[2] /\ x'[5] = x[5] /\ x'[6] = x[6]
    BY <1>1 DEF SetTo
  <2> QED
    BY <1>2, <2>1, SMTT(60) DEF EchoAt
<1> QED
  BY <1>1, <1>3 DEF Reaches, SetTo

\* The word that is read there is the next one of the echo.
LEMMA Step19 == ASSUME NEW k \in 0 .. 4, Executes(19, k) PROVE Reaches(20, k)
<1> DEFINE echo == EchoOf(input_bytes)
           word == read_u32(pages, Buf + 4 * k)
<1>1. /\ EchoLoaded /\ TypeOK /\ k \in 0 .. 3 /\ pc = 72 /\ x[10] = Buf + 4 * k
      /\ Step(lw(11, 0, 10)) /\ BufferHas(pages, 16, echo)
      /\ pages \in PageTable /\ echo \in [1 .. 16 -> Byte]
  <2>1. /\ EchoLoaded /\ TypeOK /\ k \in 0 .. 3 /\ pc = 72 /\ x[10] = Buf + 4 * k
        /\ BufferHas(pages, 16, echo) /\ input_bytes \in Seq(Byte)
    BY DEF Executes, EchoAt
  <2>2. Step(lw(11, 0, 10))
    BY ProgramWords, Zenon DEF Executes
  <2>3. pages \in PageTable
    BY <2>1 DEF TypeOK, CpuTypeOK
  <2>4. echo \in [1 .. 16 -> Byte]
    BY <2>1, EchoTyped
  <2> QED
    BY <2>1, <2>2, <2>3, <2>4, Zenon
<1> HIDE DEF echo
<1>2. Sets(11, word)
  BY <1>1, LoadSets DEF read_reg
<1>3. SetTo(19, 11, word)
  <2>1. x'[11] = word /\ \A r \in 0 .. 31 \ {11} : x'[r] = x[r]
    BY <1>1, <1>2, RegisterSet
  <2> QED
    BY <1>1, <1>2, <2>1, NextWordAddress DEF Sets, SetTo
<1>4. Spells(word, k, echo)
  BY <1>1, BufferWord DEF Spells
<1> QED
  BY <1>1, <1>3, <1>4, SMTT(60) DEF Reaches, Executes, EchoAt, SetTo, echo

\* It becomes the next word of the output.
LEMMA Step20 == ASSUME NEW k \in 0 .. 4, Executes(20, k) PROVE Reaches(21, k + 1)
<1> DEFINE echo == EchoOf(input_bytes)
           bytes == to_le_bytes(x[11])
<1>1. /\ EchoLoaded /\ TypeOK /\ k \in 0 .. 3 /\ pc = 76 /\ x[5] = 4 * k /\ x[11] \in Int
      /\ Step(reveal(5, 11)) /\ Spells(x[11], k, echo) /\ io \in IoStateType
      /\ io.output = [i \in 1 .. 4 * k |-> echo[i]]
  <2>1. /\ EchoLoaded /\ TypeOK /\ k \in 0 .. 3 /\ pc = 76 /\ x[5] = 4 * k
        /\ Spells(x[11], k, echo) /\ io.output = [i \in 1 .. 4 * k |-> echo[i]]
    BY DEF Executes, EchoAt
  <2>2. Step(reveal(5, 11))
    BY ProgramWords, Zenon DEF Executes
  <2>3. x[11] \in Int /\ io \in IoStateType
    BY <2>1, Words DEF TypeOK, CpuTypeOK
  <2> QED
    BY <2>1, <2>2, <2>3, Zenon
<1> HIDE DEF echo, bytes
<1>2. io' = write_output(io, 4 * k, bytes) /\ pc' = wrapping_add(pc, 4)
      /\ UNCHANGED <<x, pages, result>>
  <2>1. /\ io' = write_output(io, read_reg(5), to_le_bytes(read_reg(11)))
        /\ pc' = wrapping_add(pc, 4) /\ UNCHANGED <<x, pages, result>>
    BY <1>1, RevealWrites
  <2>2. read_reg(5) = 4 * k /\ read_reg(11) = x[11]
    BY <1>1 DEF read_reg
  <2> QED
    BY <2>1, <2>2, Zenon DEF bytes
<1>3. pc' = 80
  BY <1>1, <1>2, NextWordAddress
<1>4. io'.output = [i \in 1 .. 4 * (k + 1) |-> echo[i]]
  <2>1. Len(bytes) = 4 /\ \A i \in 1 .. 4 : bytes[i] = echo[4 * k + i]
    BY <1>1, BytesTyped DEF Spells, bytes
  <2> QED
    <3>1. EchoRevealed(io.output, k, echo)
      BY <1>1, Zenon DEF EchoRevealed
    <3>2. EchoRevealed(write_output(io, 4 * k, bytes).output, k + 1, echo)
      BY <1>1, <2>1, <3>1, OutputGrowsByWord, Zenon
    <3> QED
      BY <1>2, <3>2, Zenon DEF EchoRevealed
<1> QED
  BY <1>1, <1>2, <1>3, <1>4, SMTT(60) DEF Reaches, Executes, EchoAt, echo

\* The next word.
LEMMA Step21 == ASSUME NEW k \in 0 .. 4, Executes(21, k) PROVE Reaches(22, k)
<1>1. SetTo(21, 5, 4 * k)
  <2>1. EchoLoaded /\ read_reg(5) = 4 * k - 4 /\ Program[21] = addi(5, 5, 4)
    BY ProgramWords DEF Executes, EchoAt, read_reg
  <2>2. /\ 21 \in 1 .. 22 /\ AddiOperands(5, 5, 4)
        /\ 4 * k \in 0 .. StackTop /\ 4 * k = read_reg(5) + 4
    BY <2>1, EchoAddresses DEF AddiOperands, Buf
  <2> QED
    BY <2>1, <2>2, AddiExecuted, Zenon
<1> QED
  BY <1>1, SMTT(60) DEF Reaches, Executes, EchoAt, SetTo

\* The loop goes on until all of buf is revealed.
LEMMA Step22 ==
    ASSUME NEW k \in 0 .. 4, Executes(22, k) PROVE Reaches(18, k) \/ Reaches(23, 4)
<1>1. /\ EchoLoaded /\ pc = 84 /\ x[5] = 4 * k /\ x[6] = 16 /\ k >= 1
      /\ Step(bne_back(5, 6, 4))
  BY ProgramWords DEF Executes, EchoAt
<1>2. /\ pc' = wrapping_add(pc, IF read_reg(5) # read_reg(6) THEN (-4 * 4) % WordSize ELSE 4)
      /\ UNCHANGED <<x, pages, result, io>>
  <2>1. 4 \in 1 .. 7
    OBVIOUS
  <2>2. Branches(5, 6, 4)
    BY <1>1, <2>1, BranchGoes, Zenon
  <2> QED
    BY <2>2, Zenon DEF Branches
<1>3. read_reg(5) = 4 * k /\ read_reg(6) = 16
  BY <1>1 DEF read_reg
<1>4. CASE k = 4
  <2>1. pc' = 88
    BY <1>1, <1>2, <1>3, <1>4, NextWordAddress
  <2> QED
    BY <1>2, <1>4, <2>1, SMTT(60) DEF Reaches, Executes, EchoAt
<1>5. CASE k # 4
  <2>1. pc' = wrapping_add(84, (-4 * 4) % WordSize)
    BY <1>1, <1>2, <1>3, <1>5
  <2>2. wrapping_add(84, (-4 * 4) % WordSize) = 68
    BY <1>1, EchoAddresses DEF wrapping_add
  <2> QED
    BY <1>2, <1>5, <2>1, <2>2, SMTT(60) DEF Reaches, Executes, EchoAt
<1> QED
  BY <1>4, <1>5

\* The guest terminates, with all of the echo in the output.
LEMMA Step23 ==
    ASSUME NEW k \in 0 .. 4, Executes(23, k)
    PROVE  EchoAt(23, 4)' /\ result'.kind = "ok"
<1>1. Step(terminate)
  BY ProgramWords DEF Executes
<1>2. result'.kind = "ok" /\ UNCHANGED <<pc, x, pages, io>>
  BY <1>1, TerminateEnds
<1> QED
  BY <1>2, SMTT(60) DEF Executes, EchoAt

-----------------------------------------------------------------------------
\* The lines of a text.
Lesser(a, b) == IF a < b THEN a ELSE b
Line(s, m) == SubSeq(s, Chunk * (m - 1) + 1, Lesser(Chunk * m, Len(s)))

\* The lines are the first ones of s, none of them empty.
AreLines(lines, s) ==
    /\ lines = [m \in 1 .. Len(lines) |-> Line(s, m)]
    /\ \A m \in 1 .. Len(lines) : Chunk * (m - 1) < Len(s)

\* Two parts of a text, one after the other.
LEMMA AdjacentParts ==
    ASSUME NEW s \in Seq(Byte), NEW a \in Nat, NEW b \in Nat, a <= b, b <= Len(s)
    PROVE  SubSeq(s, 1, a) \o SubSeq(s, a + 1, b) = SubSeq(s, 1, b)
<1> DEFINE u == SubSeq(s, 1, a)
           v == SubSeq(s, a + 1, b)
           t == SubSeq(s, 1, b)
<1>1. u \in Seq(Byte) /\ Len(u) = a /\ \A i \in 1 .. a : u[i] = s[i]
  OBVIOUS
<1>2. v \in Seq(Byte) /\ Len(v) = b - a /\ \A i \in 1 .. b - a : v[i] = s[a + i]
  OBVIOUS
<1>3. t \in Seq(Byte) /\ Len(t) = b /\ \A i \in 1 .. b : t[i] = s[i]
  OBVIOUS
<1> HIDE DEF u, v, t
<1>4. /\ u \o v \in Seq(Byte) /\ Len(u \o v) = b
      /\ \A i \in 1 .. b : (u \o v)[i] = IF i <= a THEN u[i] ELSE v[i - a]
  <2>1. /\ u \o v \in Seq(Byte) /\ Len(u \o v) = Len(u) + Len(v)
        /\ \A i \in 1 .. Len(u) + Len(v) :
              (u \o v)[i] = IF i <= Len(u) THEN u[i] ELSE v[i - Len(u)]
    BY <1>1, <1>2, ConcatProperties, ZenonT(40)
  <2>2. Len(u) = a /\ Len(u) + Len(v) = b
    BY <1>1, <1>2
  <2> QED
    BY <2>1, <2>2, Zenon
<1> DEFINE cat == u \o v
<1>5. cat \in Seq(Byte) /\ Len(cat) = b
  BY <1>4
<1>6. \A i \in 1 .. b : cat[i] = IF i <= a THEN u[i] ELSE v[i - a]
  BY <1>4, Zenon
<1> HIDE DEF cat
<1>7. \A i \in 1 .. b : cat[i] = t[i]
  <2> SUFFICES ASSUME NEW i \in 1 .. b PROVE cat[i] = t[i]
    OBVIOUS
  <2>1. CASE i <= a
    <3>1. i \in 1 .. a
      BY <2>1
    <3> QED
      BY <1>1, <1>3, <1>6, <2>1, <3>1
  <2>2. CASE i > a
    <3>1. i - a \in 1 .. b - a /\ a + (i - a) = i
      BY <2>2
    <3> QED
      BY <1>2, <1>3, <1>6, <2>2, <3>1
  <2> QED
    BY <2>1, <2>2
<1>8. cat = t
  BY <1>3, <1>5, <1>7
<1> QED
  BY <1>8 DEF cat, u, v, t

\* Lines put together.
Flat(seqs) ==
    CHOOSE flatten : flatten = [i \in 1 .. Len(seqs) |->
                                  IF i = 1 THEN seqs[i] ELSE flatten[i - 1] \o seqs[i]]

\* The lines that were cut from a text make up the part of it that they cover.
LEMMA LinesMakeText ==
    ASSUME NEW s \in Seq(Byte), NEW lines, Len(lines) \in Nat \ {0}, AreLines(lines, s)
    PROVE  FlattenSeq(lines) = SubSeq(s, 1, Lesser(Chunk * Len(lines), Len(s)))
<1> DEFINE n == Len(lines)
           End(i) == Lesser(Chunk * i, Len(s))
           w == [i \in 1 .. n |-> SubSeq(s, 1, End(i))]
           f == Flat(lines)
<1>0. /\ n \in Nat \ {0} /\ Len(s) \in Nat /\ Chunk \in Nat \ {0}
      /\ \A i \in 1 .. n : End(i) \in Nat
  BY RunnerAssumption DEF Lesser
<1>1. \A i \in 1 .. n : lines[i] = Line(s, i)
  BY DEF AreLines
<1>2. \A i \in 2 .. n : w[i - 1] \o lines[i] = w[i]
  <2> SUFFICES ASSUME NEW i \in 2 .. n PROVE w[i - 1] \o lines[i] = w[i]
    OBVIOUS
  <2> DEFINE a == Chunk * (i - 1)
  <2>1. a \in Nat /\ a < Len(s)
    BY <1>0 DEF AreLines
  <2>2. a <= End(i) /\ End(i) <= Len(s) /\ End(i) \in Nat
    <3>1. Chunk * i = a + Chunk
      BY <1>0
    <3> QED
      BY <1>0, <2>1, <3>1 DEF Lesser
  <2>3. End(i - 1) = a
    BY <2>1 DEF Lesser
  <2>4. lines[i] = SubSeq(s, a + 1, End(i))
    BY <1>1 DEF Line
  <2>5. i - 1 \in 1 .. n /\ i \in 1 .. n
    BY <1>0
  <2>6. w[i - 1] = SubSeq(s, 1, a) /\ w[i] = SubSeq(s, 1, End(i))
    BY <2>3, <2>5
  <2> HIDE DEF a, w, End
  <2> QED
    BY <2>1, <2>2, <2>4, <2>6, AdjacentParts
<1>3. w[1] = lines[1]
  <2>1. 1 \in 1 .. n /\ Chunk * (1 - 1) + 1 = 1
    BY <1>0
  <2>2. lines[1] = SubSeq(s, 1, End(1))
    BY <1>1, <2>1 DEF Line
  <2> HIDE DEF End
  <2> QED
    BY <2>1, <2>2
<1>4. w = [i \in 1 .. n |-> IF i = 1 THEN lines[i] ELSE w[i - 1] \o lines[i]]
  <2>1. \A i \in 1 .. n : w[i] = IF i = 1 THEN lines[i] ELSE w[i - 1] \o lines[i]
    <3>1. \A i \in 1 .. n : i = 1 \/ i \in 2 .. n
      BY <1>0
    <3> HIDE DEF w
    <3> QED
      BY <1>2, <1>3, <3>1
  <2>2. w = [i \in 1 .. n |-> w[i]]
    OBVIOUS
  <2> HIDE DEF w
  <2> QED
    BY <2>1, <2>2, Zenon
<1> HIDE DEF w
<1>5. f = [i \in 1 .. n |-> IF i = 1 THEN lines[i] ELSE f[i - 1] \o lines[i]]
  BY <1>4, Zenon DEF Flat
<1> HIDE DEF f
<1>6. \A i \in 1 .. n : f[i] = IF i = 1 THEN lines[i] ELSE f[i - 1] \o lines[i]
  BY <1>5, Zenon
<1>7. f[n] = w[n]
  <2> DEFINE S == { i \in 0 .. n : i = 0 \/ f[i] = w[i] }
  <2>1. 0 \in S
    BY <1>0
  <2>2. ASSUME NEW i \in 0 .. n - 1, i \in S
        PROVE  i + 1 \in S
    <3>1. i + 1 \in 1 .. n /\ (i + 1) - 1 = i /\ i + 1 \in 0 .. n
      BY <1>0
    <3>2. CASE i = 0
      BY <1>3, <1>6, <3>1, <3>2
    <3>3. CASE i # 0
      <4>1. i + 1 \in 2 .. n /\ i + 1 # 1 /\ f[i] = w[i]
        BY <1>0, <2>2, <3>3
      <4> QED
        BY <1>2, <1>6, <3>1, <4>1
    <3> QED
      BY <3>2, <3>3
  <2> HIDE DEF S
  <2>3. \A i \in 0 .. n : i \in S
    BY <1>0, <2>1, <2>2, Induction
  <2> QED
    BY <1>0, <2>3 DEF S
<1>8. FlattenSeq(lines) = f[n]
  <2>1. Len(lines) # 0
    OBVIOUS
  <2> QED
    BY <2>1, Zenon DEF FlattenSeq, Flat, f
<1>9. w[n] = SubSeq(s, 1, End(n))
  <2>1. n \in 1 .. n
    BY <1>0
  <2> QED
    BY <2>1, Zenon DEF w
<1> QED
  BY <1>7, <1>8, <1>9, Zenon

\* The guest is at one of its instructions, and has terminated at the last.
Echoing == \E n \in 1 .. 23, k \in 0 .. 4 : EchoAt(n, k) /\ (result.kind = "ok" => n = 23)

\* What is read is a sequence of bytes.
LEMMA InputTyped ==
    ASSUME args \in Arguments, args.input # "missing"
    PROVE  input_bytes \in Seq(Byte)
<1>1. args.input \in {"none", "-", "file"} /\ args.file \in Inputs
  BY DEF Arguments
<1>2. Stdin \in Seq(Byte) /\ \A f \in Inputs : f \in Seq(Byte)
  BY RunnerAssumption
<1> QED
  BY <1>1, <1>2 DEF input_bytes

\* Each instruction of the program leads to one of its instructions.
LEMMA EchoExecutes ==
    ASSUME NEW n \in 1 .. 23, NEW k \in 0 .. 4, Executes(n, k), Running
    PROVE  Echoing'
<1>1. ASSUME NEW m \in 1 .. 22, NEW j \in 0 .. 4, Reaches(m, j)
      PROVE  Echoing'
  <2>1. EchoAt(m, j)' /\ result'.kind # "ok" /\ m \in 1 .. 23
    BY <1>1 DEF Reaches, Running
  <2> QED
    BY <1>1, <2>1, Zenon DEF Echoing
<1>2. ASSUME Reaches(23, 4) PROVE Echoing'
  <2>1. EchoAt(23, 4)' /\ 23 \in 1 .. 23 /\ 4 \in 0 .. 4
    BY <1>2 DEF Reaches
  <2> QED
    BY <2>1, Zenon DEF Echoing
<1>3. \A j \in 0 .. 4 : Executes(14, j) \/ Executes(20, j) => j + 1 \in 0 .. 4
  BY DEF Executes, EchoAt
<1>4. 0 \in 0 .. 4 /\ 4 \in 0 .. 4 /\ \A m \in 2 .. 22 : m \in 1 .. 22
  OBVIOUS
<1>5. CASE n = 1
  <2>1. Reaches(2, 0)
    BY <1>5, Step01
  <2> QED
    BY <1>5, <1>1, <2>1
<1>6. CASE n = 2
  <2>1. Reaches(3, 0)
    BY <1>6, Step02
  <2> QED
    BY <1>6, <1>1, <2>1
<1>7. CASE n = 3
  <2>1. Reaches(4, 0)
    BY <1>7, Step03
  <2> QED
    BY <1>7, <1>1, <2>1
<1>8. CASE n = 4
  <2>1. Reaches(5, 0)
    BY <1>8, Step04
  <2> QED
    BY <1>8, <1>1, <2>1
<1>9. CASE n = 5
  <2>1. Reaches(6, 0)
    BY <1>9, Step05
  <2> QED
    BY <1>9, <1>1, <2>1
<1>10. CASE n = 6
  <2>1. Reaches(7, 0)
    BY <1>10, Step06
  <2> QED
    BY <1>10, <1>1, <2>1
<1>11. CASE n \in 7 .. 10
  <2>1. Reaches(n + 1, 0) /\ n + 1 \in 1 .. 22
    BY <1>11, Steps07to10
  <2> QED
    BY <1>1, <1>4, <2>1
<1>12. CASE n = 11
  <2>1. Reaches(12, 0)
    BY <1>12, Step11
  <2> QED
    BY <1>12, <1>1, <2>1
<1>13. CASE n = 12
  <2>1. Reaches(13, 0)
    BY <1>13, Step12
  <2> QED
    BY <1>13, <1>1, <2>1
<1>14. CASE n = 13
  <2>1. Reaches(14, k)
    BY <1>14, Step13
  <2> QED
    BY <1>14, <1>1, <2>1
<1>15. CASE n = 14
  <2>1. Reaches(15, k + 1)
    BY <1>15, Step14
  <2> QED
    BY <1>15, <1>1, <2>1, <1>3
<1>16. CASE n = 15
  <2>1. Reaches(16, k)
    BY <1>16, Step15
  <2> QED
    BY <1>16, <1>1, <2>1
<1>17. CASE n = 16
  <2>1. Reaches(13, k) \/ Reaches(17, 4)
    BY <1>17, Step16
  <2> QED
    BY <1>1, <1>4, <2>1
<1>18. CASE n = 17
  <2>1. Reaches(18, 0)
    BY <1>18, Step17
  <2> QED
    BY <1>18, <1>1, <2>1
<1>19. CASE n = 18
  <2>1. Reaches(19, k)
    BY <1>19, Step18
  <2> QED
    BY <1>19, <1>1, <2>1
<1>20. CASE n = 19
  <2>1. Reaches(20, k)
    BY <1>20, Step19
  <2> QED
    BY <1>20, <1>1, <2>1
<1>21. CASE n = 20
  <2>1. Reaches(21, k + 1)
    BY <1>21, Step20
  <2> QED
    BY <1>21, <1>1, <2>1, <1>3
<1>22. CASE n = 21
  <2>1. Reaches(22, k)
    BY <1>22, Step21
  <2> QED
    BY <1>22, <1>1, <2>1
<1>23. CASE n = 22
  <2>1. Reaches(18, k) \/ Reaches(23, 4)
    BY <1>23, Step22
  <2> QED
    BY <1>1, <1>2, <2>1
<1>24. CASE n = 23
  <2>1. EchoAt(23, 4)' /\ 23 \in 1 .. 23 /\ 4 \in 0 .. 4
    BY <1>24, Step23
  <2> QED
    BY <2>1, Zenon DEF Echoing
<1> QED
  BY <1>5, <1>6, <1>7, <1>8, <1>9, <1>10, <1>11, <1>12, <1>13, <1>14,
     <1>15, <1>16, <1>17, <1>18, <1>19, <1>20, <1>21, <1>22, <1>23, <1>24

\* Whatever ends the guest early leaves it where it was.
LEMMA EchoStopped ==
    ASSUME NEW n \in 1 .. 23, NEW k \in 0 .. 4, EchoAt(n, k), input_bytes' = input_bytes,
           result'.kind # "ok", UNCHANGED <<pc, x, pages, io>>
    PROVE  Echoing'
<1>1. EchoAt(n, k)'
  BY SMTT(60) DEF EchoAt
<1> QED
  BY <1>1, Zenon DEF Echoing

\* The guest goes from instruction to instruction, whether they succeed or not.
LEMMA EchoKept ==
    ASSUME EchoLoaded, TypeOK, TypeOK', args \in Arguments, args.input # "missing",
           UNCHANGED args, Echoing, Next
    PROVE  Echoing'
<1>1. PICK n \in 1 .. 23, k \in 0 .. 4 : EchoAt(n, k)
  BY DEF Echoing
<1>2. input_bytes \in Seq(Byte) /\ input_bytes' = input_bytes
  BY InputTyped DEF input_bytes
<1>3. CASE Run
  <2>1. pc = 4 * (n - 1) /\ ProgramIn(pages) /\ Running
    BY <1>1, <1>3 DEF EchoAt, Run, Step, Fetched
  <2>2. CASE Step(Program[n])
    <3>1. pages' \in PageTable /\ io' \in IoStateType /\ x' \in [0 .. 31 -> Word]
      BY DEF TypeOK, CpuTypeOK
    <3>2. Executes(n, k)
      BY <1>1, <1>2, <2>2, <3>1 DEF Executes
    <3> QED
      BY <2>1, <3>2, EchoExecutes
  <2>3. CASE Step(unimp)
    <3>1. result'.kind # "ok" /\ UNCHANGED <<pc, x, pages, io>>
      BY <2>3, UnimpEnds
    <3> QED
      BY <1>1, <1>2, <3>1, EchoStopped
  <2> QED
    BY <1>3, <2>1, <2>2, <2>3, EchoFetches
<1>4. CASE StepLimit /\ UNCHANGED io
  <2>1. result'.kind # "ok" /\ UNCHANGED <<pc, x, pages, io>>
    BY <1>4 DEF StepLimit, Return
  <2> QED
    BY <1>1, <1>2, <2>1, EchoStopped
<1> QED
  BY <1>3, <1>4 DEF Next

\* Before the guest starts it is as the loader left it.
Fresh   == pc = 0 /\ ProgramIn(pages) /\ Running
Started == args.cmd = "run" /\ args.elf = "good"

\* What the process has printed when it is not done.
PrintedSoFar ==
    IF stage = "print" /\ ~args.hex
    THEN Len(printed) \in Nat /\ AreLines(printed, io.output)
    ELSE printed = <<>>

\* What EchoPrinted says, of the standard input too.
AllEchoed ==
    stage = "exit" /\ args.cmd = "run"
      => IF status = 0
         THEN /\ args.elf = "good" /\ args.input # "missing" /\ result.kind = "ok"
              /\ FlattenSeq(printed) = io.output /\ io.output = EchoOf(input_bytes)
         ELSE printed = <<>> /\ result.kind # "ok"

\* The inductive invariant of the process.
RunnerInv ==
    /\ TypeOK /\ args \in Arguments
    /\ stage \in {"load", "input", "run", "print", "exit"}
    /\ stage \in {"load", "input"} => Fresh
    /\ stage \in {"input", "run", "print"} => Started
    /\ stage \in {"run", "print"} => args.input # "missing" /\ Echoing
    /\ stage = "print" => result.kind = "ok"
    /\ stage # "exit" => PrintedSoFar
    /\ AllEchoed

\* A guest that has terminated has revealed the whole echo.
LEMMA OutputComplete ==
    ASSUME Echoing, result.kind = "ok"
    PROVE  io.output = EchoOf(input_bytes)
<1>1. PICK n \in 1 .. 23, k \in 0 .. 4 : EchoAt(n, k) /\ n = 23
  BY DEF Echoing
<1>2. io.output = [i \in 1 .. 16 |-> EchoOf(input_bytes)[i]]
  <2>1. k = 4 /\ io.output = [i \in 1 .. 4 * k |-> EchoOf(input_bytes)[i]] /\ 4 * 4 = 16
    BY <1>1 DEF EchoAt
  <2> QED
    BY <2>1, Zenon
<1>3. EchoOf(input_bytes) = [i \in 1 .. 16 |-> EchoOf(input_bytes)[i]]
  BY Zenon DEF EchoOf, Echoed
<1> QED
  BY <1>2, <1>3, Zenon

\* The invariant of the process holds when it starts.
LEMMA RunnerStarts == ASSUME EchoLoaded, RunnerInit PROVE RunnerInv
<1>1. TypeOK
  <2>1. <<>> \in Seq(Seq(Byte))
    OBVIOUS
  <2> QED
    BY <2>1, InitialTypes DEF RunnerInit
<1>2. Fresh
  <2>1. pages = Image /\ pc = 0 /\ result.kind = "running"
    BY DEF RunnerInit, CpuInit, EchoLoaded
  <2>2. ProgramIn(pages)
    BY <2>1, ImageHoldsProgram
  <2> QED
    BY <2>1, <2>2 DEF Fresh, Running
<1> QED
  BY <1>1, <1>2 DEF RunnerInit, RunnerInv, PrintedSoFar, AllEchoed

\* Loading keeps it: a process that fails or prints a summary is done.
LEMMA LoadKeeps == ASSUME RunnerInv, LoadElf PROVE RunnerInv'
<1>1. TypeOK' /\ (args \in Arguments)' /\ Fresh' /\ Running
  BY DEF RunnerInv, LoadElf, vars, cpuVars, TypeOK, CpuTypeOK, Fresh, ProgramIn, Running
<1>2. printed = <<>> /\ args.cmd \in {"run", "info"} /\ args' = args /\ result' = result
  BY DEF RunnerInv, LoadElf, PrintedSoFar, Arguments, vars, cpuVars
<1>3. CASE Exit(1) /\ UNCHANGED printed
  BY <1>1, <1>2, <1>3 DEF Exit, RunnerInv, AllEchoed, Running
<1>4. CASE args.cmd = "info" /\ Exit(0)
  BY <1>1, <1>2, <1>4 DEF Exit, RunnerInv, AllEchoed
<1>5. CASE args.elf = "good" /\ args.cmd # "info" /\ stage' = "input" /\ UNCHANGED printed
  BY <1>1, <1>2, <1>5 DEF RunnerInv, AllEchoed, Started, PrintedSoFar
<1> QED
  BY <1>3, <1>4, <1>5 DEF LoadElf

\* Reading the input keeps it: the guest starts with the input in the queue.
LEMMA ReadKeeps == ASSUME EchoLoaded, RunnerInv, ReadInput PROVE RunnerInv'
<1>1. /\ Fresh /\ Started /\ printed = <<>> /\ TypeOK /\ args \in Arguments
      /\ UNCHANGED <<pc, x, pages, steps, result, args, printed>>
  BY DEF RunnerInv, ReadInput, PrintedSoFar, cpuVars
<1>2. CASE args.input = "missing" /\ Exit(1) /\ UNCHANGED io
  <2>1. TypeOK'
    BY <1>1, <1>2 DEF TypeOK, CpuTypeOK
  <2> QED
    BY <1>1, <1>2, <2>1 DEF Exit, RunnerInv, AllEchoed, Fresh, Running
<1>3. CASE args.input # "missing" /\ io' = with_input_streams(<< input_bytes >>) /\ stage' = "run"
  <2>1. input_bytes \in Seq(Byte) /\ input_bytes' = input_bytes
    BY <1>1, <1>3, InputTyped DEF input_bytes
  <2>2. TypeOK'
    BY <1>1, <1>3, <2>1 DEF TypeOK, CpuTypeOK, with_input_streams, IoStateType
  <2>3. EchoAt(1, 0)'
    <3>1. pc' = 0 /\ ProgramIn(pages') /\ io' = with_input_streams(<< input_bytes' >>)
      BY <1>1, <1>3, <2>1 DEF Fresh
    <3> QED
      BY <3>1, SMTT(60) DEF EchoAt, with_input_streams
  <2>4. Echoing'
    <3>1. 1 \in 1 .. 23 /\ 0 \in 0 .. 4 /\ result'.kind # "ok"
      BY <1>1 DEF Fresh, Running
    <3> QED
      BY <2>3, <3>1, Zenon DEF Echoing
  <2> QED
    BY <1>1, <1>3, <2>2, <2>4 DEF RunnerInv, AllEchoed, Started, PrintedSoFar
<1> QED
  BY <1>2, <1>3 DEF ReadInput

\* A step of the guest keeps it.
LEMMA InterpretKeeps == ASSUME EchoLoaded, RunnerInv, Interpret PROVE RunnerInv'
<1>1. /\ TypeOK /\ args \in Arguments /\ args.input # "missing" /\ Echoing /\ Next
      /\ Started /\ printed = <<>> /\ stage = "run" /\ UNCHANGED <<args, stage, printed>>
  BY DEF RunnerInv, Interpret, PrintedSoFar
<1>2. TypeOK'
  BY <1>1, TypesKept
<1>3. Echoing'
  BY <1>1, <1>2, EchoKept
<1> QED
  BY <1>1, <1>2, <1>3 DEF RunnerInv, AllEchoed, Started, PrintedSoFar

\* What a step of the process after the guest leaves alone.
LEMMA GuestLeft ==
    ASSUME RunnerInv, stage \in {"run", "print"}, UNCHANGED <<vars, args>>
    PROVE  /\ TypeOK' /\ args' \in Arguments /\ args'.input # "missing"
           /\ Started' /\ Echoing' /\ io' = io /\ result' = result /\ args' = args
<1>1. TypeOK /\ args \in Arguments /\ args.input # "missing" /\ Started /\ Echoing
  BY DEF RunnerInv
<1>2. UNCHANGED <<pc, x, pages, steps, result, io, args>>
  BY DEF vars, cpuVars
<1>3. TypeOK'
  BY <1>1, <1>2 DEF TypeOK, CpuTypeOK
<1>4. Echoing'
  <2>1. PICK n \in 1 .. 23, k \in 0 .. 4 : EchoAt(n, k) /\ (result.kind = "ok" => n = 23)
    BY <1>1 DEF Echoing
  <2>2. input_bytes' = input_bytes
    BY <1>2 DEF input_bytes
  <2>3. EchoAt(n, k)' /\ (result'.kind = "ok" => n = 23)
    BY <1>2, <2>1, <2>2, SMTT(60) DEF EchoAt
  <2> QED
    BY <2>3, Zenon DEF Echoing
<1> QED
  BY <1>1, <1>2, <1>3, <1>4 DEF Started

\* The end of the run keeps it: nothing is printed yet.
LEMMA ReturnedKeeps == ASSUME RunnerInv, Returned PROVE RunnerInv'
<1>1. /\ stage = "run" /\ printed = <<>> /\ printed' = printed /\ UNCHANGED <<vars, args>>
  BY DEF RunnerInv, Returned, PrintedSoFar
<1>2. /\ TypeOK' /\ args' \in Arguments /\ args'.input # "missing"
      /\ Started' /\ Echoing' /\ result' = result /\ args' = args
  BY <1>1, GuestLeft
<1>3. CASE result.kind = "ok" /\ stage' = "print"
  <2>1. PrintedSoFar'
    BY <1>1, <1>3 DEF PrintedSoFar, AreLines
  <2> QED
    BY <1>1, <1>2, <1>3, <2>1 DEF RunnerInv, AllEchoed
<1>4. CASE result.kind # "ok" /\ Exit(1)
  BY <1>1, <1>2, <1>4 DEF Exit, RunnerInv, AllEchoed
<1> QED
  BY <1>3, <1>4 DEF Returned

\* Printing in hex keeps it: the only line is the whole output.
LEMMA HexKeeps == ASSUME RunnerInv, PrintHex PROVE RunnerInv'
<1>1. /\ stage = "print" /\ result.kind = "ok" /\ Echoing /\ UNCHANGED <<vars, args>>
      /\ printed' = << io.output >> /\ stage' = "exit" /\ status' = 0
  BY DEF RunnerInv, PrintHex, Exit
<1>2. /\ TypeOK' /\ args' \in Arguments /\ args'.input # "missing"
      /\ Started' /\ Echoing' /\ io' = io /\ result' = result
  BY <1>1, GuestLeft
<1>3. io'.output = EchoOf(input_bytes')
  <2>1. (Echoing /\ result.kind = "ok" => io.output = EchoOf(input_bytes))'
    BY OutputComplete, PTL
  <2> QED
    BY <1>1, <1>2, <2>1
<1>4. FlattenSeq(printed') = io'.output
  BY <1>1, <1>2, <1>3 DEF FlattenSeq
<1>5. AllEchoed'
  BY <1>1, <1>2, <1>3, <1>4, Zenon DEF AllEchoed, Started
<1> QED
  BY <1>1, <1>2, <1>5 DEF RunnerInv

\* A part of a text.
LEMMA PartOf ==
    ASSUME NEW s \in Seq(Byte), NEW a \in Nat, NEW b \in Nat, a <= b, b <= Len(s)
    PROVE  /\ SubSeq(s, a + 1, b) \in Seq(Byte) /\ Len(SubSeq(s, a + 1, b)) = b - a
           /\ \A i \in 1 .. b - a : SubSeq(s, a + 1, b)[i] = s[a + i]
OBVIOUS

\* The first bytes of the rest of a text.
LEMMA PartOfRest ==
    ASSUME NEW s \in Seq(Byte), NEW a \in Nat, NEW e \in Nat, a + e <= Len(s)
    PROVE  SubSeq(SubSeq(s, a + 1, Len(s)), 1, e) = SubSeq(s, a + 1, a + e)
<1> DEFINE rest == SubSeq(s, a + 1, Len(s))
           u == SubSeq(rest, 1, e)
           v == SubSeq(s, a + 1, a + e)
<1>1. Len(s) \in Nat /\ a <= Len(s) /\ a + e \in Nat /\ a <= a + e
  OBVIOUS
<1>2. /\ rest \in Seq(Byte) /\ Len(rest) = Len(s) - a
      /\ \A i \in 1 .. Len(s) - a : rest[i] = s[a + i]
  BY <1>1, PartOf
<1>3. v \in Seq(Byte) /\ Len(v) = (a + e) - a /\ \A i \in 1 .. (a + e) - a : v[i] = s[a + i]
  BY <1>1, PartOf
<1> HIDE DEF rest, v
<1>4. u \in Seq(Byte) /\ Len(u) = e /\ \A i \in 1 .. e : u[i] = rest[i]
  BY <1>1, <1>2
<1> HIDE DEF u
<1>5. \A i \in 1 .. e : u[i] = v[i]
  <2> SUFFICES ASSUME NEW i \in 1 .. e PROVE u[i] = v[i]
    OBVIOUS
  <2>1. i \in 1 .. Len(s) - a /\ i \in 1 .. (a + e) - a
    BY <1>1
  <2> QED
    BY <1>2, <1>3, <1>4, <2>1
<1>6. Len(v) = e
  BY <1>3
<1>7. u = v
  BY <1>3, <1>4, <1>5, <1>6
<1> QED
  BY <1>7 DEF rest, u, v

\* v is u, of n elements, and e after it.
Lengthens(v, u, e, n) ==
    /\ v = [m \in 1 .. n + 1 |-> v[m]] /\ Len(v) = n + 1
    /\ \A m \in 1 .. n : v[m] = u[m]
    /\ v[n + 1] = e

\* An element more.
LEMMA Appended ==
    ASSUME NEW T, NEW u, u \in Seq(T), NEW e, e \in T, NEW n, Len(u) = n, NEW v, v = Append(u, e)
    PROVE  Lengthens(v, u, e, n)
<1>1. /\ v \in Seq(T) /\ Len(v) = n + 1 /\ n \in Nat /\ v[n + 1] = e
      /\ \A m \in 1 .. n : v[m] = u[m]
  BY AppendProperties
<1>2. v \in [1 .. n + 1 -> T]
  <2>1. v \in [1 .. Len(v) -> T]
    BY <1>1, LenProperties, Zenon
  <2> QED
    BY <1>1, <2>1, Zenon
<1> QED
  BY <1>1, <1>2, Zenon DEF Lengthens

\* A line more.
LEMMA NextLine ==
    ASSUME NEW s \in Seq(Byte), NEW lines, Len(lines) \in Nat, AreLines(lines, s),
           NEW rest, rest = SubSeq(s, Chunk * Len(lines) + 1, Len(s)), rest # <<>>,
           NEW longer,
           longer = Append(lines, SubSeq(rest, 1, IF Len(rest) < Chunk THEN Len(rest) ELSE Chunk))
    PROVE  Len(longer) \in Nat /\ AreLines(longer, s)
<1> DEFINE n == Len(lines)
           a == Chunk * n
           e == IF Len(rest) < Chunk THEN Len(rest) ELSE Chunk
           b == Lesser(a + Chunk, Len(s))
<1>1. /\ n \in Nat /\ a \in Nat /\ Chunk \in Nat \ {0} /\ Len(s) \in Nat
      /\ Chunk * (n + 1) = a + Chunk
  BY RunnerAssumption
<1>2. lines = [m \in 1 .. n |-> Line(s, m)] /\ \A m \in 1 .. n : Chunk * (m - 1) < Len(s)
  BY DEF AreLines
<1>3. rest = SubSeq(s, a + 1, Len(s))
  OBVIOUS
<1> HIDE DEF a
<1>4. a < Len(s)
  <2> SUFFICES ASSUME ~(a < Len(s)) PROVE FALSE
    OBVIOUS
  <2>1. Len(s) < a + 1 /\ a + 1 \in Int /\ Len(s) \in Int
    BY <1>1, SMTT(30)
  <2>2. SubSeq(s, a + 1, Len(s)) = <<>>
    BY <2>1, SubSeqEmpty, Zenon
  <2> QED
    BY <1>3, <2>2, Zenon
<1>5. Len(rest) = Len(s) - a
  <2>1. Len(SubSeq(s, a + 1, Len(s))) = Len(s) - a
    BY <1>1, <1>4, PartOf, SMTT(30)
  <2> QED
    BY <1>3, <2>1, Zenon
<1>6. e \in Nat /\ a + e <= Len(s) /\ b = a + e /\ b \in Nat
  BY <1>1, <1>4, <1>5, SMTT(30) DEF Lesser
<1>7. SubSeq(rest, 1, e) = SubSeq(s, a + 1, b)
  <2> HIDE DEF e, b
  <2>1. SubSeq(SubSeq(s, a + 1, Len(s)), 1, e) = SubSeq(s, a + 1, a + e)
    BY <1>1, <1>6, PartOfRest, SMTT(30)
  <2> QED
    BY <1>3, <1>6, <2>1, Zenon
<1>8. SubSeq(s, a + 1, b) = Line(s, n + 1)
  <2>1. Chunk * ((n + 1) - 1) = a
    BY <1>1 DEF a
  <2> QED
    BY <1>1, <2>1 DEF Line
<1>9. longer = Append(lines, Line(s, n + 1))
  BY <1>7, <1>8
<1>10. /\ Len(longer) = n + 1 /\ longer = [m \in 1 .. n + 1 |-> longer[m]]
       /\ \A m \in 1 .. n + 1 : longer[m] = Line(s, m)
  <2> DEFINE T == {Line(s, m) : m \in 1 .. n + 1}
  <2> HIDE DEF n
  <2>1. lines \in Seq(T) /\ Line(s, n + 1) \in T /\ Len(lines) = n
    <3>1. n + 1 \in 1 .. n + 1 /\ \A m \in 1 .. n : m \in 1 .. n + 1
      BY <1>1
    <3>2. Line(s, n + 1) \in T /\ lines \in [1 .. n -> T]
      BY <1>2, <3>1, Zenon
    <3>3. Len(lines) = n
      BY DEF n
    <3> HIDE DEF T
    <3> QED
      BY <1>1, <3>2, <3>3
  <2> HIDE DEF T
  <2> DEFINE last == Line(s, n + 1)
  <2>2. /\ longer = [m \in 1 .. n + 1 |-> longer[m]] /\ Len(longer) = n + 1
        /\ \A m \in 1 .. n : longer[m] = lines[m]
        /\ longer[n + 1] = last
    <3>1. longer = Append(lines, last) /\ lines \in Seq(T) /\ last \in T /\ Len(lines) = n
      BY <1>9, <2>1, Zenon DEF n
    <3> HIDE DEF last
    <3>2. Lengthens(longer, lines, last, n)
      BY <3>1, Appended, Zenon
    <3> QED
      BY <3>2, Zenon DEF Lengthens
  <2>3. \A m \in 1 .. n : lines[m] = Line(s, m)
    BY <1>2, Zenon
  <2>4. \A m \in 1 .. n + 1 : m \in 1 .. n \/ m = n + 1
    BY <1>1
  <2> QED
    BY <2>2, <2>3, <2>4, Zenon
<1>11. longer = [m \in 1 .. n + 1 |-> Line(s, m)]
  BY <1>10, Zenon
<1>12. \A m \in 1 .. n + 1 : Chunk * (m - 1) < Len(s)
  <2> SUFFICES ASSUME NEW m \in 1 .. n + 1 PROVE Chunk * (m - 1) < Len(s)
    OBVIOUS
  <2>1. CASE m \in 1 .. n
    BY <1>2, <2>1
  <2>2. CASE m = n + 1
    BY <1>1, <1>4, <2>2 DEF a
  <2> QED
    BY <1>1, <2>1, <2>2
<1>13. Len(longer) \in Nat
  BY <1>1, <1>10
<1> HIDE DEF n
<1> QED
  BY <1>10, <1>11, <1>12, <1>13, Zenon DEF AreLines

\* When nothing remains, the lines make up the whole text.
LEMMA AllPrinted ==
    ASSUME NEW s \in Seq(Byte), NEW lines, Len(lines) \in Nat, AreLines(lines, s), Len(s) > 0,
           SubSeq(s, Chunk * Len(lines) + 1, Len(s)) = <<>>
    PROVE  FlattenSeq(lines) = s
<1> DEFINE n == Len(lines)
           a == Chunk * n
<1>1. n \in Nat /\ a \in Nat /\ Len(s) \in Nat /\ SubSeq(s, a + 1, Len(s)) = <<>>
  BY RunnerAssumption
<1>2. n = 0 => a = 0
  BY RunnerAssumption
<1> HIDE DEF a
<1>3. Len(s) <= a
  <2> SUFFICES ASSUME a < Len(s) PROVE FALSE
    BY <1>1
  <2>1. Len(SubSeq(s, a + 1, Len(s))) = Len(s) - a
    BY <1>1, PartOf
  <2> QED
    BY <1>1, <2>1
<1>4. n \in Nat \ {0} /\ Lesser(a, Len(s)) = Len(s)
  BY <1>1, <1>2, <1>3 DEF Lesser
<1>5. FlattenSeq(lines) = SubSeq(s, 1, Len(s))
  BY <1>4, LinesMakeText DEF a
<1> QED
  BY <1>5

\* Printing a line keeps it: what is printed is a prefix of the output, cut in lines.
LEMMA ChunkKeeps == ASSUME RunnerInv, PrintChunk PROVE RunnerInv'
<1>1. /\ stage = "print" /\ ~args.hex /\ result.kind = "ok" /\ Echoing /\ UNCHANGED <<vars, args>>
      /\ Len(printed) \in Nat /\ AreLines(printed, io.output)
  BY DEF RunnerInv, PrintChunk, PrintedSoFar
<1>2. /\ TypeOK' /\ args' \in Arguments /\ args'.input # "missing"
      /\ Started' /\ Echoing' /\ io' = io /\ result' = result /\ args' = args
  BY <1>1, GuestLeft
<1>3. io.output \in Seq(Byte)
  BY DEF RunnerInv, TypeOK, IoStateType
<1>4. CASE remaining = <<>>
  <2>1. printed' = printed /\ stage' = "exit" /\ status' = 0
    BY <1>4 DEF PrintChunk, Exit
  <2>2. io.output = EchoOf(input_bytes) /\ input_bytes' = input_bytes
    BY <1>1, <1>2, OutputComplete DEF input_bytes
  <2>3. Len(io.output) > 0
    BY <2>2 DEF EchoOf, Echoed
  <2>4. FlattenSeq(printed) = io.output
    BY <1>1, <1>3, <1>4, <2>3, AllPrinted DEF remaining
  <2>5. FlattenSeq(printed') = io'.output /\ io'.output = EchoOf(input_bytes')
    BY <1>2, <2>1, <2>2, <2>4, Zenon
  <2>6. AllEchoed'
    <3>1. status' = 0 /\ result'.kind = "ok" /\ args'.elf = "good"
      BY <1>1, <1>2, <2>1 DEF Started
    <3> QED
      BY <1>2, <2>5, <3>1, Zenon DEF AllEchoed
  <2> QED
    BY <1>1, <1>2, <2>1, <2>6 DEF RunnerInv
<1>5. CASE remaining # <<>>
  <2>1. /\ stage' = "print"
        /\ printed' = Append(printed,
             SubSeq(remaining, 1, IF Len(remaining) < Chunk THEN Len(remaining) ELSE Chunk))
    BY <1>1, <1>5 DEF PrintChunk
  <2>2. Len(printed') \in Nat /\ AreLines(printed', io.output)
    BY <1>1, <1>3, <1>5, <2>1, NextLine DEF remaining
  <2>3. PrintedSoFar'
    BY <1>1, <1>2, <2>1, <2>2 DEF PrintedSoFar
  <2> QED
    BY <1>1, <1>2, <2>1, <2>3 DEF RunnerInv, AllEchoed
<1> QED
  BY <1>4, <1>5

\* For every input, size of line, memory and step budget: a run of the echo
\* guest that succeeds has printed the first 16 bytes of its input, zeros after
\* its end, every byte once and in order; one that fails has printed nothing.
THEOREM EchoIsPrinted == ASSUME EchoLoaded PROVE RunnerSpec => []EchoPrinted
<1>1. RunnerInit => RunnerInv
  BY RunnerStarts
<1>2. RunnerInv /\ [RunnerNext]_runnerVars => RunnerInv'
  <2> SUFFICES ASSUME RunnerInv, [RunnerNext]_runnerVars PROVE RunnerInv'
    OBVIOUS
  <2>1. CASE LoadElf
    BY <2>1, LoadKeeps
  <2>2. CASE ReadInput
    BY <2>2, ReadKeeps
  <2>3. CASE Interpret
    BY <2>3, InterpretKeeps
  <2>4. CASE Returned
    BY <2>4, ReturnedKeeps
  <2>5. CASE PrintHex
    BY <2>5, HexKeeps
  <2>6. CASE PrintChunk
    BY <2>6, ChunkKeeps
  <2>7. CASE UNCHANGED runnerVars
    <3>1. UNCHANGED <<pc, x, pages, steps, result, io, args, stage, printed, status>>
      BY <2>7 DEF runnerVars, vars, cpuVars
    <3>2. input_bytes' = input_bytes
      BY <3>1 DEF input_bytes
    <3>3. TypeOK' <=> TypeOK
      BY <3>1 DEF TypeOK, CpuTypeOK
    <3>4. Echoing => Echoing'
      <4> SUFFICES ASSUME Echoing PROVE Echoing'
        OBVIOUS
      <4>1. PICK n \in 1 .. 23, k \in 0 .. 4 : EchoAt(n, k) /\ (result.kind = "ok" => n = 23)
        BY DEF Echoing
      <4>2. EchoAt(n, k)' /\ (result'.kind = "ok" => n = 23)
        BY <3>1, <3>2, <4>1, SMTT(60) DEF EchoAt
      <4> QED
        BY <4>2, Zenon DEF Echoing
    <3> QED
      BY <3>1, <3>2, <3>3, <3>4
         DEF RunnerInv, AllEchoed, Fresh, Running, Started, PrintedSoFar, AreLines
  <2> QED
    BY <2>1, <2>2, <2>3, <2>4, <2>5, <2>6, <2>7 DEF RunnerNext
<1>3. RunnerInv => EchoPrinted
  BY Zenon DEF RunnerInv, AllEchoed, EchoPrinted, EchoOf
<1> QED
  BY <1>1, <1>2, <1>3, PTL DEF RunnerSpec
=============================================================================
