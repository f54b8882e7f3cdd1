-------------------------------- MODULE Alu --------------------------------
(***************************************************************************)
(* What the register instructions and the branches compute: exec_op,        *)
(* exec_op_imm and the conditions of exec_branch (crates/rv32im/src/cpu.rs).*)
(***************************************************************************)
EXTENDS Decode

taken(funct3, a, b) ==
    CASE funct3 = 0 -> a = b
      [] funct3 = 1 -> a # b
      [] funct3 = 4 -> Signed(a) < Signed(b)
      [] funct3 = 5 -> Signed(a) >= Signed(b)
      [] funct3 = 6 -> a < b
      [] funct3 = 7 -> a >= b

\* Arithmetic.  Signed division truncates towards zero.

truth(b) == IF b THEN 1 ELSE 0
Abs(i)   == IF i < 0 THEN -i ELSE i

TruncDiv(i, j) == IF (i < 0) = (j < 0) THEN Abs(i) \div Abs(j) ELSE -(Abs(i) \div Abs(j))
TruncRem(i, j) == i - j * TruncDiv(i, j)

MinSigned == WordSize \div 2      \* 0x8000_0000
AllOnes   == WordSize - 1         \* u32::MAX

div(a, b) ==
    IF b = 0 THEN AllOnes
    ELSE IF a = MinSigned /\ b = AllOnes THEN MinSigned
    ELSE Unsigned(TruncDiv(Signed(a), Signed(b)))

\* Mutant of rem: the sign of the dividend is lost.
rem_of_magnitudes(a, b) ==
    IF b = 0 THEN a ELSE Unsigned(Abs(Signed(a)) % Abs(Signed(b)))

rem(a, b) ==
    IF b = 0 THEN a
    ELSE IF a = MinSigned /\ b = AllOnes THEN 0
    ELSE Unsigned(TruncRem(Signed(a), Signed(b)))

divu(a, b) == IF b = 0 THEN AllOnes ELSE a \div b
remu(a, b) == IF b = 0 THEN a ELSE a % b

\* Mutant of upper: a division, which rounds to zero, for the shift.
upper_divided(product) == Unsigned(TruncDiv(product, WordSize))

\* The upper word of a product.
upper(product) == Unsigned(product \div WordSize)

\* Mutant of shift_amount: all of the register.
whole_register(b) == b

\* The low bits of a register: five of 32.
shift_amount(b) == b % XLEN

base_op(funct3, a, b) ==
    CASE funct3 = 0 -> wrapping_add(a, b)
      [] funct3 = 1 -> ShiftLeft(a, shift_amount(b))
      [] funct3 = 2 -> truth(Signed(a) < Signed(b))
      [] funct3 = 3 -> truth(a < b)
      [] funct3 = 4 -> BitXor(a, b)
      [] funct3 = 5 -> ShiftRight(a, shift_amount(b))
      [] funct3 = 6 -> BitOr(a, b)
      [] funct3 = 7 -> BitAnd(a, b)

m_op(funct3, a, b) ==
    CASE funct3 = 0 -> Unsigned(a * b)
      [] funct3 = 1 -> upper(Signed(a) * Signed(b))
      [] funct3 = 2 -> upper(Signed(a) * b)
      [] funct3 = 3 -> upper(a * b)
      [] funct3 = 4 -> div(a, b)
      [] funct3 = 5 -> divu(a, b)
      [] funct3 = 6 -> rem(a, b)
      [] funct3 = 7 -> remu(a, b)

op_value(funct7, funct3, a, b) ==
    CASE funct7 = 0                 -> base_op(funct3, a, b)
      [] funct7 = 1                 -> m_op(funct3, a, b)
      [] funct7 = 32 /\ funct3 = 0 -> wrapping_sub(a, b)
      [] funct7 = 32 /\ funct3 = 5 -> ShiftRightArith(a, shift_amount(b))

op_imm_value(insn, a) ==
    CASE insn.funct3 = 1 -> ShiftLeft(a, shamt(insn))
      [] insn.funct3 = 5 /\ insn.funct7 = 0  -> ShiftRight(a, shamt(insn))
      [] insn.funct3 = 5 /\ insn.funct7 = 32 -> ShiftRightArith(a, shamt(insn))
      [] insn.funct3 \notin {1, 5} -> base_op(insn.funct3, a, imm_i(insn))
=============================================================================
