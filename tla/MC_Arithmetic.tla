--------------------------- MODULE MC_Arithmetic ---------------------------
(***************************************************************************)
(* The clients of the instructions that compute, one to a behaviour.  They  *)
(* share the guest's state: its buffers, the register or stream answer, the *)
(* instruction executed last and how the run ended; chip says whose numbers *)
(* the buffers hold.  The client of the Alu has two registers instead and   *)
(* goes through every pair of words.                                        *)
(***************************************************************************)
EXTENDS Alu

CONSTANTS
    Cell,                               \* the guest's buffers
    WideBits, WideSize, WideBytes,      \* the bytes of a 256-bit number,
    WideOperands, WideOthers,           \* and those of the first cell and the others
    ModP, ModLimit,                     \* a modulus of the table, and its numbers
    ComplexP, ComplexLimit, Coordinate, \* one of an extension, and those of a pair
    CurveP, CurveLimit, CurveA, CurveB, \* one of the curve table, and its curve
    Multiples                           \* whose points these are

VARIABLES
    chip,
    cells,      \* the numbers, pairs or points in the guest's buffers
    answer,     \* what IsEq wrote to its register, or HintNonQr to the stream
    insn,       \* the instruction executed last: operation, destination, operands
    outcome,    \* "running", or how the run ended
    a, b        \* the registers of an instruction of the Alu

vars == <<chip, cells, answer, insn, outcome, a, b>>

\* Numbers of four bytes of four bits: the extreme bytes everywhere, and every
\* amount of a shift.
Limb == 0 .. 3
MCOperands == [Limb -> {0, 8, 15}]
MCOthers   == [Limb -> {0, 15}]
              \cup { [i \in Limb |-> IF i = 0 THEN n ELSE 0] : n \in 0 .. 15 }
              \cup { [i \in Limb |-> IF i = 3 THEN 8 ELSE 0] }

Wide == INSTANCE Int256 WITH ByteBits <- WideBits, ByteSize <- WideSize,
                             UINT256_BYTES <- WideBytes,
                             Operands <- WideOperands, Others <- WideOthers

Mod == INSTANCE Modular WITH P <- ModP, Limit <- ModLimit, equal <- answer

Complex == INSTANCE Fp2 WITH P <- ComplexP, Limit <- ComplexLimit, equal <- answer

\* y^2 = x^3 - 3x - 1 over the field of 7 elements, where 2 is a residue and 3
\* is not: 11 points with the one at infinity; numbers below 10, so that some
\* coordinates are not reduced.
MCMultiples ==
    << <<1, 2>>, <<5, 5>>, <<2, 6>>, <<6, 6>>, <<4, 4>>,
       <<4, 3>>, <<6, 1>>, <<2, 1>>, <<5, 2>>, <<1, 5>> >>

Points == INSTANCE Curve WITH P <- CurveP, Limit <- CurveLimit, A <- CurveA, B <- CurveB,
                              non_qr <- answer

ASSUME ArithmeticAssumption ==
    /\ Wide!ByteAssumption /\ Wide!Uint256Assumption
    /\ Mod!ModulusAssumption
    /\ Complex!ModulusAssumption /\ Complex!Fp2Assumption
    /\ Points!ModulusAssumption /\ Points!CurveAssumption

-----------------------------------------------------------------------------
Fresh == answer = 0 /\ outcome = "running" /\ insn = <<>>
NoRegisters == a = 0 /\ b = 0

Init ==
    \/ chip = "alu" /\ NoRegisters /\ cells = <<>> /\ Fresh
    \/ chip = "int256" /\ Wide!Init /\ Fresh /\ NoRegisters
    \/ chip = "modular" /\ Mod!Init /\ NoRegisters
    \/ chip = "fp2" /\ Complex!Init /\ NoRegisters
    \/ chip = "curve" /\ Points!Init /\ NoRegisters

AluStep ==
    /\ chip = "alu"
    /\ \/ a' = wrapping_add(a, 1) /\ UNCHANGED b
       \/ b' = wrapping_add(b, 1) /\ UNCHANGED a
    /\ UNCHANGED <<cells, answer, insn, outcome>>

\* Bound: one instruction.
Int256Step == chip = "int256" /\ insn = <<>> /\ Wide!Next /\ UNCHANGED <<answer, outcome, a, b>>

ModularStep == chip = "modular" /\ Mod!Next /\ UNCHANGED <<a, b>>
Fp2Step     == chip = "fp2" /\ Complex!Next /\ UNCHANGED <<a, b>>
CurveStep   == chip = "curve" /\ Points!Next /\ UNCHANGED <<a, b>>

Next ==
    /\ AluStep \/ Int256Step \/ ModularStep \/ Fp2Step \/ CurveStep
    /\ UNCHANGED chip

Spec == Init /\ [][Next]_vars

-----------------------------------------------------------------------------
\* The properties of the Alu define each operation by what the instruction set
\* says of its result, never by how it is computed.

Op(funct7, funct3) == op_value(funct7, funct3, a, b)

\* DIV and REM fit together for every pair of operands: also for a divisor of
\* zero and for the one quotient that does not fit.  The remainder is smaller
\* than the divisor and has the sign of the dividend.
DivisionIdentity ==
    chip = "alu" =>
       LET q == Op(1, 4)
           r == Op(1, 6)
       IN  /\ wrapping_add(Unsigned(q * b), r) = a
           /\ b # 0 => /\ Abs(Signed(r)) < Abs(Signed(b))
                       /\ Signed(r) # 0 => (Signed(r) < 0) = (Signed(a) < 0)
           /\ b = 0 => q = AllOnes
           /\ wrapping_add(Unsigned(Op(1, 5) * b), Op(1, 7)) = a
           /\ b # 0 => Op(1, 7) < b

\* MUL and each of MULH, MULHSU and MULHU are the two halves of one exact
\* product, and the signedness of each operand is the instruction's.
ExactProduct ==
    chip = "alu" =>
       LET low == Op(1, 0)
       IN  /\ Signed(Op(1, 1)) * WordSize + low = Signed(a) * Signed(b)
           /\ Signed(Op(1, 2)) * WordSize + low = Signed(a) * b
           /\ Op(1, 3) * WordSize + low = a * b

\* Shifts use the low bits of the amount only; to the left they multiply, to
\* the right they divide, an arithmetic one towards minus infinity.
ShiftsScale ==
    chip = "alu" =>
       LET power == 2^(b % XLEN)
       IN  /\ Op(0, 1)  = (a * power) % WordSize
           /\ Op(0, 5)  = a \div power
           /\ Signed(Op(32, 5)) = Signed(a) \div power

\* Carries, borrows, shifts across bytes, the columns of the product and the
\* order by the topmost differing byte of int256.rs are arithmetic modulo
\* 2^256: every step is the abstract one of the same instruction.  Shifts by
\* 256 or more are left out: of them the code and its comment disagree.
ImplementsUint256 ==
    /\ chip = "int256" => Wide!Abstract!Init
    /\ [][ chip = "int256" /\ ~Wide!ShiftsOut => Wide!Abstract!Next ]_vars

\* "Shift amount: low 8 bits of `b` (matches OpenVM, since shifts by >=256 are
\* defined to return 0 anyway)" (int256.rs:98-99), as the guards at 105 and 133
\* say again.  They are never reached: an amount of 256 shifts by nothing.
LargeShiftsVanish ==
    [][ chip = "int256" /\ Wide!ShiftsOut /\ insn'[1] # "sra"
          => Wide!Value(cells'[insn'[2]]) = 0 ]_vars

\* Every step of do_mod_op is the field's, for operands reduced or not, with
\* a canonical result; only a multiple of p is refused as a divisor, and no
\* chain of operations on reduced numbers panics.
ImplementsField ==
    /\ chip = "modular" => Mod!IntegersModP!Init
    /\ [][ chip = "modular" => Mod!IntegersModP!Next ]_vars

\* The same of handle_complex and the field of p^2 elements.
ImplementsComplexField ==
    /\ chip = "fp2" => Complex!ComplexModP!Init
    /\ [][ chip = "fp2" => Complex!ComplexModP!Next ]_vars

\* Adding and doubling (ecc.rs) are those of a cyclic group in any sequence;
\* adding panics exactly for equal and opposite points, doubling never.
ImplementsGroup ==
    /\ chip = "curve" => Points!Scalars!Init
    /\ [][ chip = "curve" => Points!Scalars!Next ]_vars

\* Decompression finds the point whenever there is one and only then: the
\* root with the parity asked for, canonical, on the curve.
DecompressesPoint == [][ chip = "curve" => Points!Decompresses ]_vars

\* The search of HintNonQr ends, and what it writes is the square of no number,
\* by the definition and not by Euler's criterion.
HintIsNonResidue == chip = "curve" => Points!HintIsNonResidue
=============================================================================
