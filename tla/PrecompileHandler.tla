------------------------- MODULE PrecompileHandler -------------------------
(***************************************************************************)
(* The whole interpreter: the processor of Cpu composed with the handler of *)
(* the custom opcodes (crates/precompiles) and the host's IoState.  Every   *)
(* custom instruction is an action with all that it reads and writes:       *)
(* registers, memory, hint stream, output, program counter, errors.         *)
(*                                                                         *)
(* What an arithmetic instruction computes is left open: the bytes of its   *)
(* result are any bytes, and an instruction that gives up or panics for     *)
(* some operands may do so for any.  Where the result goes, how many bytes  *)
(* it has and what else changes is exact.                                   *)
(***************************************************************************)
EXTENDS Cpu, IoState

CONSTANTS
    InputQueues,    \* the queues of input streams the host may have filled
    UINT256_BYTES,  \* 32
    KECCAK_BYTES,   \* 200
    SHA256_BYTES,   \* 32
    ModulusBytes,   \* bytes of each modulus: 32, and 48 for the last but one
    ComplexBytes,   \* bytes of each modulus of the Fp2 operations: 32 and 48
    CurveBytes,     \* bytes of a coordinate of each curve: 32, and 48 for the last
    PairingBytes    \* bytes of an Fp12 element of each pairing: 384 and 576

\* The tables of config.rs; every number is a whole count of words.
ASSUME ConfigAssumption ==
    /\ InputQueues \subseteq Seq(Seq(Byte))
    /\ UINT256_BYTES \in Nat /\ KECCAK_BYTES \in Nat /\ SHA256_BYTES \in Nat
    /\ ModulusBytes \in Seq(Nat) /\ ComplexBytes \in Seq(Nat)
    /\ CurveBytes \in Seq(Nat)   /\ PairingBytes \in Seq(Nat)
    /\ \A i \in DOMAIN ModulusBytes : ModulusBytes[i] % 4 = 0
    /\ \A i \in DOMAIN PairingBytes : PairingBytes[i] % 4 = 0

VARIABLE io

vars == <<pc, x, pages, steps, result, io>>

TypeOK == CpuTypeOK /\ io \in IoStateType

\* The bytes of any number that is written in n bytes.
Number(n) == [1 .. n -> Byte]

-----------------------------------------------------------------------------
\* How the handler of a custom instruction ends.

\* It returns Continue having left cpu.pc at `next`: handle advances the
\* program counter unless the instruction seems to have moved it.
Handled(next) ==
    /\ pc' = IF next = pc THEN wrapping_add(pc, 4) ELSE next
    /\ Continue

NoEffect == Handled(pc) /\ UNCHANGED <<x, pages, io>>

CustomOpError == Return("CustomOp", pc) /\ UNCHANGED io
Panic         == Return("panic", pc) /\ UNCHANGED io

WriteMemory(addr, bytes) ==
    /\ pages' = write_slice(pages, addr, bytes)
    /\ UNCHANGED <<x, io>>
    /\ Handled(pc)

WriteNumber(addr, n) == \E r \in Number(n) : WriteMemory(addr, r)

WriteRegister(r, val) ==
    /\ x' = write_reg(r, val)
    /\ UNCHANGED <<pages, io>>
    /\ Handled(pc)

ChangeIo(new) ==
    /\ io' = new
    /\ UNCHANGED <<x, pages>>
    /\ Handled(pc)

Custom0(insn, funct3) == insn.opcode = CUSTOM_0 /\ insn.funct3 = funct3
Custom1(insn, funct3) == insn.opcode = CUSTOM_1 /\ insn.funct3 = funct3

-----------------------------------------------------------------------------
\* custom-0: termination, hints, output, phantoms.

Terminate(insn) ==
    /\ Custom0(insn, 0)
    /\ Return("ok", read_reg(insn.rs1))
    /\ UNCHANGED io

\* Both hint reads move n bytes from the hint stream to the address in rd.
TakeHint(insn, n) ==
    /\ pages' = write_slice(pages, read_reg(insn.rd), read_hint_bytes(io, n))
    /\ io' = after_read_hint(io, n)
    /\ UNCHANGED x
    /\ Handled(pc)

HintStorew(insn) == Custom0(insn, 1) /\ imm12(insn) = 0 /\ TakeHint(insn, 4)
HintBuffer(insn) == Custom0(insn, 1) /\ imm12(insn) = 1 /\ TakeHint(insn, 4 * read_reg(insn.rs1))
HintUnknown(insn) == Custom0(insn, 1) /\ imm12(insn) \notin {0, 1} /\ CustomOpError

Reveal(insn) ==
    /\ Custom0(insn, 2)
    /\ ChangeIo(write_output(io, wrapping_add(read_reg(insn.rd), imm12(insn)),
                             to_le_bytes(read_reg(insn.rs1))))

\* Mutant of HintInput: the stream is cleared before the queue is looked at.
HintInput_clears_first(insn) ==
    /\ Custom0(insn, 3) /\ imm12(insn) = 0
    /\ IF EndOfInputStream(io)
       THEN Return("CustomOp", pc) /\ io' = [io EXCEPT !.hint_stream = <<>>]
       ELSE ChangeIo(hint_input(io))

HintInput(insn) ==
    /\ Custom0(insn, 3) /\ imm12(insn) = 0
    /\ IF EndOfInputStream(io) THEN CustomOpError ELSE ChangeIo(hint_input(io))

\* Printing, and the phantoms that the interpreter ignores.
OtherPhantom(insn) == Custom0(insn, 3) /\ imm12(insn) # 0 /\ NoEffect

-----------------------------------------------------------------------------
\* custom-0: hashes, 256-bit integers.

Keccakf(insn) ==
    /\ Custom0(insn, 4) /\ insn.funct7 = 0
    /\ WriteNumber(read_reg(insn.rd), KECCAK_BYTES)

\* Mutant of xored: the loop runs from the last byte to the first.
xored_downward(dst, src, len) ==
    LET round(i) == wrapping_sub(wrapping_add(src, i), dst)
        s[i \in 0 .. len - 1] ==
           IF round(i) \in i + 1 .. len - 1
           THEN XorByte(read_u8(pages, wrapping_add(dst, round(i))), s[round(i)])
           ELSE read_u8(pages, wrapping_add(src, i))
    IN  [i \in 1 .. len |-> XorByte(read_u8(pages, wrapping_add(dst, i - 1)), s[i - 1])]

\* The loop that xors len bytes from src into dst, one at a time: a source
\* byte that an earlier round has written is read as written.
xored(dst, src, len) ==
    LET round(i) == wrapping_sub(wrapping_add(src, i), dst)   \* that wrote the source of round i
        s[i \in 0 .. len - 1] ==
           IF round(i) < i
           THEN XorByte(read_u8(pages, wrapping_add(dst, round(i))), s[round(i)])
           ELSE read_u8(pages, wrapping_add(src, i))
    IN  [i \in 1 .. len |-> XorByte(read_u8(pages, wrapping_add(dst, i - 1)), s[i - 1])]

Xorin(insn) ==
    /\ Custom0(insn, 4) /\ insn.funct7 = 1
    /\ WriteMemory(read_reg(insn.rd),
                   xored(read_reg(insn.rd), read_reg(insn.rs1), read_reg(insn.rs2)))

Sha256Compress(insn) ==
    /\ Custom0(insn, 4) /\ insn.funct7 = 2
    /\ WriteNumber(read_reg(insn.rd), SHA256_BYTES)

HashUnknown(insn) == Custom0(insn, 4) /\ insn.funct7 \notin {0, 1, 2} /\ CustomOpError

Int256(insn) ==
    /\ Custom0(insn, 5)
    /\ IF insn.funct7 \in 0 .. 10
       THEN WriteNumber(read_reg(insn.rd), UINT256_BYTES)
       ELSE CustomOpError

\* Mutant of beq256_target: the offset is taken without its bit 0.
beq256_target_halved(insn) ==
    IF read_vec(pages, read_reg(insn.rs1), UINT256_BYTES)
         = read_vec(pages, read_reg(insn.rs2), UINT256_BYTES)
    THEN wrapping_add(pc, imm_b(insn) \div 2)
    ELSE wrapping_add(pc, 4)

\* BEQ256 leaves its target in cpu.pc, and handle looks whether pc has moved.
beq256_target(insn) ==
    IF read_vec(pages, read_reg(insn.rs1), UINT256_BYTES)
         = read_vec(pages, read_reg(insn.rs2), UINT256_BYTES)
    THEN wrapping_add(pc, imm_b(insn))
    ELSE wrapping_add(pc, 4)

Beq256(insn) ==
    /\ Custom0(insn, 6)
    /\ Handled(beq256_target(insn))
    /\ UNCHANGED <<x, pages, io>>

NativeStorew(insn) == Custom0(insn, 7) /\ NoEffect

-----------------------------------------------------------------------------
\* custom-1: funct7 packs the index of a modulus, curve or pairing and the
\* operation on it.

entry_index(insn, kinds) == insn.funct7 \div kinds
base_op_of(insn, kinds)  == insn.funct7 % kinds

\* The size of the entry that funct7 names, when the table has it.
InTable(insn, table, kinds) == entry_index(insn, kinds) < Len(table)
size(insn, table, kinds)    == table[entry_index(insn, kinds) + 1]

\* An operation of a table: op, on an entry that exists.
TableOp(insn, funct3, table, kinds, ops) ==
    /\ Custom1(insn, funct3)
    /\ InTable(insn, table, kinds)
    /\ base_op_of(insn, kinds) \in ops

\* An index out of range or an operation that the dispatch does not know.
UnknownTableOp(insn, funct3, table, kinds, ops) ==
    /\ Custom1(insn, funct3)
    /\ InTable(insn, table, kinds) => base_op_of(insn, kinds) \notin ops
    /\ CustomOpError

Modular(insn, ops) == TableOp(insn, 0, ModulusBytes, 8, ops)
modulus_size(insn) == size(insn, ModulusBytes, 8)

\* Addition, multiplication; subtraction, which panics on some operands that
\* are not reduced; division, which refuses a divisor without inverse.
ModularArith(insn) ==
    /\ Modular(insn, {0, 1, 2, 3})
    /\ \/ WriteNumber(read_reg(insn.rd), modulus_size(insn))
       \/ base_op_of(insn, 8) = 1 /\ Panic
       \/ base_op_of(insn, 8) = 3 /\ CustomOpError

ModularIsEq(insn) ==
    /\ Modular(insn, {4})
    /\ \E eq \in {0, 1} : WriteRegister(insn.rd, eq)

ModularSetup(insn) == Modular(insn, {5}) /\ NoEffect

HintNonQr(insn) ==
    /\ Modular(insn, {6})
    /\ \E r \in Number(modulus_size(insn)) : ChangeIo(replace_hint_stream(io, r))

\* A flag word, 1 for a square, and the root.
HintSqrt(insn) ==
    /\ Modular(insn, {7})
    /\ \E flag \in {0, 1}, r \in Number(modulus_size(insn)) :
          ChangeIo(replace_hint_stream(io, <<flag, 0, 0, 0>> \o r))

ModularUnknown(insn) == UnknownTableOp(insn, 0, ModulusBytes, 8, 0 .. 7)

Complex(insn, ops) == TableOp(insn, 2, ComplexBytes, 8, ops)

ComplexArith(insn) ==
    /\ Complex(insn, {0, 1, 2, 3})
    /\ \/ WriteNumber(read_reg(insn.rd), 2 * size(insn, ComplexBytes, 8))
       \/ base_op_of(insn, 8) \in {1, 3} /\ Panic
       \/ base_op_of(insn, 8) = 3 /\ CustomOpError

ComplexIsEq(insn) ==
    /\ Complex(insn, {4})
    /\ \E eq \in {0, 1} : WriteRegister(insn.rd, eq)

ComplexSetup(insn) == Complex(insn, {5}) /\ NoEffect

ComplexUnknown(insn) == UnknownTableOp(insn, 2, ComplexBytes, 8, 0 .. 5)

-----------------------------------------------------------------------------
\* custom-1: curves and pairings.

Curve(insn, ops) == TableOp(insn, 1, CurveBytes, 8, ops)

\* Addition panics on equal x, doubling on y = 0.
CurveArith(insn) ==
    /\ Curve(insn, {0, 1})
    /\ \/ WriteNumber(read_reg(insn.rd), 2 * size(insn, CurveBytes, 8))
       \/ Panic

CurveSetup(insn) == Curve(insn, {2}) /\ NoEffect

\* Decompression gives up on an x that is on no point.
CurveHint(insn) ==
    /\ Curve(insn, {3, 4})
    /\ \/ WriteNumber(read_reg(insn.rd), size(insn, CurveBytes, 8))
       \/ base_op_of(insn, 8) = 3 /\ CustomOpError

CurveUnknown(insn) == UnknownTableOp(insn, 1, CurveBytes, 8, 0 .. 4)

\* The lengths of the two lists of points, second word of each descriptor.
p_len(insn) == read_u32(pages, wrapping_add(read_reg(insn.rs1), 4))
q_len(insn) == read_u32(pages, wrapping_add(read_reg(insn.rs2), 4))

\* The residue witness: two Fp12 elements behind what the stream holds; two
\* ones for no points.  A Miller loop that comes to zero has no inverse, and
\* the code panics.
HintFinalExp(insn) ==
    /\ TableOp(insn, 3, PairingBytes, 16, {0})
    /\ IF p_len(insn) # q_len(insn) THEN CustomOpError
       ELSE \/ \E c, u \in Number(size(insn, PairingBytes, 16)) :
                  /\ p_len(insn) = 0 => c = u
                  /\ ChangeIo(extend_hint_stream(io, c \o u))
            \/ p_len(insn) # 0 /\ Panic

PairingUnknown(insn) == UnknownTableOp(insn, 3, PairingBytes, 16, {0})

Custom1Unknown(insn) ==
    /\ insn.opcode = CUSTOM_1
    /\ insn.funct3 \notin {0, 1, 2, 3}
    /\ CustomOpError

-----------------------------------------------------------------------------
CustomStep(insn) ==
    \/ Terminate(insn)
    \/ HintStorew(insn) \/ HintBuffer(insn) \/ HintUnknown(insn)
    \/ Reveal(insn) \/ HintInput(insn) \/ OtherPhantom(insn)
    \/ Keccakf(insn) \/ Xorin(insn) \/ Sha256Compress(insn) \/ HashUnknown(insn)
    \/ Int256(insn) \/ Beq256(insn) \/ NativeStorew(insn)
    \/ ModularArith(insn) \/ ModularIsEq(insn) \/ ModularSetup(insn)
    \/ HintNonQr(insn) \/ HintSqrt(insn) \/ ModularUnknown(insn)
    \/ ComplexArith(insn) \/ ComplexIsEq(insn) \/ ComplexSetup(insn) \/ ComplexUnknown(insn)
    \/ CurveArith(insn) \/ CurveSetup(insn) \/ CurveHint(insn) \/ CurveUnknown(insn)
    \/ HintFinalExp(insn) \/ PairingUnknown(insn) \/ Custom1Unknown(insn)

Init ==
    /\ CpuInit
    /\ \E queue \in InputQueues : io = with_input_streams(queue)

Step(insn) ==
    /\ Fetched(insn)
    /\ \/ BaseStep(insn) /\ UNCHANGED io
       \/ CustomStep(insn)

\* The instruction may be any that the word at pc stands for.
Run == \E insn \in Decoded[read_u32(pages, pc)] : Step(insn)

Next == Run \/ (StepLimit /\ UNCHANGED io)

\* The interpreter is one thread that goes from step to step until run
\* returns: weak fairness of the loop is all it needs.
Spec == Init /\ [][Next]_vars /\ WF_vars(Next)

-----------------------------------------------------------------------------
\* No word of the hint stream is ever torn: whatever the guest reads, asks or
\* leaves unread, in any order, the next HINT_STOREW starts where a word that
\* the host pushed starts, and gets four bytes of it or, at the end, none.
HintAligned == Len(io.hint_stream) % 4 = 0

\* A program entered at an even address never gets to an odd one: not by
\* JALR, by a branch, by BEQ256 or around the top of memory.
PcEven == Entry % 2 = 0 => pc % 2 = 0

\* run completes max_steps instructions at most, and it gives up with
\* StepLimitExceeded only when it has completed as many.
StepBudget ==
    /\ steps <= MaxSteps
    /\ result.kind = "StepLimitExceeded" => steps = MaxSteps

\* An instruction that ends the run, well or badly, has done nothing else: the
\* registers, the memory, the streams and the output are as it found them, and
\* the program counter that an error reports is its own.
StopsInPlace ==
    [][ result'.kind # "running"
          => /\ UNCHANGED <<pc, x, pages, steps, io>>
             /\ result'.kind # "ok" => result'.val = pc ]_vars

\* Streams leave the queue from the front, one at a time; and when one does,
\* the guest's next word is its length: no hint, leftover byte or padding
\* stands before it.
StreamsInOrder ==
    [][ io'.input_streams # io.input_streams
          => /\ io.input_streams # <<>>
             /\ io'.input_streams = Tail(io.input_streams)
             /\ from_le_bytes(read_hint_bytes(io', 4))
                  = Len(Head(io.input_streams)) % WordSize
             /\ Len(io'.hint_stream) - 4 - Len(Head(io.input_streams)) \in 0 .. 3 ]_vars

\* The public output is only added to and overwritten: it never gets shorter,
\* a step changes at most the four bytes of one REVEAL, and what lies between
\* the old end and those bytes is zero.
OutputOnlyRevealed ==
    [][ io'.output # io.output
          => /\ Len(io'.output) >= Len(io.output)
             /\ \E off \in 0 .. WordSize - 1 :
                  \A i \in DOMAIN io'.output \ (off + 1 .. off + 4) :
                     io'.output[i] = IF i \in DOMAIN io.output THEN io.output[i] ELSE 0 ]_vars

\* "XOR len bytes from [rs1] into [rd]" (README, XORIN), though the loop reads
\* and writes one byte at a time: unless the destination starts behind the first
\* byte of the source and within it, each byte of the destination is xored with
\* what the source held before the instruction, a source that starts inside of
\* the destination and ranges around the top of memory included; and never is a
\* byte outside of the destination touched.
XorinXors ==
    [][ \A insn \in Decoded[read_u32(pages, pc)] :
          Xorin(insn)
          => LET dst == read_reg(insn.rd)
                 src == read_reg(insn.rs1)
                 len == read_reg(insn.rs2)
             IN  /\ Distance(src, dst) \notin 1 .. len - 1
                    => \A i \in 0 .. len - 1 :
                          read_u8(pages', wrapping_add(dst, i))
                            = XorByte(read_u8(pages, wrapping_add(dst, i)),
                                      read_u8(pages, wrapping_add(src, i)))
                 /\ \A a \in Word :
                       Distance(dst, a) >= len => read_u8(pages', a) = read_u8(pages, a) ]_vars

\* Every run returns: by itself, with an error, or on the step budget.
Halts == <>(result.kind # "running")

-----------------------------------------------------------------------------
\* Three sentences of the documentation, as action properties.

\* "PC is set to pc + imm_b if equal, otherwise pc + 4" (int256.rs, BEQ256).
Beq256TakesBranch ==
    [][ \A insn \in Decoded[read_u32(pages, pc)] :
          /\ Beq256(insn)
          /\ read_vec(pages, read_reg(insn.rs1), UINT256_BYTES)
               = read_vec(pages, read_reg(insn.rs2), UINT256_BYTES)
          => pc' = wrapping_add(pc, imm_b(insn)) ]_vars

\* "HintNonQr / HintSqrt append to hint_stream without clearing" (README).
HintsAppend ==
    [][ \A insn \in Decoded[read_u32(pages, pc)] :
          HintNonQr(insn) \/ HintSqrt(insn)
          => /\ Len(io'.hint_stream) >= Len(io.hint_stream)
             /\ SubSeq(io'.hint_stream, 1, Len(io.hint_stream)) = io.hint_stream ]_vars
=============================================================================
