-------------------------------- MODULE Cpu --------------------------------
(***************************************************************************)
(* The RV32IM processor (crates/rv32im/src/cpu.rs): the registers, the      *)
(* memory, the program counter, the run loop with its step budget, and one  *)
(* action for each group of instructions.  The instructions of the two      *)
(* custom opcodes are actions of the module that handles them.              *)
(***************************************************************************)
EXTENDS Memory, Alu

CONSTANTS
    Decoded,    \* the instructions that a word of memory may stand for
    MaxSteps,   \* the max_steps argument of run
    Entry,      \* the entry point of the program
    Segments    \* the segments of the program, [vaddr, data], in file order

\* In the program Decoded[w] is the one record of the bit fields of w.  A
\* model may leave it open, so that it covers every program at once.
ASSUME ProgramAssumption ==
    /\ Decoded \in [Word -> SUBSET Insn]
    /\ MaxSteps \in Nat
    /\ Entry \in Word
    /\ Segments \in Seq([vaddr : Word, data : Seq(Byte)])

VARIABLES
    pc, x, pages,   \* program counter, registers, memory
    steps,          \* instructions completed
    result          \* what run has returned: its kind and the value with it

cpuVars == <<pc, x, pages, steps, result>>

Kind == { "running", "ok", "IllegalInstruction", "EBreak", "ECall",
          "StepLimitExceeded", "CustomOp", "panic" }

CpuTypeOK ==
    /\ pc \in Word
    /\ x \in [0 .. 31 -> Word]
    /\ pages \in PageTable
    /\ steps \in Nat
    /\ result \in [kind : Kind, val : Word]

-----------------------------------------------------------------------------
\* Loading: each segment is copied in turn, so that of two segments that
\* cover an address the later one stays.  What no segment covers is zero.

Covers(seg, a) == Distance(seg.vaddr, a) < Len(seg.data)

LastCovering(a) ==
    LET C == { k \in DOMAIN Segments : Covers(Segments[k], a) }
    IN  CHOOSE k \in C : \A j \in C : j <= k

Image ==
    [idx \in UNION { PagesFrom(Segments[k].vaddr, Len(Segments[k].data)) :
                        k \in DOMAIN Segments } |->
       [off \in PageOffsets |->
          LET a == idx * PageSize + off
          IN  IF \E k \in DOMAIN Segments : Covers(Segments[k], a)
              THEN Segments[LastCovering(a)].data[Distance(Segments[LastCovering(a)].vaddr, a) + 1]
              ELSE 0]]

DEFAULT_STACK_TOP == WordSize - 16

CpuInit ==
    /\ pc = Entry
    /\ x = [r \in 0 .. 31 |-> IF r = 2 THEN DEFAULT_STACK_TOP ELSE 0]
    /\ pages = Image
    /\ steps = 0
    /\ result = [kind |-> "running", val |-> 0]

-----------------------------------------------------------------------------
\* Registers and the run loop.

read_reg(r)       == IF r = 0 THEN 0 ELSE x[r]
write_reg(r, val) == IF r = 0 THEN x ELSE [x EXCEPT ![r] = val]

Running == result.kind = "running"

\* Mutant of Fetched: <= for < in the budget.
Fetched_late(insn) ==
    /\ Running
    /\ steps <= MaxSteps
    /\ insn \in Decoded[read_u32(pages, pc)]

\* The loop is about to execute insn: the budget allows a step and insn is
\* what the word at pc stands for.
Fetched(insn) ==
    /\ Running
    /\ steps < MaxSteps
    /\ insn \in Decoded[read_u32(pages, pc)]

\* step returns Continue and the loop counts it.
Continue == steps' = steps + 1 /\ UNCHANGED result

\* Mutant of Return: the step that ends the run is counted.
Return_counted(kind, val) ==
    /\ result' = [kind |-> kind, val |-> val]
    /\ steps' = steps + 1
    /\ UNCHANGED <<pc, x, pages>>

\* step returns an error, or the handler Terminated: run returns at once, and
\* the step is not counted.
Return(kind, val) ==
    /\ result' = [kind |-> kind, val |-> val]
    /\ UNCHANGED <<pc, x, pages, steps>>

\* Mutant of StepLimit: > for >=.
StepLimit_missed ==
    /\ Running
    /\ steps > MaxSteps
    /\ Return("StepLimitExceeded", pc)

StepLimit ==
    /\ Running
    /\ steps >= MaxSteps
    /\ Return("StepLimitExceeded", pc)

\* The next instruction, after one that only writes register r.
SetReg(r, val) ==
    /\ x' = write_reg(r, val)
    /\ pc' = wrapping_add(pc, 4)
    /\ UNCHANGED pages
    /\ Continue

-----------------------------------------------------------------------------
\* Upper immediates, jumps and branches.

Lui(insn)   == insn.opcode = LUI   /\ SetReg(insn.rd, imm_u(insn))

\* Mutant of Auipc: a sum that does not wrap.
Auipc_unwrapped(insn) == insn.opcode = AUIPC /\ SetReg(insn.rd, pc + imm_u(insn))

Auipc(insn) == insn.opcode = AUIPC /\ SetReg(insn.rd, wrapping_add(pc, imm_u(insn)))

\* The link register gets the address behind the jump.
JumpTo(insn, target) ==
    /\ x' = write_reg(insn.rd, wrapping_add(pc, 4))
    /\ pc' = target
    /\ UNCHANGED pages
    /\ Continue

\* Mutant of clear_bit0: bit 0 is left.
keep_bit0(w) == w

clear_bit0(w) == w - (w % 2)

Jal(insn)  == insn.opcode = JAL /\ JumpTo(insn, wrapping_add(pc, imm_j(insn)))
Jalr(insn) ==
    /\ insn.opcode = JALR
    /\ JumpTo(insn, clear_bit0(wrapping_add(read_reg(insn.rs1), imm_i(insn))))

Branch(insn) ==
    /\ insn.opcode = BRANCH
    /\ insn.funct3 \in {0, 1, 4, 5, 6, 7}
    /\ pc' = wrapping_add(pc, IF taken(insn.funct3, read_reg(insn.rs1), read_reg(insn.rs2))
                              THEN imm_b(insn) ELSE 4)
    /\ UNCHANGED <<x, pages>>
    /\ Continue

-----------------------------------------------------------------------------
\* Loads and stores.

loaded(funct3, addr) ==
    CASE funct3 = 0 -> Unsigned(SignedIn(read_u8(pages, addr), ByteSize))    \* LB
      [] funct3 = 1 -> Unsigned(SignedIn(read_u16(pages, addr), HalfSize))   \* LH
      [] funct3 = 2 -> read_u32(pages, addr)                                 \* LW
      [] funct3 = 4 -> read_u8(pages, addr)                                  \* LBU
      [] funct3 = 5 -> read_u16(pages, addr)                                 \* LHU

Load(insn) ==
    /\ insn.opcode = LOAD
    /\ insn.funct3 \in {0, 1, 2, 4, 5}
    /\ SetReg(insn.rd, loaded(insn.funct3, wrapping_add(read_reg(insn.rs1), imm_i(insn))))

stored(funct3, addr, val) ==
    CASE funct3 = 0 -> write_u8(pages, addr, val % ByteSize)     \* SB
      [] funct3 = 1 -> write_u16(pages, addr, val % HalfSize)    \* SH
      [] funct3 = 2 -> write_u32(pages, addr, val)               \* SW

Store(insn) ==
    /\ insn.opcode = STORE
    /\ insn.funct3 \in {0, 1, 2}
    /\ pages' = stored(insn.funct3, wrapping_add(read_reg(insn.rs1), imm_s(insn)),
                       read_reg(insn.rs2))
    /\ pc' = wrapping_add(pc, 4)
    /\ UNCHANGED x
    /\ Continue

-----------------------------------------------------------------------------
\* Register-register and register-immediate instructions.

OpLegal(insn) == \/ insn.funct7 \in {0, 1}
                 \/ insn.funct7 = 32 /\ insn.funct3 \in {0, 5}

Op(insn) ==
    /\ insn.opcode = OP
    /\ OpLegal(insn)
    /\ SetReg(insn.rd, op_value(insn.funct7, insn.funct3,
                                read_reg(insn.rs1), read_reg(insn.rs2)))

\* SLLI ignores funct7, SRLI and SRAI are told apart by it.
OpImmLegal(insn) == insn.funct3 = 5 => insn.funct7 \in {0, 32}

OpImm(insn) ==
    /\ insn.opcode = OP_IMM
    /\ OpImmLegal(insn)
    /\ SetReg(insn.rd, op_imm_value(insn, read_reg(insn.rs1)))

-----------------------------------------------------------------------------
\* Fences, system calls, and what is no instruction.

Fence(insn) == insn.opcode = MISC_MEM /\ SetReg(0, 0)

ECall(insn) ==
    /\ insn.opcode = SYSTEM /\ insn.funct3 = 0 /\ imm12(insn) = 0
    /\ Return("ECall", pc)

EBreak(insn) ==
    /\ insn.opcode = SYSTEM /\ insn.funct3 = 0 /\ imm12(insn) = 1
    /\ Return("EBreak", pc)

Illegal(insn) ==
    \/ insn.opcode \notin { LUI, AUIPC, JAL, JALR, BRANCH, LOAD, STORE, OP_IMM, OP,
                            MISC_MEM, SYSTEM, CUSTOM_0, CUSTOM_1 }
    \/ insn.opcode = BRANCH /\ insn.funct3 \notin {0, 1, 4, 5, 6, 7}
    \/ insn.opcode = LOAD   /\ insn.funct3 \notin {0, 1, 2, 4, 5}
    \/ insn.opcode = STORE  /\ insn.funct3 \notin {0, 1, 2}
    \/ insn.opcode = OP_IMM /\ ~OpImmLegal(insn)
    \/ insn.opcode = OP     /\ ~OpLegal(insn)
    \/ insn.opcode = SYSTEM /\ ~(insn.funct3 = 0 /\ imm12(insn) \in {0, 1})

IllegalInstruction(insn) == Illegal(insn) /\ Return("IllegalInstruction", pc)

-----------------------------------------------------------------------------
\* One step of an instruction of the base set.
BaseStep(insn) ==
    \/ Lui(insn) \/ Auipc(insn)
    \/ Jal(insn) \/ Jalr(insn) \/ Branch(insn)
    \/ Load(insn) \/ Store(insn)
    \/ Op(insn) \/ OpImm(insn)
    \/ Fence(insn) \/ ECall(insn) \/ EBreak(insn) \/ IllegalInstruction(insn)
=============================================================================
