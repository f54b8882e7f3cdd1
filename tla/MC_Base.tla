------------------------------ MODULE MC_Base ------------------------------
(* Every program of up to MaxSteps of the base instructions below.          *)
EXTENDS PrecompileHandler

I(op, d, f3, a, b, f7) ==
    [opcode |-> op, rd |-> d, funct3 |-> f3, rs1 |-> a, rs2 |-> b, funct7 |-> f7]

Insns ==
    { I(LUI, 5, 1, 0, 0, 0), I(AUIPC, 6, 3, 0, 0, 0),
      I(JAL, 1, 0, 0, 6, 0),                              \* jal x1, +6
      I(JALR, 1, 0, 5, 3, 0), I(JALR, 5, 0, 5, 31, 127),  \* jalr x1, 3(x5); jalr x5, -1(x5)
      I(BRANCH, 10, 0, 5, 0, 0), I(BRANCH, 29, 1, 5, 6, 127),
      I(BRANCH, 6, 4, 5, 6, 0), I(BRANCH, 6, 5, 6, 5, 0),
      I(BRANCH, 6, 6, 6, 5, 0), I(BRANCH, 14, 7, 5, 6, 0),
      I(LOAD, 6, 0, 5, 0, 0), I(LOAD, 6, 1, 5, 3, 0), I(LOAD, 5, 2, 5, 0, 0),
      I(LOAD, 5, 4, 6, 1, 0), I(LOAD, 5, 5, 6, 2, 0),
      I(STORE, 0, 0, 5, 6, 0), I(STORE, 1, 1, 5, 6, 0), I(STORE, 0, 2, 6, 5, 0),
      I(OP_IMM, 5, 0, 5, 3, 0), I(OP_IMM, 6, 0, 0, 31, 127), I(OP_IMM, 5, 5, 6, 1, 32),
      I(OP, 5, 0, 5, 6, 0), I(OP, 6, 4, 6, 5, 1), I(OP, 6, 0, 5, 6, 32),
      I(MISC_MEM, 0, 0, 0, 0, 0), I(SYSTEM, 0, 0, 0, 0, 0), I(SYSTEM, 0, 0, 0, 1, 0),
      I(SYSTEM, 0, 1, 0, 0, 0), I(OP_IMM, 5, 5, 5, 1, 1), I(0, 0, 0, 0, 0, 0),
      I(CUSTOM_0, 0, 6, 5, 6, 0) }                        \* beq256 x5, x6, 0

MCDecoded  == [w \in Word |-> Insns]
MCSegments == << [vaddr |-> 4, data |-> <<1, 0, 1, 1, 0>>], [vaddr |-> 7, data |-> <<0, 1>>] >>
MCInputQueues == { << >> }
NoBytes == << >>
=============================================================================
