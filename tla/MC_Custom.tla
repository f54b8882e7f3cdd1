------------------------------ MODULE MC_Custom ------------------------------
(* Every program of up to MaxSteps of the custom instructions: those that   *)
(* read, fill or overwrite the hint stream, publish output or end the run,  *)
(* and those that compute, with indices and operations the tables lack.     *)
EXTENDS PrecompileHandler

R(op, d, f3, a, b, f7) ==
    [opcode |-> op, rd |-> d, funct3 |-> f3, rs1 |-> a, rs2 |-> b, funct7 |-> f7]

Streams ==
    { R(OP_IMM, 5, 0, 5, 1, 0), R(OP_IMM, 6, 0, 5, 2, 0), R(OP_IMM, 6, 0, 0, 28, 127),
      R(CUSTOM_0, 0, 0, 5, 0, 0),                               \* terminate with x5
      R(CUSTOM_0, 6, 1, 0, 0, 0), R(CUSTOM_0, 6, 1, 5, 1, 0),   \* storew, buffer to (x6)
      R(CUSTOM_0, 6, 1, 5, 2, 0),
      R(CUSTOM_0, 5, 2, 6, 0, 0), R(CUSTOM_0, 5, 2, 6, 3, 0),   \* reveal x6 at x5, x5 + 3
      R(CUSTOM_0, 0, 3, 0, 0, 0), R(CUSTOM_0, 0, 3, 0, 1, 0),   \* hint_input, print
      R(CUSTOM_1, 0, 0, 0, 0, 6), R(CUSTOM_1, 0, 0, 0, 0, 7),   \* modular hints
      R(CUSTOM_1, 0, 3, 5, 6, 0), R(CUSTOM_1, 0, 3, 5, 6, 1),   \* pairings
      R(CUSTOM_0, 6, 4, 0, 6, 1), R(CUSTOM_0, 6, 4, 5, 6, 1),   \* xorin (x0), (x5) into (x6)
      R(CUSTOM_0, 14, 6, 5, 6, 0), R(CUSTOM_0, 31, 6, 5, 6, 127), \* beq256 +14, -2
      R(JAL, 5, 7, 31, 29, 127), R(JAL, 6, 7, 31, 29, 127) }    \* jal x5, -4; jal x6, -4

Computing ==
    { R(CUSTOM_0, 5, 4, 0, 0, 0),                                \* keccakf
      R(CUSTOM_0, 5, 4, 6, 6, 2), R(CUSTOM_0, 5, 4, 6, 6, 3),
      R(CUSTOM_0, 5, 5, 5, 6, 10), R(CUSTOM_0, 5, 5, 5, 6, 11),   \* 256-bit integers
      R(CUSTOM_0, 0, 7, 0, 0, 0),
      R(CUSTOM_1, 5, 0, 5, 6, 1), R(CUSTOM_1, 5, 0, 5, 6, 3),     \* modular
      R(CUSTOM_1, 5, 0, 5, 6, 4), R(CUSTOM_1, 5, 0, 5, 6, 5), R(CUSTOM_1, 5, 0, 5, 6, 8),
      R(CUSTOM_1, 5, 1, 5, 6, 0), R(CUSTOM_1, 5, 1, 5, 6, 2),     \* curves
      R(CUSTOM_1, 5, 1, 5, 6, 3), R(CUSTOM_1, 5, 1, 5, 6, 5),
      R(CUSTOM_1, 5, 2, 5, 6, 1), R(CUSTOM_1, 5, 2, 5, 6, 3),     \* Fp2
      R(CUSTOM_1, 6, 2, 5, 6, 4), R(CUSTOM_1, 5, 2, 5, 6, 5), R(CUSTOM_1, 5, 2, 5, 6, 6),
      R(CUSTOM_1, 0, 4, 0, 0, 0) }

\* The program starts at 4 and jumps to 0 for an instruction that computes.
MCDecoded     == [w \in Word |-> IF w = 5 THEN Computing ELSE Streams]
MCSegments    == << [vaddr |-> 0, data |-> <<1, 0, 1>>], [vaddr |-> 11, data |-> <<1>>] >>
MCInputQueues == { << >>, << <<1>> >>, << <<1, 0, 1, 1>>, << >> >>, << <<0, 1, 1>>, <<1, 1>> >> }
Sizes1        == <<1>>
Sizes4        == <<4>>
=============================================================================
