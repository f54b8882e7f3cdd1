------------------------------ MODULE Decode ------------------------------
(***************************************************************************)
(* The instruction decoder (crates/rv32im/src/decode.rs).  An instruction   *)
(* is the record of the bit fields that the R format cuts it into; the      *)
(* immediates of the other formats are made of the same bits.               *)
(***************************************************************************)
EXTENDS Word

CONSTANT UpperUnit   \* weight of the lowest bit of a U-type immediate: 2^12

ASSUME UpperAssumption == UpperUnit \in Nat

Insn == [opcode : 0 .. 127, rd : 0 .. 31, funct3 : 0 .. 7,
         rs1 : 0 .. 31, rs2 : 0 .. 31, funct7 : 0 .. 127]

LUI      == 55
AUIPC    == 23
JAL      == 111
JALR     == 103
BRANCH   == 99
LOAD     == 3
STORE    == 35
OP_IMM   == 19
OP       == 51
MISC_MEM == 15
SYSTEM   == 115
CUSTOM_0 == 11
CUSTOM_1 == 43

\* Bit 31 is the sign of every immediate.
sign(insn) == insn.funct7 \div 64

\* The twelve bits of an I-type immediate, and their sign extension.
imm12(insn) == insn.funct7 * 32 + insn.rs2
imm_i(insn) == Unsigned(SignedIn(imm12(insn), 4096))

imm_s(insn) == Unsigned(SignedIn(insn.funct7 * 32 + insn.rd, 4096))

\* Branch and jump offsets have no bit 0.
imm_b(insn) ==
    Unsigned(2 * (-2048 * sign(insn) + 1024 * (insn.rd % 2)
                  + 16 * (insn.funct7 % 64) + (insn.rd \div 2)))

imm_j(insn) ==
    Unsigned(2 * (-524288 * sign(insn) + 2048 * (8 * insn.rs1 + insn.funct3)
                  + 1024 * (insn.rs2 % 2)
                  + 16 * (insn.funct7 % 64) + (insn.rs2 \div 2)))

imm_u(insn) ==
    Unsigned(UpperUnit * (8192 * insn.funct7 + 256 * insn.rs2
                          + 8 * insn.rs1 + insn.funct3))

shamt(insn) == insn.rs2 % XLEN
=============================================================================
