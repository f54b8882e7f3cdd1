----------------------------- MODULE EchoGuest -----------------------------
(***************************************************************************)
(* The guest program of tests/fixtures/echo-guest, run by the interpreter   *)
(* from its first instruction to its last: the machine of PrecompileHandler *)
(* with this program in its memory.  main is written out as the             *)
(* instructions a compiler makes of it, each helper being the one           *)
(* instruction of its asm!; each word of the program stands for one of them.*)
(***************************************************************************)
EXTENDS PrecompileHandler

CONSTANT StackTop    \* the address _stack_top

i_type(op, d, f3, a, imm) ==
    [opcode |-> op, rd |-> d, funct3 |-> f3, rs1 |-> a,
     rs2 |-> imm % 32, funct7 |-> (imm \div 32) % 128]

addi(d, a, imm) == i_type(OP_IMM, d, 0, a, imm)
add(d, a, b)    == [opcode |-> OP, rd |-> d, funct3 |-> 0, rs1 |-> a, rs2 |-> b, funct7 |-> 0]
lw(d, imm, a)   == i_type(LOAD, d, 2, a, imm)
sw(b, imm, a)   == [opcode |-> STORE, rd |-> imm, funct3 |-> 2, rs1 |-> a, rs2 |-> b, funct7 |-> 0]

\* A branch k words back, 1 <= k <= 7.
bne_back(a, b, k) == [opcode |-> BRANCH, rd |-> 33 - 4 * k, funct3 |-> 1,
                      rs1 |-> a, rs2 |-> b, funct7 |-> 127]

guest_hint_input   == i_type(CUSTOM_0, 0, 3, 0, 0)
hint_storew(dst)   == i_type(CUSTOM_0, dst, 1, 0, 0)
reveal(off, value) == i_type(CUSTOM_0, off, 2, value, 0)
terminate          == i_type(CUSTOM_0, 0, 0, 0, 0)

\* sp = x2, i * 4 = x5, the loop's bound = x6, pointers = x10, values = x11.
Program ==
    << addi(2, 0, StackTop),
       guest_hint_input,
       addi(10, 2, -4), sw(0, 0, 10), hint_storew(10),            \* len_word
       addi(2, 2, -20),                                           \* buf = [0; 4]
       sw(0, 0, 2), sw(0, 4, 2), sw(0, 8, 2), sw(0, 12, 2),
       addi(5, 0, 0), addi(6, 0, 16),
       add(10, 2, 5), hint_storew(10), addi(5, 5, 4), bne_back(5, 6, 3),
       addi(5, 0, 0),
       add(10, 2, 5), lw(11, 0, 10), reveal(5, 11), addi(5, 5, 4), bne_back(5, 6, 4),
       terminate >>

unimp == [opcode |-> 0, rd |-> 0, funct3 |-> 0, rs1 |-> 0, rs2 |-> 0, funct7 |-> 0]

\* The word n stands for the n-th instruction.
EchoDecoded  == [w \in Word |-> {IF w \in DOMAIN Program THEN Program[w] ELSE unimp}]
EchoSegments ==
    << [vaddr |-> 0,
        data  |-> [i \in 1 .. 4 * Len(Program) |->
                     to_le_bytes((i + 3) \div 4)[1 + ((i - 1) % 4)]]] >>

\* The machine holds the echo guest, which may also be one that fails at some
\* instruction, with room for its stack between the program and StackTop; the
\* one instruction that stands for `la sp, _stack_top` reaches StackTop.
EchoLoaded ==
    /\ \A w \in DOMAIN Program : Decoded[w] \subseteq {Program[w], unimp}
    /\ Segments = EchoSegments /\ Entry = 0
    /\ StackTop \in Word /\ StackTop \in 4 * Len(Program) + 20 .. 2047

-----------------------------------------------------------------------------
Echoed == 16   \* four words

\* The echo test of the README: whatever the host queued, the guest stops
\* with exit code 0 and the public output is the first 16 bytes of the first
\* entry, zeros after its end; the length word is not echoed, and with no
\* entry the run fails and publishes nothing.
EchoesInput ==
    \A queue \in InputQueues :
       (io = with_input_streams(queue)) =>
          <>[](IF queue = <<>>
               THEN result = [kind |-> "CustomOp", val |-> 4] /\ io.output = <<>>
               ELSE /\ result = [kind |-> "ok", val |-> 0]
                    /\ io.output = [i \in 1 .. Echoed |->
                                      IF i <= Len(Head(queue)) THEN Head(queue)[i] ELSE 0])
=============================================================================
