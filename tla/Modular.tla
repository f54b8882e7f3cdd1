------------------------------ MODULE Modular ------------------------------
(***************************************************************************)
(* The modular precompiles of modular.rs (do_mod_op): a client that holds   *)
(* numbers of limb_bytes bytes in cells and lets the instructions combine   *)
(* them, reduced or not.                                                    *)
(***************************************************************************)
EXTENDS ModArith

CONSTANT Cell

VARIABLES
    cells,      \* the numbers in the guest's buffers
    equal,      \* the register that IsEqMod writes
    insn,       \* the instruction executed last: operation, destination, operands
    outcome     \* "running", or how the run ended

vars == <<cells, equal, insn, outcome>>

Issue(op, out, a, b) == outcome = "running" /\ insn' = <<op, out, a, b>>

Write(out, r) == cells' = [cells EXCEPT ![out] = r] /\ UNCHANGED <<equal, outcome>>
End(kind)     == outcome' = kind /\ UNCHANGED <<cells, equal>>

MOD_ADD(out, a, b) ==
    /\ Issue("add", out, a, b)
    /\ Write(out, (cells[a] + cells[b]) % P)

MOD_SUB(out, a, b) ==
    /\ Issue("sub", out, a, b)
    /\ IF sub_underflows(cells[a], cells[b]) THEN End("panic")
       ELSE Write(out, mod_sub(cells[a], cells[b]))

MOD_MUL(out, a, b) ==
    /\ Issue("mul", out, a, b)
    /\ Write(out, (cells[a] * cells[b]) % P)

\* Mutant of MOD_DIV: a divisor is refused when it is zero, not when it is
\* zero modulo p.
MOD_DIV_nonzero(out, a, b) ==
    /\ Issue("div", out, a, b)
    /\ IF cells[b] # 0 THEN Write(out, (cells[a] * mod_inv(cells[b])) % P)
       ELSE End("CustomOp")

MOD_DIV(out, a, b) ==
    /\ Issue("div", out, a, b)
    /\ IF invertible(cells[b]) THEN Write(out, (cells[a] * mod_inv(cells[b])) % P)
       ELSE End("CustomOp")

\* The result goes to a register: no cell is named.
MOD_ISEQ(a, b) ==
    /\ Issue("iseq", a, a, b)
    /\ equal' = IF cells[a] % P = cells[b] % P THEN 1 ELSE 0
    /\ UNCHANGED <<cells, outcome>>

Init ==
    /\ cells \in [Cell -> Number]
    /\ equal = 0
    /\ insn = <<>>
    /\ outcome = "running"

Next == \E out, a, b \in Cell :
           \/ MOD_ADD(out, a, b) \/ MOD_SUB(out, a, b) \/ MOD_MUL(out, a, b)
           \/ MOD_DIV(out, a, b) \/ MOD_ISEQ(a, b)

Spec == Init /\ [][Next]_vars

-----------------------------------------------------------------------------
Plus(m, n)  == (m + n) % P
Minus(m, n) == (m - n) % P
Times(m, n) == (m * n) % P

IntegersModP == INSTANCE FieldCells WITH
    Element <- Field, Zero <- 0,
    val <- [c \in Cell |-> cells[c] % P],
    canonical <- { c \in Cell : cells[c] \in Field }
=============================================================================
