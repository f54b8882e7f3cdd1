----------------------------- MODULE FieldCells -----------------------------
(***************************************************************************)
(* What the modular and the Fp2 precompiles promise: cells that stand for   *)
(* elements of a field, and the four operations and the comparison of it.   *)
(* A cell need not hold the canonical representative of its element, but    *)
(* every result is one, and as long as the operands are canonical an        *)
(* operation can fail in one way only: by dividing by zero.                 *)
(***************************************************************************)
EXTENDS Naturals

CONSTANTS Cell, Element, Zero, Plus(_, _), Minus(_, _), Times(_, _)

VARIABLES val, canonical, equal, insn, outcome

vars == <<val, canonical, equal, insn, outcome>>

Put(out, v) ==
    /\ val' = [val EXCEPT ![out] = v]
    /\ canonical' = canonical \cup {out}
    /\ UNCHANGED <<equal, outcome>>

Fail(kind) == outcome' = kind /\ UNCHANGED <<val, canonical, equal>>

Divide(out, a, b) ==
    /\ val[b] # Zero
    /\ \E q \in Element : Times(q, val[b]) = val[a] /\ Put(out, q)

DivideByZero(b) == val[b] = Zero /\ Fail("CustomOp")

Panic(a, b) == ~({a, b} \subseteq canonical) /\ Fail("panic")

IsEq(a, b) ==
    /\ equal' = IF val[a] = val[b] THEN 1 ELSE 0
    /\ UNCHANGED <<val, canonical, outcome>>

Init ==
    /\ val \in [Cell -> Element]
    /\ canonical \in SUBSET Cell
    /\ equal = 0
    /\ insn = <<>>
    /\ outcome = "running"

Execute(op, out, a, b) ==
    \/ op = "add" /\ Put(out, Plus(val[a], val[b]))
    \/ op = "sub" /\ (Put(out, Minus(val[a], val[b])) \/ Panic(a, b))
    \/ op = "mul" /\ Put(out, Times(val[a], val[b]))
    \/ op = "div" /\ (Divide(out, a, b) \/ DivideByZero(b) \/ Panic(b, b))
    \/ op = "iseq" /\ IsEq(a, b)

Next ==
    /\ outcome = "running"
    /\ insn' \in {"add", "sub", "mul", "div", "iseq"} \X Cell \X Cell \X Cell
    /\ Execute(insn'[1], insn'[2], insn'[3], insn'[4])

Spec == Init /\ [][Next]_vars
=============================================================================
