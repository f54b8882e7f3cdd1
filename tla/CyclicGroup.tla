---------------------------- MODULE CyclicGroup ----------------------------
(***************************************************************************)
(* What the curve precompiles promise: cells that hold elements of a group  *)
(* of order Order other than its neutral element, which has no affine       *)
(* coordinates.  Adding equal or opposite elements is not defined: the run  *)
(* ends.  Doubling is always defined, the order being odd.                  *)
(***************************************************************************)
EXTENDS Naturals

CONSTANTS Cell, Order

VARIABLES val, insn, outcome

Element == 1 .. Order - 1

Put(out, v) == val' = [val EXCEPT ![out] = v] /\ UNCHANGED outcome
Fail(kind)  == outcome' = kind /\ UNCHANGED val

Add(out, a, b) ==
    /\ insn' = <<"add", out, a, b>>
    /\ IF val[a] = val[b] \/ val[a] + val[b] = Order THEN Fail("AddNe with equal x")
       ELSE Put(out, (val[a] + val[b]) % Order)

Double(out, a) == insn' = <<"double", out, a, a>> /\ Put(out, (2 * val[a]) % Order)

\* The element is the one named by the guest's bytes, or there is none.
Decompress(out) ==
    /\ insn' = <<"decompress", out, out, out>>
    /\ Fail("CustomOp") \/ \E v \in Element : Put(out, v)

NonResidue(out) == insn' = <<"non_qr", out, out, out>> /\ UNCHANGED <<val, outcome>>

Init == val \in [Cell -> Element] /\ insn = <<>> /\ outcome = "running"

Next ==
    /\ outcome = "running"
    /\ \E out, a, b \in Cell :
          Add(out, a, b) \/ Double(out, a) \/ Decompress(out) \/ NonResidue(out)

Spec == Init /\ [][Next]_<<val, insn, outcome>>
=============================================================================
