-------------------------------- MODULE Fp2 --------------------------------
(***************************************************************************)
(* The complex precompiles of modular.rs (handle_complex): a client that    *)
(* holds pairs c0 + c1 X, X^2 = -1, of numbers that need not be reduced.    *)
(***************************************************************************)
EXTENDS ModArith

CONSTANTS
    Cell,
    Coordinate  \* the numbers that coordinates have at the start

Fp2Assumption == P % 4 = 3 /\ Coordinate \subseteq Number

VARIABLES cells, equal, insn, outcome     \* as in Modular

vars == <<cells, equal, insn, outcome>>

Write(out, c0, c1) == cells' = [cells EXCEPT ![out] = <<c0, c1>>] /\ UNCHANGED <<equal, outcome>>
End(kind)          == outcome' = kind /\ UNCHANGED <<cells, equal>>

ADD(out, a, b) == Write(out, (a[1] + b[1]) % P, (a[2] + b[2]) % P)

SUB(out, a, b) ==
    IF \E i \in 1 .. 2 : sub_underflows(a[i], b[i]) THEN End("panic")
    ELSE Write(out, mod_sub(a[1], b[1]), mod_sub(a[2], b[2]))

\* The result pre - neg + c1 X.
WriteProduct(out, pre, neg, c1) ==
    IF raise_by(pre, neg) + pre < neg THEN End("panic")
    ELSE Write(out, (raise_by(pre, neg) + pre - neg) % P, c1 % P)

MUL(out, a, b) == WriteProduct(out, a[1] * b[1], a[2] * b[2], a[1] * b[2] + a[2] * b[1])

norm(b) == (b[1] * b[1] + b[2] * b[2]) % P

\* a times the conjugate of b over the norm of b; the conjugate's `p - b1` is
\* the one subtraction that numbers not reduced can break.
DIV(out, a, b) ==
    LET inv  == mod_inv(norm(b))
        inv0 == (b[1] * inv) % P
        inv1 == (((P - b[2]) % P) * inv) % P
    IN  IF ~invertible(norm(b)) THEN End("CustomOp")
        ELSE IF b[2] > P THEN End("panic")
        ELSE WriteProduct(out, a[1] * inv0, a[2] * inv1, a[1] * inv1 + a[2] * inv0)

IS_EQ(a, b) ==
    /\ equal' = IF \A i \in 1 .. 2 : a[i] % P = b[i] % P THEN 1 ELSE 0
    /\ UNCHANGED <<cells, outcome>>

Init ==
    /\ cells \in [Cell -> Coordinate \X Coordinate]
    /\ equal = 0
    /\ insn = <<>>
    /\ outcome = "running"

handle_complex(op, out, a, b) ==
    \/ op = "add" /\ ADD(out, a, b)
    \/ op = "sub" /\ SUB(out, a, b)
    \/ op = "mul" /\ MUL(out, a, b)
    \/ op = "div" /\ DIV(out, a, b)
    \/ op = "iseq" /\ IS_EQ(a, b)

Next ==
    /\ outcome = "running"
    /\ \E op \in {"add", "sub", "mul", "div", "iseq"}, out, a, b \in Cell :
          /\ insn' = <<op, out, a, b>>
          /\ handle_complex(op, out, cells[a], cells[b])

Spec == Init /\ [][Next]_vars

-----------------------------------------------------------------------------
Plus(m, n)  == <<(m[1] + n[1]) % P, (m[2] + n[2]) % P>>
Minus(m, n) == <<(m[1] - n[1]) % P, (m[2] - n[2]) % P>>
Times(m, n) == <<(m[1] * n[1] - m[2] * n[2]) % P, (m[1] * n[2] + m[2] * n[1]) % P>>

ComplexModP == INSTANCE FieldCells WITH
    Element <- Field \X Field, Zero <- <<0, 0>>,
    val <- [c \in Cell |-> <<cells[c][1] % P, cells[c][2] % P>>],
    canonical <- { c \in Cell : cells[c] \in Field \X Field }
=============================================================================
