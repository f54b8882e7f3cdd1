------------------------------- MODULE Curve -------------------------------
(***************************************************************************)
(* The curve precompiles of ecc.rs on y^2 = x^3 + a x + b: a client that    *)
(* holds points of the curve in cells, with coordinates that need not be    *)
(* reduced, adds, doubles and decompresses them.                            *)
(***************************************************************************)
EXTENDS ModArith, Sequences

CONSTANTS
    A, B,       \* coefficients of the curve
    Multiples,  \* its points, in the order of the multiples of a generator
    Cell

Order == Len(Multiples) + 1

VARIABLES
    cells,      \* the points in the guest's buffers
    non_qr,     \* what HintNonQr has written, 0 before
    insn,       \* the instruction executed last: operation, destination, operands
    outcome

vars == <<cells, non_qr, insn, outcome>>

modp_sub(a, b) == mod_sub(a % P, b % P)

\* modpow(n, e, p)
Power(n, exponent) ==
    LET pow[e \in 0 .. exponent] == IF e = 0 THEN 1 ELSE (pow[e - 1] * n) % P
    IN  pow[exponent]

\* The third point of the line of slope lam through p1 and one of abscissa x2.
third(lam, p1, x2) ==
    LET x3 == modp_sub(modp_sub((lam * lam) % P, p1[1]), x2)
    IN  <<x3, modp_sub((lam * modp_sub(p1[1], x3)) % P, p1[2])>>

add_dx(p1, p2) == modp_sub(p2[1], p1[1])
add_ne(p1, p2) ==
    third((modp_sub(p2[2], p1[2]) * mod_inv(add_dx(p1, p2))) % P, p1, p2[1])

double_den(p1) == (2 * p1[2]) % P

\* Mutant of double: the coefficient a is forgotten.
double_a_zero(p1) ==
    LET num == (3 * ((p1[1] * p1[1]) % P)) % P
    IN  third((num * mod_inv(double_den(p1))) % P, p1, p1[1])

double(p1) ==
    LET num == (3 * ((p1[1] * p1[1]) % P) + A) % P
    IN  third((num * mod_inv(double_den(p1))) % P, p1, p1[1])

is_square(n) == n = 0 \/ Power(n, (P - 1) \div 2) = 1

\* For p = 3 mod 4 the loop of Tonelli-Shanks starts with t = 1 and returns
\* its first r, n^((q+1)/2) for p - 1 = 2q.
tonelli_shanks(n) == IF n = 0 THEN 0 ELSE Power(n, ((P - 1) \div 2 + 1) \div 2)

rhs(x) == (((((x * x) % P) * x) % P) + ((A * x) % P) + B) % P

\* The moduli of the curve table are 3 mod 4 and the groups of odd order: no
\* point has the ordinate zero.
CurveAssumption ==
    /\ P % 4 = 3 /\ {A, B} \subseteq Field
    /\ Order % 2 = 1 /\ \A x \in Field : rhs(x) # 0

\* Mutant of final_y: the whole register is compared, not its bit 0.
final_y_whole_register(x, parity) ==
    LET y == tonelli_shanks(rhs(x))
    IN  IF y % 2 = parity THEN y ELSE P - y

final_y(x, parity) ==
    LET y == tonelli_shanks(rhs(x))
    IN  IF y % 2 = parity % 2 THEN y ELSE P - y

\* Mutant of is_non_qr: the exponent is not halved.
is_non_qr_whole_exponent(n) == Power(n, P - 1) = P - 1

\* Euler's criterion.
is_non_qr(n) == Power(n, (P - 1) \div 2) = P - 1

\* The search from z upward for the first non-residue.
least_non_qr(z) ==
    CHOOSE n \in z .. P - 1 : is_non_qr(n) /\ \A k \in z .. n - 1 : ~is_non_qr(k)

-----------------------------------------------------------------------------
Write(out, point) == cells' = [cells EXCEPT ![out] = point] /\ UNCHANGED <<non_qr, outcome>>
End(kind)         == outcome' = kind /\ UNCHANGED <<cells, non_qr>>

Issue(op, out, a, b) == outcome = "running" /\ insn' = <<op, out, a, b>>

SW_ADD_NE(out, a, b) ==
    /\ Issue("add", out, a, b)
    /\ IF invertible(add_dx(cells[a], cells[b])) THEN Write(out, add_ne(cells[a], cells[b]))
       ELSE End("AddNe with equal x")

SW_DOUBLE(out, a) ==
    /\ Issue("double", out, a, a)
    /\ IF invertible(double_den(cells[a])) THEN Write(out, double(cells[a]))
       ELSE End("Double of point with y=0")

\* x comes from memory; the root is written behind it, in the cell.
SW_HINT_DECOMPRESS(out, x, parity) ==
    /\ Issue("decompress", out, out, out)
    /\ IF is_square(rhs(x)) THEN Write(out, <<x, final_y(x, parity)>>)
       ELSE End("CustomOp")

\* The search has no bound: from P on it meets the same residues again.
SW_HINT_NON_QR(out) ==
    /\ Issue("non_qr", out, out, out)
    /\ IF \E n \in 2 .. P - 1 : is_non_qr(n)
       THEN non_qr' = least_non_qr(2) /\ UNCHANGED <<cells, outcome>>
       ELSE End("hangs")

OnCurve(point) == (point[2] * point[2]) % P = rhs(point[1])

Init ==
    /\ cells \in [Cell -> { point \in Number \X Number : OnCurve(point) }]
    /\ non_qr = 0
    /\ insn = <<>>
    /\ outcome = "running"

Parities == {0, 3}      \* of a register that may hold more than the bit

Next ==
    \/ \E out, a, b \in Cell : SW_ADD_NE(out, a, b)
    \/ \E out, a \in Cell : SW_DOUBLE(out, a)
    \/ \E out \in Cell, x \in Number, parity \in Parities : SW_HINT_DECOMPRESS(out, x, parity)
    \/ \E out \in Cell : SW_HINT_NON_QR(out)

Spec == Init /\ [][Next]_vars

-----------------------------------------------------------------------------
\* The multiple of the generator that a point is, 0 for what is no point.
Scalar(point) ==
    LET reduced == <<point[1] % P, point[2] % P>>
    IN  IF \E k \in DOMAIN Multiples : Multiples[k] = reduced
        THEN CHOOSE k \in DOMAIN Multiples : Multiples[k] = reduced ELSE 0

Scalars == INSTANCE CyclicGroup WITH val <- [c \in Cell |-> Scalar(cells[c])]

\* Decompression finds the point whenever there is one and only then: the
\* root with the parity asked for, canonical, on the curve.
Decompresses == insn'[1] = "decompress" =>
    \A out \in Cell, x \in Number, parity \in Parities :
       SW_HINT_DECOMPRESS(out, x, parity)
       => LET points == { y \in Field : OnCurve(<<x, y>>) /\ y % 2 = parity % 2 }
          IN  IF points = {} THEN outcome' = "CustomOp"
              ELSE \E y \in points : cells'[out] = <<x, y>>

\* The search of HintNonQr ends, and what it writes is the square of no number,
\* by the definition and not by Euler's criterion.
HintIsNonResidue ==
    /\ insn # <<>> /\ insn[1] = "non_qr" => outcome = "running" /\ non_qr # 0
    /\ non_qr # 0 => \A y \in Field : (y * y) % P # non_qr % P
=============================================================================
