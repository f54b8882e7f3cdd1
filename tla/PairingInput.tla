---------------------------- MODULE PairingInput ----------------------------
(***************************************************************************)
(* The values of Fq12 and the points of a pairing, by their logarithms: the *)
(* multiplicative group of the field is the integers modulo GroupOrder,     *)
(* 0 its one, a product a sum and a power a product; and a point stands     *)
(* for the multiple of the generator that it is.                            *)
(***************************************************************************)
EXTENDS Integers, Sequences

CONSTANTS
    GroupOrder, \* p^12 - 1
    R,          \* order of the points' groups, a prime; it divides GroupOrder once
    ScalarsP,   \* points that the guest may name
    ScalarsQ,
    MaxPoints   \* bound: points in a list

PairingAssumption ==
    /\ {GroupOrder, R, MaxPoints} \subseteq Nat
    /\ R >= 2 /\ \A d \in 2 .. R - 1 : R % d # 0
    /\ GroupOrder % R = 0 /\ (GroupOrder \div R) % R # 0
    /\ ScalarsP \cup ScalarsQ \subseteq 1 .. R - 1

Units == 0 .. GroupOrder - 1
One   == 0
Zero  == -1             \* the zero of the field

mul(a, b) == IF Zero \in {a, b} THEN Zero ELSE (a + b) % GroupOrder
pow(a, k) == IF a = Zero THEN Zero ELSE (a * k) % GroupOrder
inverse(a) == (-a) % GroupOrder

inv_mod(a, n) == CHOOSE k \in 0 .. n - 1 : (a * k) % n = 1 % n

PointLists(scalars) == UNION { [1 .. n -> scalars] : n \in 0 .. MaxPoints }

PairingProduct(ps, qs) ==
    LET sum[i \in 0 .. Len(ps)] == IF i = 0 THEN 0 ELSE sum[i - 1] + ps[i] * qs[i]
    IN  sum[Len(ps)] % R

\* What the Miller loops of lists of one length can return: any unit whose power
\* GroupOrder / R, the pairing product, is the R-th root of unity that the
\* points' scalars give.
multi_miller_loop(product) == { f \in Units : f % R = product }
=============================================================================
