------------------------------ MODULE ModArith ------------------------------
(***************************************************************************)
(* The arithmetic of modular.rs and ecc.rs on numbers of limb_bytes bytes,  *)
(* which need not be below the modulus P.  Subtraction is of naturals: where *)
(* a BigUint would fall below zero the program panics, and a caller of these *)
(* operators asks first.                                                    *)
(***************************************************************************)
EXTENDS Integers

CONSTANTS
    P,          \* the modulus
    Limit       \* 2^(8 * limb_bytes): numbers are below it

\* The moduli of the tables are primes.
ModulusAssumption ==
    /\ P \in 2 .. Limit /\ Limit \in Nat
    /\ \A d \in 2 .. P - 1 : P % d # 0

Number == 0 .. Limit - 1
Field  == 0 .. P - 1

extended_gcd[ab \in Nat \X Nat] ==
    LET a == ab[1]
        b == ab[2]
        r == extended_gcd[<<b, a % b>>]
    IN  IF b = 0 THEN [g |-> a, x |-> 1, y |-> 0]
        ELSE [g |-> r.g, x |-> r.y, y |-> r.x - (a \div b) * r.y]

invertible(b) == b # 0 /\ extended_gcd[<<b, P>>].g = 1
mod_inv(b)    == extended_gcd[<<b, P>>].x % P

\* MOD_SUB computes a - b, or p + a - b when that is negative.
sub_underflows(a, b) == b > P + a
mod_sub(a, b)        == IF a >= b THEN (a - b) % P ELSE (P + a - b) % P

\* Mutant of raise_by: the quotient is rounded down.
raise_by_floor(pre, neg) == IF pre >= neg THEN 0 ELSE ((neg - pre) \div P) * P

\* The multiple of p that is added to the smaller product pre, so that neg can
\* be subtracted from it: diff.div_ceil(p) * p.
raise_by(pre, neg) == IF pre >= neg THEN 0 ELSE ((neg - pre + P - 1) \div P) * P
=============================================================================
