------------------------------ MODULE Fips202 ------------------------------
(***************************************************************************)
(* The permutation Keccak-f[1600] as FIPS 202 defines it, one round a step: *)
(* a set of ones among the 1600 bits <<x, y, z>>, with rotation offsets,    *)
(* lane order and round constants given by the rules that generate them.    *)
(* Keccak implements it with the tables of hashes.rs.                       *)
(***************************************************************************)
EXTENDS Integers, FiniteSets, FiniteSetsExt

VARIABLES ones, round

Rounds == 24
W      == 64      \* bits of a lane
Coord  == 0 .. 4
Bit    == Coord \X Coord \X (0 .. W - 1)

theta(A) ==
    LET odd == { xz \in Coord \X (0 .. W - 1) :
                   Cardinality({ y \in Coord : <<xz[1], y, xz[2]>> \in A }) % 2 = 1 }
        left(x)     == (x + 4) % 5
        right(x)    == (x + 1) % 5
        below(z)    == (z + W - 1) % W
    IN  { b \in Bit :
            (b \in A)
              # ((<<left(b[1]), b[3]>> \in odd) # (<<right(b[1]), below(b[3])>> \in odd)) }

\* The walk <<x, y>> -> <<y, 2x + 3y>> from <<1, 0>> meets every lane but <<0, 0>>.
place[t \in 0 .. 23] ==
    IF t = 0 THEN <<1, 0>>
    ELSE LET p == place[t - 1] IN <<p[2], (2 * p[1] + 3 * p[2]) % 5>>

\* Each lane with its offset, a triangular number.
Offset == { <<place[t], (((t + 1) * (t + 2)) \div 2) % W>> : t \in 0 .. 23 }
          \cup { << <<0, 0>>, 0 >> }

rho(A) ==
    UNION { LET x == o[1][1]   y == o[1][2]
            IN  { <<x, y, (z + o[2]) % W>> : z \in { i \in 0 .. W - 1 : <<x, y, i>> \in A } } :
            o \in Offset }
pi(A)  == { <<b[2], (2 * b[1] + 3 * b[2]) % 5, b[3]>> : b \in A }

chi(A) ==
    { b \in Bit :
        LET right(k) == <<(b[1] + k) % 5, b[2], b[3]>>
        IN  (b \in A) # (right(1) \notin A /\ right(2) \in A) }

\* The shift register of the round constants, before its t-th bit is taken: the
\* powers of x modulo x^8 + x^6 + x^5 + x^4 + 1, as sets of exponents.  Each is
\* the one before it, shifted; from 16 on it is found from half its exponent,
\* for squaring is additive over two elements.
register[t \in 0 .. 6 + 7 * (Rounds - 1)] ==
    IF t = 0 THEN {0}
    ELSE IF t < 16
    THEN LET shifted == { i + 1 : i \in register[t - 1] }
         IN  IF 8 \in shifted THEN SymDiff(shifted \ {8}, {0, 4, 5, 6}) ELSE shifted
    ELSE LET half  == register[t \div 2]
             image == [i \in half |-> register[2 * i + (t % 2)]]
         IN  { j \in 0 .. 7 : Cardinality({ i \in half : j \in image[i] }) % 2 = 1 }

constant(r) == { 2^j - 1 : j \in { i \in 0 .. 6 : 0 \in register[i + 7 * r] } }

iota(A, r) == SymDiff(A, { <<0, 0, z>> : z \in constant(r) })

Init == ones \in SUBSET Bit /\ round = 0

Next ==
    /\ round < Rounds
    /\ ones' = iota(chi(pi(rho(theta(ones)))), round)
    /\ round' = round + 1

Spec == Init /\ [][Next]_<<ones, round>>
=============================================================================
