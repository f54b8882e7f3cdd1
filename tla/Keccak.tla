------------------------------- MODULE Keccak -------------------------------
(***************************************************************************)
(* do_keccakf of hashes.rs: the 200 bytes at [rd] are read into 25 lanes of *)
(* 64 bits, keccakf1600 goes through its 24 rounds with tables of rotations,*)
(* lane indices and round constants, and the lanes are written back.  A byte*)
(* or a lane is the set of the positions of its ones.                       *)
(***************************************************************************)
EXTENDS Integers, FiniteSets, FiniteSetsExt, Sequences

CONSTANT Inputs   \* what the 200 bytes may be

VARIABLES
    bytes,    \* the guest's buffer, each byte the set of its ones
    s,        \* the lanes
    round,    \* rounds done
    stage     \* "read", "rounds", "written"

vars == <<bytes, s, round, stage>>

Lane == 0 .. 24
Pos  == 0 .. 63
X    == 0 .. 4

\* The bits of RC, ROTC and PIL of the source, in their order.
RC == << {0}, {1, 7, 15}, {1, 3, 7, 15, 63}, {15, 31, 63},
         {0, 1, 3, 7, 15}, {0, 31}, {0, 7, 15, 31, 63}, {0, 3, 15, 63},
         {1, 3, 7}, {3, 7}, {0, 3, 15, 31}, {1, 3, 31},
         {0, 1, 3, 7, 15, 31}, {0, 1, 3, 7, 63}, {0, 3, 7, 15, 63}, {0, 1, 15, 63},
         {1, 15, 63}, {7, 63}, {1, 3, 15}, {1, 3, 31, 63},
         {0, 7, 15, 31, 63}, {7, 15, 63}, {0, 31}, {3, 15, 31, 63} >>

ROTC == << 1, 3, 6, 10, 15, 21, 28, 36, 45, 55, 2, 14,
           27, 41, 56, 8, 25, 43, 62, 18, 39, 61, 20, 44 >>

PIL == << 10, 7, 11, 17, 18, 3, 5, 16, 8, 21, 24, 4,
          15, 23, 19, 13, 12, 2, 20, 14, 22, 9, 6, 1 >>

rotate_left(lane, k) == { (i + k) % 64 : i \in lane }

theta(t) ==
    LET column(x) == SymDiff(SymDiff(SymDiff(SymDiff(
                        t[x], t[x + 5]), t[x + 10]), t[x + 15]), t[x + 20])
        c == [x \in X |-> column(x)]
        d == [x \in X |-> SymDiff(c[(x + 4) % 5], rotate_left(c[(x + 1) % 5], 1))]
    IN  [l \in Lane |-> SymDiff(t[l], d[l % 5])]

\* Mutant of rho_pi: the lane is saved after it was overwritten, so that each
\* one moves on what the walk began with.
rho_pi_unsaved(t) ==
    LET total[i \in 1 .. 24] == ROTC[i] + (IF i = 1 THEN 0 ELSE total[i - 1])
    IN  [l \in Lane |->
           IF l = 0 THEN t[0]
           ELSE LET i == CHOOSE k \in 1 .. 24 : PIL[k] = l IN rotate_left(t[1], total[i])]

\* The walk of `t` through PIL: each lane takes the one met before it, rotated.
rho_pi(t) ==
    [l \in Lane |->
       IF l = 0 THEN t[0]
       ELSE LET i == CHOOSE k \in 1 .. 24 : PIL[k] = l
            IN  rotate_left(IF i = 1 THEN t[1] ELSE t[PIL[i - 1]], ROTC[i])]

chi(t) ==
    [l \in Lane |->
       LET x == l % 5   row(k) == t[(l - x) + (k % 5)]
       IN  SymDiff(t[l], row(x + 2) \ row(x + 1))]

\* Mutant of iota: the constants are taken from the second on.
iota_from_second(t, r) == [t EXCEPT ![0] = SymDiff(@, RC[((r + 1) % 24) + 1])]

iota(t, r) == [t EXCEPT ![0] = SymDiff(@, RC[r + 1])]

-----------------------------------------------------------------------------
from_le_bytes(b, l) == UNION { { 8 * j + i : i \in b[8 * l + j] } : j \in 0 .. 7 }
to_le_byte(lane, j) == { i \in 0 .. 7 : 8 * j + i \in lane }

Init ==
    /\ bytes \in Inputs
    /\ s = [l \in Lane |-> {}]
    /\ round = 0
    /\ stage = "read"

ReadLanes ==
    /\ stage = "read"
    /\ s' = [l \in Lane |-> from_le_bytes(bytes, l)]
    /\ stage' = "rounds"
    /\ UNCHANGED <<bytes, round>>

Round ==
    /\ stage = "rounds"
    /\ round < 24
    /\ s' = iota(chi(rho_pi(theta(s))), round)
    /\ round' = round + 1
    /\ UNCHANGED <<bytes, stage>>

WriteLanes ==
    /\ stage = "rounds"
    /\ round = 24
    /\ bytes' = [k \in 0 .. 199 |-> to_le_byte(s[k \div 8], k % 8)]
    /\ stage' = "written"
    /\ UNCHANGED <<s, round>>

Next == ReadLanes \/ Round \/ WriteLanes

Spec == Init /\ [][Next]_vars

-----------------------------------------------------------------------------
\* Bit z of lane <<x, y>> is bit 64 * (x + 5 * y) + z of the buffer.
ones ==
    LET lane(xyz) == xyz[1] + 5 * xyz[2]
    IN  { xyz \in X \X X \X Pos :
            IF stage = "rounds" THEN xyz[3] \in s[lane(xyz)]
            ELSE xyz[3] % 8 \in bytes[8 * lane(xyz) + (xyz[3] \div 8)] }

Standard == INSTANCE Fips202

Digits == << 15, 1, 2, 5, 8, 15, 7, 9, 4, 0, 14, 1, 13, 13, 14, 7 >>

\* Lane 0 ends as 0xf1258f7940e1dde7 when the buffer held zeros.  It is the
\* constants and the order of the steps that could be wrong in both this module
\* and the standard's.
ZeroAnswer ==
    /\ stage = "rounds" /\ stage' = "written"
    /\ \A k \in 0 .. 199 : bytes[k] = {}
    => s[0] = { i \in Pos : (Digits[16 - (i \div 4)] \div 2^(i % 4)) % 2 = 1 }
=============================================================================
