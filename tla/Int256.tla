------------------------------ MODULE Int256 ------------------------------
(***************************************************************************)
(* The 256-bit integer precompiles of int256.rs: numbers of UINT256_BYTES   *)
(* little-endian bytes, added, shifted, compared and multiplied byte by     *)
(* byte.  A client holds numbers in cells; an instruction names two cells   *)
(* it reads and one it writes, any of which may be the same.  Each is the   *)
(* operation modulo 2^256 that Uint256 promises.                            *)
(***************************************************************************)
EXTENDS Word, FiniteSetsExt

CONSTANTS
    UINT256_BYTES,   \* 32 in the program
    Cell,            \* buffers of the guest
    Operands,        \* the numbers that the first cell holds at the start
    Others           \* those that the others hold

VARIABLES
    cells,      \* the numbers in the guest's buffers
    insn        \* the instruction executed last: operation, destination, operands

vars == <<cells, insn>>

Limb == 0 .. UINT256_BYTES - 1
U256 == [Limb -> 0 .. ByteSize - 1]

\* Byte 0 counts exactly the bits of a number (256 in the program): no amount
\* that shift_amount returns reaches the guards `amt >= 256` of the shifts.
Uint256Assumption ==
    /\ UINT256_BYTES \in Nat \ {0}
    /\ UINT256_BYTES * ByteBits = ByteSize
    /\ Operands \cup Others \subseteq U256

-----------------------------------------------------------------------------
\* Bitwise operators on a byte, over the positions that hold a one.

ByteOnes(v) == { i \in 0 .. ByteBits - 1 : (v \div 2^i) % 2 = 1 }
ByteOf(S)   == MapThenSumSet(LAMBDA i : 2^i, S)
shl8(v, k)  == (v * 2^k) % ByteSize
shr8(v, k)  == v \div 2^k

add(a, b) ==
    LET carry[i \in Limb] ==
           IF i = 0 THEN 0 ELSE (a[i - 1] + b[i - 1] + carry[i - 1]) \div ByteSize
    IN  [i \in Limb |-> (a[i] + b[i] + carry[i]) % ByteSize]

\* Mutant of sub: the borrow of the byte below is not subtracted when the two
\* bytes compared are equal.
sub_borrow_lost(a, b) ==
    LET borrow[i \in Limb] ==
           IF i > 0 /\ a[i - 1] < b[i - 1] THEN 1 ELSE 0
    IN  [i \in Limb |-> (a[i] - b[i] - borrow[i]) % ByteSize]

sub(a, b) ==
    LET borrow[i \in Limb] ==
           IF i > 0 /\ a[i - 1] - b[i - 1] - borrow[i - 1] < 0 THEN 1 ELSE 0
    IN  [i \in Limb |-> (a[i] - b[i] - borrow[i]) % ByteSize]

and(a, b) == [i \in Limb |-> ByteOf(ByteOnes(a[i]) \cap ByteOnes(b[i]))]
or(a, b)  == [i \in Limb |-> ByteOf(ByteOnes(a[i]) \cup ByteOnes(b[i]))]
xor(a, b) == [i \in Limb |-> ByteOf(SymDiff(ByteOnes(a[i]), ByteOnes(b[i])))]

\* The loops for whole bytes are the case bit_off = 0 of the others: a byte
\* shifted by all of its bits is zero here, where Rust needs them apart.
shift_amount(b) == b[0]
byte_off(amt)   == amt \div ByteBits
bit_off(amt)    == amt % ByteBits

shl(a, amt) ==
    LET at(i) == IF i >= 0 THEN a[i] ELSE 0
    IN  [i \in Limb |->
            ByteOf(ByteOnes(shl8(at(i - byte_off(amt)), bit_off(amt)))
              \cup ByteOnes(shr8(at(i - byte_off(amt) - 1), ByteBits - bit_off(amt))))]

\* Both right shifts: what moves in from above the number is `fill`.
shr(a, amt, fill) ==
    LET at(i) == IF i < UINT256_BYTES THEN a[i] ELSE fill
    IN  [i \in Limb |->
            ByteOf(ByteOnes(shr8(at(i + byte_off(amt)), bit_off(amt)))
              \cup ByteOnes(shl8(at(i + byte_off(amt) + 1), ByteBits - bit_off(amt))))]

negative(a)         == 2 * a[UINT256_BYTES - 1] >= ByteSize
shr_logical(a, amt) == shr(a, amt, 0)
shr_arith(a, amt)   == shr(a, amt, IF negative(a) THEN ByteSize - 1 ELSE 0)

\* Columns of the schoolbook product, then one pass of carries.
mul(a, b) ==
    LET column(k) == MapThenSumSet(LAMBDA i : a[i] * b[k - i], 0 .. k)
        sum[k \in Limb] ==
           column(k) + (IF k = 0 THEN 0 ELSE sum[k - 1] \div ByteSize)
    IN  [k \in Limb |-> sum[k] % ByteSize]

\* The topmost byte that differs decides.
less_unsigned(a, b) ==
    LET differ == { i \in Limb : a[i] # b[i] }
    IN  differ # {} /\ a[Max(differ)] < b[Max(differ)]

less_signed(a, b) ==
    IF negative(a) # negative(b) THEN negative(a) ELSE less_unsigned(a, b)

bool_to_u256(p) == [i \in Limb |-> IF i = 0 /\ p THEN 1 ELSE 0]

-----------------------------------------------------------------------------
result(op, a, b) ==
    CASE op = "add"  -> add(a, b)
      [] op = "sub"  -> sub(a, b)
      [] op = "xor"  -> xor(a, b)
      [] op = "or"   -> or(a, b)
      [] op = "and"  -> and(a, b)
      [] op = "sll"  -> shl(a, shift_amount(b))
      [] op = "srl"  -> shr_logical(a, shift_amount(b))
      [] op = "sra"  -> shr_arith(a, shift_amount(b))
      [] op = "slt"  -> bool_to_u256(less_signed(a, b))
      [] op = "sltu" -> bool_to_u256(less_unsigned(a, b))
      [] op = "mul"  -> mul(a, b)

Ops == {"add", "sub", "xor", "or", "and", "sll", "srl", "sra", "slt", "sltu", "mul"}

\* The handler reads both operands before it writes the result.
handle_int256(op, out, a, b) ==
    /\ insn' = <<op, out, a, b>>
    /\ cells' = [cells EXCEPT ![out] = result(op, cells[a], cells[b])]

First == CHOOSE c \in Cell : TRUE

Init ==
    /\ cells \in [Cell -> Operands \cup Others]
    /\ cells[First] \in Operands
    /\ \A c \in Cell \ {First} : cells[c] \in Others
    /\ insn = <<>>

Next == \E op \in Ops, out, a, b \in Cell : handle_int256(op, out, a, b)

Spec == Init /\ [][Next]_vars

-----------------------------------------------------------------------------
NumBits == UINT256_BYTES * ByteBits
Value(a) == MapThenSumSet(LAMBDA i : a[i] * 2^(ByteBits * i), Limb)

\* The last instruction shifts by all bits of a number or more.  Uint256 says
\* that nothing remains, as does the comment at shift_amount, which keeps only
\* byte 0 of the amount: there the code and its comment disagree.
ShiftsOut == insn'[1] \in {"sll", "srl", "sra"} /\ Value(cells[insn'[4]]) >= NumBits

Abstract == INSTANCE Uint256 WITH val <- [c \in Cell |-> Value(cells[c])]
=============================================================================
