------------------------------- MODULE Word -------------------------------
(***************************************************************************)
(* The machine integers of the interpreter: bytes (u8), 32-bit words made   *)
(* of four bytes (u32), their little-endian form and wrapping arithmetic.   *)
(*                                                                         *)
(* A byte has ByteBits bits: 8 in the program.  Everything else is derived  *)
(* from it, so that the shape of the program's words (four bytes to a word, *)
(* one address for each word value, two's complement) is kept when a model  *)
(* takes bytes of one or two bits.                                          *)
(***************************************************************************)
EXTENDS Integers, Sequences

CONSTANTS
    ByteBits,   \* bits in a byte: 8 in the program
    ByteSize    \* values of a byte, 2^ByteBits: 256 in the program

ASSUME ByteAssumption ==
    /\ ByteBits \in Nat \ {0}
    /\ ByteSize \in Nat \ {0}
    /\ ByteSize % 2 = 0
    /\ ByteSize = 2^ByteBits

WordSize == ByteSize * (ByteSize * (ByteSize * ByteSize))   \* 2^32
XLEN     == 4 * ByteBits                                    \* 32

Byte == 0 .. ByteSize - 1
Word == 0 .. WordSize - 1

wrapping_add(a, b) == (a + b) % WordSize
wrapping_sub(a, b) == (a - b) % WordSize

-----------------------------------------------------------------------------
\* Byte order.

from_le_bytes(b) ==
    b[1] + ByteSize * (b[2] + ByteSize * (b[3] + ByteSize * b[4]))

to_le_bytes(w) ==
    << w % ByteSize,
       (w \div ByteSize) % ByteSize,
       (w \div (ByteSize * ByteSize)) % ByteSize,
       (w \div (ByteSize * (ByteSize * ByteSize))) % ByteSize >>

HalfSize == ByteSize * ByteSize                             \* 2^16
from_le_half(b) == b[1] + ByteSize * b[2]
to_le_half(h)   == << h % ByteSize, (h \div ByteSize) % ByteSize >>

-----------------------------------------------------------------------------
\* Two's complement: a bit pattern of the given size read as a signed
\* integer (`as i32`, `as i8 as i32`), and back (`as u32`).

SignedIn(v, size) == IF 2 * v < size THEN v ELSE v - size
Signed(w)         == SignedIn(w, WordSize)
Unsigned(i)       == i % WordSize

-----------------------------------------------------------------------------
\* Bitwise operators, over the set of positions that hold a one.

BitPositions == 0 .. XLEN - 1
Bits(w)      == { i \in BitPositions : (w \div 2^i) % 2 = 1 }

\* The word whose ones are S (any word if there is none, which never happens
\* for the sets used here; the shape keeps the result a word for every S).
WordOf(S) == CHOOSE w \in Word : (\E v \in Word : Bits(v) = S) => Bits(w) = S

BitAnd(a, b) == WordOf(Bits(a) \cap Bits(b))
BitOr(a, b)  == WordOf(Bits(a) \cup Bits(b))
BitXor(a, b) == WordOf((Bits(a) \ Bits(b)) \cup (Bits(b) \ Bits(a)))
XorByte(a, b) == BitXor(a, b) % ByteSize

ShiftLeft(a, n)  == WordOf({ i \in BitPositions : i - n \in Bits(a) })
ShiftRight(a, n) == WordOf({ i \in BitPositions : i + n \in Bits(a) })

\* An arithmetic right shift copies the sign bit into the vacated positions.
ShiftRightArith(a, n) ==
    WordOf({ i \in BitPositions :
               IF i + n < XLEN THEN i + n \in Bits(a) ELSE XLEN - 1 \in Bits(a) })
=============================================================================
