------------------------------ MODULE Uint256 ------------------------------
(***************************************************************************)
(* What the 256-bit integer precompiles promise: named cells that hold the  *)
(* integers below 2^NumBits, and operations on them that are integer        *)
(* arithmetic modulo 2^NumBits.  Int256 implements it byte by byte.         *)
(***************************************************************************)
EXTENDS Integers, FiniteSetsExt

CONSTANTS
    Cell,       \* names of 32-byte buffers
    NumBits     \* 256 in the program; even

VARIABLES val, insn

Modulus    == 2^NumBits
Half       == 2^(NumBits \div 2)
Uint       == 0 .. Modulus - 1
AsSigned(m) == IF 2 * m < Modulus THEN m ELSE m - Modulus
Bit(m, i)  == (m \div 2^i) % 2
OneIf(p)   == IF p THEN 1 ELSE 0

\* The product modulo Modulus, in halves.
Product(m, n) == (m * (n % Half) + Half * ((m * (n \div Half)) % Half)) % Modulus

Common(m, n) ==
    MapThenSumSet(LAMBDA i : 2^i, { i \in 0 .. NumBits - 1 : Bit(m, i) + Bit(n, i) = 2 })

\* Shifting by NumBits or more leaves nothing of the number but its sign.
ShiftedRight(m, n) == IF n < NumBits THEN m \div 2^n ELSE IF m < 0 THEN -1 ELSE 0

Result(op, m, n) ==
    CASE op = "add"  -> (m + n) % Modulus
      [] op = "sub"  -> (m - n) % Modulus
      [] op = "xor"  -> m + n - 2 * Common(m, n)
      [] op = "or"   -> m + n - Common(m, n)
      [] op = "and"  -> Common(m, n)
      [] op = "sll"  -> IF n < NumBits THEN (m * 2^n) % Modulus ELSE 0
      [] op = "srl"  -> ShiftedRight(m, n)
      [] op = "sra"  -> ShiftedRight(AsSigned(m), n) % Modulus
      [] op = "slt"  -> OneIf(AsSigned(m) < AsSigned(n))
      [] op = "sltu" -> OneIf(m < n)
      [] op = "mul"  -> Product(m, n)

Ops == {"add", "sub", "xor", "or", "and", "sll", "srl", "sra", "slt", "sltu", "mul"}

Init == val \in [Cell -> Uint] /\ insn = <<>>

Next ==
    /\ insn' \in Ops \X Cell \X Cell \X Cell
    /\ val' = [val EXCEPT ![insn'[2]] = Result(insn'[1], val[insn'[3]], val[insn'[4]])]

Spec == Init /\ [][Next]_<<val, insn>>
=============================================================================
