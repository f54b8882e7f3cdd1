---------------------------- MODULE FlatMemory ----------------------------
(***************************************************************************)
(* What Memory promises its callers: one byte for every 32-bit address,     *)
(* zero until it is written, read and written little-endian at any address  *)
(* and any width, with addresses that wrap at the top.  No pages, no        *)
(* alignment, no fast path.                                                 *)
(***************************************************************************)
EXTENDS Word

CONSTANTS
    LoadAddrs,    \* addresses the client loads from
    StoreAddrs,   \* addresses the client stores to
    StoreWords,   \* words it stores, beside every byte and every half
    Slices        \* [addr, data] of the byte sequences the client copies in

VARIABLES
    mem,          \* the byte at every address
    ret           \* what the last load returned

At(addr, i) == mem[wrapping_add(addr, i)]

Load(addr, n) ==
    /\ ret' = CASE n = 1 -> At(addr, 0)
                [] n = 2 -> from_le_half(<<At(addr, 0), At(addr, 1)>>)
                [] n = 4 -> from_le_bytes(<<At(addr, 0), At(addr, 1),
                                            At(addr, 2), At(addr, 3)>>)
    /\ UNCHANGED mem

Store(addr, data) ==
    /\ UNCHANGED ret
    /\ mem' = [a \in Word |-> LET d == wrapping_sub(a, addr)
                              IN  IF d < Len(data) THEN data[d + 1] ELSE mem[a]]

Init ==
    /\ mem = [a \in Word |-> 0]
    /\ ret = 0

Next ==
    \/ \E addr \in LoadAddrs, n \in {1, 2, 4} : Load(addr, n)
    \/ \E addr \in StoreAddrs :
          \/ \E v \in Byte : Store(addr, <<v>>)
          \/ \E v \in 0 .. HalfSize - 1 : Store(addr, to_le_half(v))
          \/ \E v \in StoreWords : Store(addr, to_le_bytes(v))
    \/ \E s \in Slices : Store(s.addr, s.data)

Spec == Init /\ [][Next]_<<mem, ret>>
=============================================================================
