----------------------------- MODULE MemoryBus -----------------------------
(***************************************************************************)
(* A memory and the client that drives it: the interpreter's loads and      *)
(* stores at every width, the ELF loader's write_slice.  One action per     *)
(* method; ret is the value the last load returned to the client.           *)
(***************************************************************************)
EXTENDS Memory

CONSTANTS
    LoadAddrs,    \* addresses the client loads from
    StoreAddrs,   \* addresses the client stores to
    StoreWords,   \* words it stores, beside every byte and every half
    Slices        \* [addr, data] of the byte sequences the client copies in

\* A segment of an ELF32 file has fewer bytes than there are addresses
\* (p_filesz is a u32).
ASSUME ClientAssumption ==
    /\ LoadAddrs \subseteq Word
    /\ StoreAddrs \subseteq Word
    /\ StoreWords \subseteq Word
    /\ \A s \in Slices : /\ s.addr \in Word
                         /\ s.data \in Seq(Byte)
                         /\ Len(s.data) < WordSize

VARIABLES pages, ret

vars == <<pages, ret>>

TypeOK ==
    /\ pages \in PageTable
    /\ ret \in Word

-----------------------------------------------------------------------------
LoadByte(addr) == ret' = read_u8(pages, addr)  /\ UNCHANGED pages
LoadHalf(addr) == ret' = read_u16(pages, addr) /\ UNCHANGED pages
LoadWord(addr) == ret' = read_u32(pages, addr) /\ UNCHANGED pages

StoreByte(addr, v) == pages' = write_u8(pages, addr, v)  /\ UNCHANGED ret
StoreHalf(addr, v) == pages' = write_u16(pages, addr, v) /\ UNCHANGED ret
StoreWord(addr, v) == pages' = write_u32(pages, addr, v) /\ UNCHANGED ret

CopyIn(s) == pages' = write_slice(pages, s.addr, s.data) /\ UNCHANGED ret

-----------------------------------------------------------------------------
Init ==
    /\ pages = NoPages
    /\ ret = 0

Next ==
    \/ \E addr \in LoadAddrs : LoadByte(addr) \/ LoadHalf(addr) \/ LoadWord(addr)
    \/ \E addr \in StoreAddrs :
          \/ \E v \in Byte : StoreByte(addr, v)
          \/ \E v \in 0 .. HalfSize - 1 : StoreHalf(addr, v)
          \/ \E v \in StoreWords : StoreWord(addr, v)
    \/ \E s \in Slices : CopyIn(s)

Spec == Init /\ [][Next]_vars

-----------------------------------------------------------------------------
\* The refinement: the byte at an address is what a byte read returns.
Flat == INSTANCE FlatMemory WITH mem <- [a \in Word |-> read_u8(pages, a)]

\* Pages, page crossings, the aligned fast path of read_u32 and write_u32, and
\* the absent page that reads as zero cannot be told from a flat array of
\* bytes: every load returns what the array holds, every store changes the
\* bytes it names and no other, also when it wraps at the top of memory.
ImplementsFlatMemory == Flat!Spec
=============================================================================
