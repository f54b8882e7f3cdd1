--------------------------- MODULE MemoryProofs ---------------------------
(***************************************************************************)
(* The paged memory implements the flat one, for every byte size, every     *)
(* page size that is a multiple of four and divides the address space, and  *)
(* every client.  TypeOK is the inductive invariant: a step of the flat     *)
(* memory is established from the types of the table before and after.      *)
(***************************************************************************)
EXTENDS MemoryBus, MachineLemmas

\* The flat memory that a page table stands for.
flat(table) == [a \in Word |-> read_u8(table, a)]

\* What a write does to the pages is a store to the flat memory.
LEMMA StoreRefined ==
    ASSUME NEW addr \in Word, NEW data,
           Writes(pages, pages', addr, data), UNCHANGED ret
    PROVE  Flat!Store(addr, data)
<1>1. flat(pages') = [a \in Word |-> LET d == wrapping_sub(a, addr)
                                     IN  IF d < Len(data) THEN data[d + 1] ELSE flat(pages)[a]]
  BY DEF flat, Writes
<1> QED BY <1>1 DEF Flat!Store, flat, Flat!wrapping_sub, wrapping_sub, Flat!Word, Word,
                    Flat!WordSize, WordSize

\* A load returns what the flat memory holds.
LEMMA LoadRefined ==
    ASSUME NEW addr \in Word, pages \in PageTable, UNCHANGED pages
    PROVE  /\ ret' = read_u8(pages, addr)  => Flat!Load(addr, 1)
           /\ ret' = read_u16(pages, addr) => Flat!Load(addr, 2)
           /\ ret' = read_u32(pages, addr) => Flat!Load(addr, 4)
<1>1. \A i \in {0, 1, 2, 3} :
        Flat!At(addr, i) = read_u8(pages, wrapping_add(addr, i))
  <2>1. \A i \in {0, 1, 2, 3} : wrapping_add(addr, i) \in Word
    BY Words, WrapWord
  <2> QED BY <2>1 DEF Flat!At, Flat!wrapping_add, wrapping_add, Flat!Word, Word,
                      Flat!WordSize, WordSize
<1>2. wrapping_add(addr, 0) = addr
  BY WrapZero
<1>3. read_u32(pages, addr) =
             from_le_bytes(<< read_u8(pages, addr),
                              read_u8(pages, wrapping_add(addr, 1)),
                              read_u8(pages, wrapping_add(addr, 2)),
                              read_u8(pages, wrapping_add(addr, 3)) >>)
  BY ReadWord
<1>4. UNCHANGED flat(pages)
  BY DEF flat
<1> QED BY <1>1, <1>2, <1>3, <1>4
        DEF Flat!Load, read_u16, Flat!from_le_half, from_le_half,
            Flat!from_le_bytes, from_le_bytes, flat, Flat!Word, Word, Flat!WordSize, WordSize

\* The pages stay a table of pages of bytes and a load returns a word.
THEOREM MemoryTypeCorrect == Spec => []TypeOK
<1>1. Init => TypeOK
  BY NoPagesTyped, Words DEF Init, TypeOK
<1>2. TypeOK /\ [Next]_vars => TypeOK'
  <2> SUFFICES ASSUME TypeOK, [Next]_vars PROVE TypeOK'
    OBVIOUS
  <2> USE DEF TypeOK
  <2>1. ASSUME NEW addr \in LoadAddrs, LoadByte(addr) \/ LoadHalf(addr) \/ LoadWord(addr)
        PROVE  TypeOK'
    BY <2>1, ClientAssumption, ReadsTyped DEF LoadByte, LoadHalf, LoadWord
  <2>2. ASSUME NEW addr \in StoreAddrs, NEW v \in Byte, StoreByte(addr, v)
        PROVE  TypeOK'
    BY <2>2, ClientAssumption, WriteByte DEF StoreByte
  <2>3. ASSUME NEW addr \in StoreAddrs, NEW v \in 0 .. HalfSize - 1, StoreHalf(addr, v)
        PROVE  TypeOK'
    BY <2>3, ClientAssumption, WriteHalf, Sizes DEF StoreHalf
  <2>4. ASSUME NEW addr \in StoreAddrs, NEW v \in StoreWords, StoreWord(addr, v)
        PROVE  TypeOK'
    BY <2>4, ClientAssumption, WriteWord, Words DEF StoreWord
  <2>5. ASSUME NEW s \in Slices, CopyIn(s)
        PROVE  TypeOK'
    <3>1. s.addr \in Word /\ Len(s.data) \in Nat /\ \A i \in 1 .. Len(s.data) : s.data[i] \in Byte
      BY ClientAssumption
    <3>2. write_slice(pages, s.addr, s.data) \in PageTable
      BY <3>1, WriteSliceTyped
    <3> QED BY <2>5, <3>2 DEF CopyIn
  <2>6. CASE UNCHANGED vars
    BY <2>6 DEF vars
  <2> QED BY <2>1, <2>2, <2>3, <2>4, <2>5, <2>6 DEF Next
<1> QED BY <1>1, <1>2, PTL DEF Spec

\* Every behaviour of the paged memory is one of the flat memory: no load can
\* tell pages, page crossings, fast paths and absent pages from an array.
THEOREM MemoryIsFlat == Spec => ImplementsFlatMemory
<1>1. Init => Flat!Init
  BY NoPagesTyped DEF Init, Flat!Init, Flat!Word, Word, Flat!WordSize, WordSize
<1>2. TypeOK /\ [Next]_vars => [Flat!Next]_<<flat(pages), ret>>
  <2> SUFFICES ASSUME TypeOK, [Next]_vars PROVE Flat!Next \/ UNCHANGED <<flat(pages), ret>>
    OBVIOUS
  <2>0. pages \in PageTable
    BY DEF TypeOK
  <2>1. ASSUME NEW addr \in LoadAddrs, LoadByte(addr) \/ LoadHalf(addr) \/ LoadWord(addr)
        PROVE  \E n \in {1, 2, 4} : Flat!Load(addr, n)
    BY <2>0, <2>1, ClientAssumption, LoadRefined DEF LoadByte, LoadHalf, LoadWord
  <2>2. ASSUME NEW addr \in StoreAddrs, NEW v \in Byte, StoreByte(addr, v)
        PROVE  Flat!Store(addr, <<v>>)
    BY <2>0, <2>2, ClientAssumption, WriteFirst, StoreRefined DEF StoreByte
  <2>3. ASSUME NEW addr \in StoreAddrs, NEW v \in 0 .. HalfSize - 1, StoreHalf(addr, v)
        PROVE  Flat!Store(addr, to_le_half(v))
    BY <2>0, <2>3, ClientAssumption, WriteHalf, StoreRefined, Sizes DEF StoreHalf
  <2>4. ASSUME NEW addr \in StoreAddrs, NEW v \in StoreWords, StoreWord(addr, v)
        PROVE  Flat!Store(addr, to_le_bytes(v))
    BY <2>0, <2>4, ClientAssumption, WriteWord, StoreRefined, Words DEF StoreWord
  <2>5. ASSUME NEW s \in Slices, CopyIn(s)
        PROVE  Flat!Store(s.addr, s.data)
    <3>1. s.addr \in Word /\ Len(s.data) \in Nat /\ Len(s.data) <= WordSize
      BY ClientAssumption, Sizes
    <3>2. Writes(pages, write_slice(pages, s.addr, s.data), s.addr, s.data)
      BY <2>0, <3>1, WriteSliceWrites
    <3> QED BY <2>5, <3>1, <3>2, StoreRefined DEF CopyIn
  <2>6. ASSUME UNCHANGED vars PROVE UNCHANGED <<flat(pages), ret>>
    BY <2>6 DEF vars, flat
  <2>7. /\ Flat!Byte = Byte /\ Flat!HalfSize = HalfSize /\ Flat!Word = Word
        /\ \A v : Flat!to_le_half(v) = to_le_half(v) /\ Flat!to_le_bytes(v) = to_le_bytes(v)
    BY DEF Flat!Byte, Byte, Flat!HalfSize, HalfSize, Flat!to_le_half, to_le_half,
           Flat!to_le_bytes, to_le_bytes, Flat!Word, Word, Flat!WordSize, WordSize
  <2> QED BY <2>1, <2>2, <2>3, <2>4, <2>5, <2>6, <2>7 DEF Next, Flat!Next
<1> QED BY <1>1, <1>2, MemoryTypeCorrect, PTL DEF Spec, ImplementsFlatMemory, Flat!Spec, flat
=============================================================================
