------------------------------ MODULE Memory ------------------------------
(***************************************************************************)
(* Sparse paged memory (crates/rv32im/src/memory.rs).  A memory is a table  *)
(* of pages: a function from the indices of the pages that were written to  *)
(* their bytes.  The operators take the table as their first argument, as   *)
(* the methods take &self, and a method with &mut self is an operator that  *)
(* yields the new table.                                                    *)
(***************************************************************************)
EXTENDS Word

CONSTANT PageSize   \* bytes in a page: 4096 in the program

ASSUME PageAssumption ==
    /\ PageSize \in Nat \ {0}
    /\ PageSize % 4 = 0
    /\ WordSize % PageSize = 0

PageOffsets == 0 .. PageSize - 1
PageIndices == 0 .. (WordSize \div PageSize) - 1
Page        == [PageOffsets -> Byte]
PageTable   == UNION { [S -> Page] : S \in SUBSET PageIndices }

page_idx(addr) == addr \div PageSize
page_off(addr) == addr % PageSize

NoPages  == [idx \in {} |-> 0]
ZeroPage == [off \in PageOffsets |-> 0]

\* Mutant of page_mut: insert where or_insert is meant; a page that exists is
\* replaced by a blank one.
page_mut_afresh(pages, idx) ==
    [i \in DOMAIN pages \cup {idx} |-> IF i = idx THEN ZeroPage ELSE pages[i]]

page_mut(pages, idx) ==
    [i \in DOMAIN pages \cup {idx} |->
        IF i \in DOMAIN pages THEN pages[i] ELSE ZeroPage]

-----------------------------------------------------------------------------
\* Reads.  A page that was never written reads as zero.

read_u8(pages, addr) ==
    IF page_idx(addr) \in DOMAIN pages
    THEN pages[page_idx(addr)][page_off(addr)]
    ELSE 0

read_vec(pages, addr, len) ==
    [i \in 1 .. len |-> read_u8(pages, wrapping_add(addr, i - 1))]

read_u16(pages, addr) ==
    from_le_half(<< read_u8(pages, addr), read_u8(pages, wrapping_add(addr, 1)) >>)

\* An aligned word lies in one page, which is looked up once.
read_u32(pages, addr) ==
    LET o == page_off(addr)
        p == pages[page_idx(addr)]
    IN  IF addr % 4 = 0
        THEN IF page_idx(addr) \in DOMAIN pages
             THEN from_le_bytes(<< p[o], p[o + 1], p[o + 2], p[o + 3] >>)
             ELSE 0
        ELSE from_le_bytes(<< read_u8(pages, addr),
                              read_u8(pages, wrapping_add(addr, 1)),
                              read_u8(pages, wrapping_add(addr, 2)),
                              read_u8(pages, wrapping_add(addr, 3)) >>)

-----------------------------------------------------------------------------
\* Writes.

write_u8(pages, addr, val) ==
    [page_mut(pages, page_idx(addr)) EXCEPT ![page_idx(addr)][page_off(addr)] = val]

write_u16(pages, addr, val) ==
    LET bs == to_le_half(val)
    IN  write_u8(write_u8(pages, addr, bs[1]), wrapping_add(addr, 1), bs[2])

write_u32(pages, addr, val) ==
    LET bs  == to_le_bytes(val)
        idx == page_idx(addr)
        o   == page_off(addr)
    IN  IF addr % 4 = 0
        THEN [page_mut(pages, idx) EXCEPT ![idx][o]     = bs[1],
                                          ![idx][o + 1] = bs[2],
                                          ![idx][o + 2] = bs[3],
                                          ![idx][o + 3] = bs[4]]
        ELSE write_u8(
               write_u8(
                 write_u8(
                   write_u8(pages, addr, bs[1]),
                   wrapping_add(addr, 1), bs[2]),
                 wrapping_add(addr, 2), bs[3]),
               wrapping_add(addr, 3), bs[4])

\* The loop that writes a sequence of bytes at consecutive addresses, in
\* closed form.  Addresses wrap, so a sequence longer than the address space
\* writes an address more than once and its last write stays.
Distance(addr, a)  == wrapping_sub(a, addr)
LastWrite(addr, n, a) ==
    LET d == Distance(addr, a)
    IN  1 + d + WordSize * ((n - 1 - d) \div WordSize)

\* Mutant of PagesFrom: addresses that do not wrap.
PagesFromNoWrap(addr, n) == { page_idx(addr + i) : i \in 0 .. n - 1 }

PagesFrom(addr, n) == { page_idx(wrapping_add(addr, i)) : i \in 0 .. n - 1 }

write_slice(pages, addr, data) ==
    LET n == Len(data)
    IN  [idx \in DOMAIN pages \cup PagesFrom(addr, n) |->
           [off \in PageOffsets |->
              LET a == idx * PageSize + off
              IN  IF Distance(addr, a) < n
                  THEN data[LastWrite(addr, n, a)]
                  ELSE read_u8(pages, a)]]
=============================================================================
