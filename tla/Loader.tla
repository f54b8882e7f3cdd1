------------------------------- MODULE Loader -------------------------------
(***************************************************************************)
(* From the bytes of an ELF file to the memory of a new processor:          *)
(* load_rv32_elf of crates/elf and the copying loop of Cpu::new.  One step  *)
(* is one program header, and then one segment.  Parsing itself belongs to  *)
(* the elf crate; a file is the record of what it says of it.               *)
(***************************************************************************)
EXTENDS Memory, FiniteSetsExt

CONSTANT Files      \* the files that the host may name

\* A header of a 32-bit file has fields of 32 bits; offset counts file.bytes
\* from 0.
Header == [load : BOOLEAN, offset : Word, filesz : Word, memsz : Word, vaddr : Word]

ASSUME FilesAssumption ==
    \A file \in Files :
       /\ file.headers \in Seq(Header)
       /\ file.bytes \in Seq(Byte)

VARIABLES
    file,
    parsed,     \* program headers looked at
    segments,   \* the segments of the LoadedProgram so far
    copied,     \* segments copied to memory
    pages,
    stage       \* "preflight", "headers", "copy", "ready", or how it failed

vars == <<file, parsed, segments, copied, pages, stage>>

Init ==
    /\ file \in Files
    /\ parsed = 0 /\ segments = <<>> /\ copied = 0
    /\ pages = NoPages
    /\ stage = "preflight"

\* The checks in front of the loop, in their order; those of the two ident
\* bytes are for files long enough to have them.  A file without a table of
\* headers is refused, not one whose table is empty.
Preflight ==
    /\ stage = "preflight"
    /\ stage' = CASE file.ident /\ ~file.class32     -> "NotElf32"
                  [] file.ident /\ file.class32 /\ ~file.little -> "NotLittleEndian"
                  [] OTHER -> IF ~file.parses THEN "Parse"
                              ELSE IF ~file.riscv THEN "NotRiscv"
                              ELSE IF ~file.exec THEN "NotExec"
                              ELSE IF ~file.table THEN "NoProgramHeaders"
                              ELSE "headers"
    /\ UNCHANGED <<file, parsed, segments, copied, pages>>

ph == file.headers[parsed + 1]

NextHeader == parsed' = parsed + 1 /\ UNCHANGED <<file, copied, pages, stage>>
Reject(kind) == stage' = kind /\ UNCHANGED <<file, parsed, segments, copied, pages>>

\* Mutant of SkipHeader: the loop looks at the same header again.
SkipHeader_again ==
    /\ stage = "headers" /\ parsed < Len(file.headers)
    /\ ~ph.load
    /\ UNCHANGED vars

SkipHeader ==
    /\ stage = "headers" /\ parsed < Len(file.headers)
    /\ ~ph.load
    /\ NextHeader /\ UNCHANGED segments

\* Mutant of LoadHeader: the slice is as long as the segment in memory.
LoadHeader_mem_size ==
    /\ stage = "headers" /\ parsed < Len(file.headers)
    /\ ph.load
    /\ IF ph.filesz > ph.memsz THEN Reject("SegmentSizeMismatch")
       ELSE IF ph.offset + ph.memsz > Len(file.bytes) THEN Reject("panic")
       ELSE /\ segments' = Append(segments,
                 [vaddr |-> ph.vaddr, mem_size |-> ph.memsz % WordSize,
                  data |-> SubSeq(file.bytes, ph.offset + 1, ph.offset + ph.memsz)])
            /\ NextHeader

\* A slice that leaves the file panics: the file sizes are not checked
\* against its length.
LoadHeader ==
    /\ stage = "headers" /\ parsed < Len(file.headers)
    /\ ph.load
    /\ IF ph.filesz > ph.memsz THEN Reject("SegmentSizeMismatch")
       ELSE IF ph.offset + ph.filesz > Len(file.bytes) THEN Reject("panic")
       ELSE /\ segments' = Append(segments,
                 [vaddr |-> ph.vaddr, mem_size |-> ph.memsz % WordSize,
                  data |-> SubSeq(file.bytes, ph.offset + 1, ph.offset + ph.filesz)])
            /\ NextHeader

Loaded ==
    /\ stage = "headers" /\ parsed = Len(file.headers)
    /\ stage' = "copy"
    /\ UNCHANGED <<file, parsed, segments, copied, pages>>

\* Cpu::new: the bytes of the file alone are written.
CopySegment ==
    /\ stage = "copy" /\ copied < Len(segments)
    /\ pages' = write_slice(pages, segments[copied + 1].vaddr, segments[copied + 1].data)
    /\ copied' = copied + 1
    /\ UNCHANGED <<file, parsed, segments, stage>>

Ready ==
    /\ stage = "copy" /\ copied = Len(segments)
    /\ stage' = "ready"
    /\ UNCHANGED <<file, parsed, segments, copied, pages>>

Next == Preflight \/ SkipHeader \/ LoadHeader \/ Loaded \/ CopySegment \/ Ready

\* Loading is a loop in the one thread, over a table of finite length.
Spec == Init /\ [][Next]_vars /\ WF_vars(Next)

\* Mutant of memory_high_water: the sum wraps.
memory_high_water_wrapping ==
    Max({0} \cup { wrapping_add(segments[k].vaddr, segments[k].mem_size) : k \in DOMAIN segments })

\* The sum saturates at the top of the address space.
memory_high_water ==
    Max({0} \cup { Min({WordSize - 1, segments[k].vaddr + segments[k].mem_size}) :
                     k \in DOMAIN segments })

-----------------------------------------------------------------------------
Covers(h, a, size) == h.load /\ Distance(h.vaddr, a) < size

\* The headers whose bytes in the file cover address a.
InFile(a) == { k \in DOMAIN file.headers : Covers(file.headers[k], a, file.headers[k].filesz) }

\* The headers whose segments in memory cover it.
InMemory(a) == { k \in DOMAIN file.headers : Covers(file.headers[k], a, file.headers[k].memsz) }

\* A program is loaded only when every LOAD header names bytes of the file
\* that fit the segment; and then an address without a byte of the file, in
\* the BSS or outside of all segments, is zero, and each other holds the byte
\* of the last segment that covers it, whatever the order and the overlaps of
\* the table.  Nothing is said where that byte lies in the BSS of the last
\* segment and in the file bytes of one before it: of it the comments (zero,
\* elf/lib.rs:36, cpu.rs:56-57) and the code (the earlier byte) disagree.
ImageOfFile ==
    stage = "ready"
      => /\ \A k \in DOMAIN file.headers :
               file.headers[k].load =>
                  /\ file.headers[k].filesz <= file.headers[k].memsz
                  /\ file.headers[k].offset + file.headers[k].filesz <= Len(file.bytes)
         /\ \A a \in Word :
               /\ InFile(a) = {} => read_u8(pages, a) = 0
               /\ InFile(a) # {} /\ Max(InFile(a)) = Max(InMemory(a))
                    => LET h == file.headers[Max(InFile(a))]
                       IN  read_u8(pages, a) = file.bytes[h.offset + Distance(h.vaddr, a) + 1]

\* The high-water mark that the log and `info` report is above every byte of
\* a segment that does not wrap, or is the top of memory.
HighWaterAbove ==
    stage = "ready"
      => \A k \in DOMAIN segments :
            LET seg == segments[k]
            IN  seg.mem_size > 0 /\ seg.vaddr + seg.mem_size <= WordSize
                => \/ memory_high_water = WordSize - 1
                   \/ seg.vaddr + seg.mem_size - 1 < memory_high_water

\* Every file is loaded or refused.
Decides == <>(stage \notin {"preflight", "headers", "copy"})
=============================================================================
