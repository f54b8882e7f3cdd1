---------------------------- MODULE LoaderProofs ----------------------------
(***************************************************************************)
(* Loading, for every file, every byte and every page size.  LoaderInv, the *)
(* inductive invariant, follows the two loops: the segments are the LOAD    *)
(* headers looked at, in the order of the table, and memory is what the     *)
(* segments copied so far leave behind.                                     *)
(***************************************************************************)
EXTENDS Loader, MachineLemmas

Segment == [vaddr : Word, mem_size : Word, data : Seq(Byte)]

TypeOK ==
    /\ file \in Files
    /\ parsed \in 0 .. Len(file.headers)
    /\ segments \in Seq(Segment)
    /\ copied \in 0 .. Len(segments)
    /\ pages \in PageTable

\* What the loop asks of a LOAD header before it takes the bytes.
Sound(f, h) == h.filesz <= h.memsz /\ h.offset + h.filesz <= Len(f.bytes)

\* The segment that header h describes.
Describes(f, h, seg) ==
    /\ seg.vaddr = h.vaddr
    /\ Len(seg.data) = h.filesz
    /\ \A d \in 0 .. h.filesz - 1 : seg.data[d + 1] = f.bytes[h.offset + d + 1]

\* Segment k comes from header origin[k], and none of the first n is left out.
Origin(f, n, segs, origin) ==
    /\ \A k \in 1 .. Len(segs) : /\ f.headers[origin[k]].load
                                 /\ Describes(f, f.headers[origin[k]], segs[k])
    /\ \A k, l \in 1 .. Len(segs) : k < l => origin[k] < origin[l]
    /\ \A j \in 1 .. n : f.headers[j].load => \E k \in 1 .. Len(segs) : origin[k] = j

\* segs are the segments of the first n headers of file f.
SegmentsOf(f, n, segs) ==
    /\ \A j \in 1 .. n : f.headers[j].load => Sound(f, f.headers[j])
    /\ \E origin \in [1 .. Len(segs) -> 1 .. n] : Origin(f, n, segs, origin)

HeadersInv == SegmentsOf(file, parsed, segments)

Reaches(seg, a) == Distance(seg.vaddr, a) < Len(seg.data)

\* Address a holds what the last of the copied segments that reaches it put
\* there.
CopiedTo(a) ==
    \/ /\ \A k \in 1 .. copied : ~Reaches(segments[k], a)
       /\ read_u8(pages, a) = 0
    \/ \E k \in 1 .. copied :
          /\ Reaches(segments[k], a)
          /\ \A j \in k + 1 .. copied : ~Reaches(segments[j], a)
          /\ read_u8(pages, a) = segments[k].data[Distance(segments[k].vaddr, a) + 1]

MemoryInv == \A a \in Word : CopiedTo(a)

StageInv ==
    /\ stage \in {"preflight", "headers"} => copied = 0
    /\ stage \in {"copy", "ready"} => parsed = Len(file.headers)
    /\ stage = "ready" => copied = Len(segments)

LoaderInv == TypeOK /\ HeadersInv /\ MemoryInv /\ StageInv

-----------------------------------------------------------------------------
\* Largest and smallest numbers of a set.

LEMMA MaxIsLargest ==
    ASSUME NEW n \in Nat, NEW S \in SUBSET (0 .. n), S # {}
    PROVE  Max(S) \in S /\ \A y \in S : y <= Max(S)
<1>1. \E k \in S : \A y \in S : y <= k
  BY Largest
<1>2. \A y \in S : y \in Int
  OBVIOUS
<1> QED
  BY <1>1, <1>2 DEF Max

LEMMA MinOfTwo ==
    ASSUME NEW a \in Int, NEW b \in Int
    PROVE  Min({a, b}) = IF a <= b THEN a ELSE b
BY DEF Min

-----------------------------------------------------------------------------
LEMMA HeaderTyped ==
    ASSUME file \in Files, NEW j \in 1 .. Len(file.headers)
    PROVE  /\ file.headers[j] \in Header
           /\ file.bytes \in Seq(Byte)
BY FilesAssumption

\* The bytes that a sound header names.
LEMMA SliceDescribed ==
    ASSUME file \in Files, NEW h \in Header, Sound(file, h)
    PROVE  LET seg == [vaddr |-> h.vaddr, mem_size |-> h.memsz % WordSize,
                       data |-> SubSeq(file.bytes, h.offset + 1, h.offset + h.filesz)]
           IN  seg \in Segment /\ Describes(file, h, seg)
<1> DEFINE bs   == file.bytes
           o    == h.offset
           n    == h.filesz
           data == SubSeq(bs, o + 1, o + n)
<1>1. bs \in Seq(Byte)
  BY FilesAssumption
<1>2. o \in Nat /\ n \in Nat /\ o + n <= Len(bs)
  BY Words DEF Header, Sound
<1>3. h.vaddr \in Word /\ h.memsz % WordSize \in Word
  BY DivMod, Sizes, Words DEF Header, Word
<1>4. data \in Seq(Byte) /\ Len(data) = n
      /\ \A d \in 0 .. n - 1 : data[d + 1] = bs[o + d + 1]
  <2> HIDE DEF bs, o, n
  <2> QED
    BY <1>1, <1>2, SMTT(30)
<1> HIDE DEF data
<1> QED
  BY <1>3, <1>4 DEF Segment, Describes, data

-----------------------------------------------------------------------------
\* One header more.

LEMMA SegmentsSkip ==
    ASSUME NEW f, NEW n \in Nat, NEW segs \in Seq(Segment),
           SegmentsOf(f, n, segs), ~f.headers[n + 1].load
    PROVE  SegmentsOf(f, n + 1, segs)
<1>1. PICK origin \in [1 .. Len(segs) -> 1 .. n] : Origin(f, n, segs, origin)
  BY DEF SegmentsOf
<1>2. \A j \in 1 .. n + 1 : j \in 1 .. n \/ j = n + 1
  OBVIOUS
<1>3. origin \in [1 .. Len(segs) -> 1 .. n + 1]
  OBVIOUS
<1>4. Origin(f, n + 1, segs, origin)
  BY <1>1, <1>2 DEF Origin
<1>5. \A j \in 1 .. n + 1 : f.headers[j].load => Sound(f, f.headers[j])
  BY <1>2 DEF SegmentsOf
<1> QED
  BY <1>3, <1>4, <1>5 DEF SegmentsOf

LEMMA SegmentsAppend ==
    ASSUME NEW f, NEW n \in Nat, NEW segs \in Seq(Segment), NEW seg \in Segment,
           SegmentsOf(f, n, segs), f.headers[n + 1].load,
           Sound(f, f.headers[n + 1]), Describes(f, f.headers[n + 1], seg)
    PROVE  SegmentsOf(f, n + 1, Append(segs, seg))
<1> DEFINE m   == Len(segs)
           new == Append(segs, seg)
<1>1. PICK origin \in [1 .. m -> 1 .. n] : Origin(f, n, segs, origin)
  BY DEF SegmentsOf
<1> DEFINE to == [k \in 1 .. m + 1 |-> IF k <= m THEN origin[k] ELSE n + 1]
<1>2. /\ m \in Nat /\ Len(new) = m + 1
      /\ new[m + 1] = seg
      /\ \A k \in 1 .. m : new[k] = segs[k]
  OBVIOUS
<1>3. /\ \A j \in 1 .. n + 1 : j \in 1 .. n \/ j = n + 1
      /\ \A k \in 1 .. m + 1 : k \in 1 .. m \/ k = m + 1
  BY <1>2, SMTT(30)
<1>4. /\ to \in [1 .. m + 1 -> 1 .. n + 1]
      /\ to[m + 1] = n + 1
      /\ \A k \in 1 .. m : to[k] = origin[k] /\ origin[k] \in 1 .. n
  BY <1>2
<1> HIDE DEF to, new, m
<1>5. \A k \in 1 .. m + 1 : /\ f.headers[to[k]].load
                            /\ Describes(f, f.headers[to[k]], new[k])
  BY <1>1, <1>2, <1>3, <1>4 DEF Origin, m
<1>6. \A k, l \in 1 .. m + 1 : k < l => to[k] < to[l]
  <2> SUFFICES ASSUME NEW k \in 1 .. m + 1, NEW l \in 1 .. m + 1, k < l
               PROVE  to[k] < to[l]
    OBVIOUS
  <2>1. k \in 1 .. m
    BY <1>2
  <2>2. CASE l \in 1 .. m
    BY <1>1, <1>4, <2>1, <2>2 DEF Origin, m
  <2>3. CASE l = m + 1
    BY <1>4, <2>1, <2>3
  <2> QED
    BY <1>3, <2>2, <2>3
<1>7. ASSUME NEW j \in 1 .. n + 1, f.headers[j].load
      PROVE  \E k \in 1 .. m + 1 : to[k] = j
  <2>1. CASE j \in 1 .. n
    <3>1. PICK k \in 1 .. m : origin[k] = j
      BY <1>1, <1>7, <2>1 DEF Origin, m
    <3> QED
      BY <1>2, <1>4, <3>1
  <2>2. CASE j = n + 1
    BY <1>2, <1>4, <2>2
  <2> QED
    BY <1>3, <2>1, <2>2
<1>8. Origin(f, n + 1, new, to)
  BY <1>2, <1>5, <1>6, <1>7 DEF Origin
<1>9. \A j \in 1 .. n + 1 : f.headers[j].load => Sound(f, f.headers[j])
  BY <1>3 DEF SegmentsOf
<1> QED
  BY <1>2, <1>4, <1>8, <1>9 DEF SegmentsOf, new

-----------------------------------------------------------------------------
\* One lemma per step.

LEMMA Starts == Init => LoaderInv
<1> SUFFICES ASSUME Init PROVE LoaderInv
  OBVIOUS
<1> USE DEF Init
<1>1. TypeOK
  BY NoPagesTyped, FilesAssumption DEF TypeOK
<1>2. HeadersInv
  <2>1. [k \in {} |-> 1] \in [1 .. Len(segments) -> 1 .. parsed]
    OBVIOUS
  <2> QED
    BY <2>1 DEF HeadersInv, SegmentsOf, Origin
<1>3. MemoryInv /\ StageInv
  BY NoPagesTyped DEF MemoryInv, CopiedTo, StageInv
<1> QED
  BY <1>1, <1>2, <1>3 DEF LoaderInv

\* The stage is not among what three of the parts speak of.
LEMMA Framed ==
    ASSUME LoaderInv, UNCHANGED <<file, parsed, segments, copied, pages>>
    PROVE  TypeOK' /\ HeadersInv' /\ MemoryInv'
<1>1. TypeOK'
  BY DEF LoaderInv, TypeOK
<1>2. HeadersInv'
  BY DEF LoaderInv, HeadersInv
<1>3. MemoryInv'
  BY DEF LoaderInv, MemoryInv, CopiedTo, Reaches
<1> QED
  BY <1>1, <1>2, <1>3

\* Steps that leave everything but the stage, and the stage before the loops.
LEMMA StageSteps ==
    ASSUME LoaderInv, Preflight \/ Loaded \/ Ready \/ UNCHANGED vars
    PROVE  LoaderInv'
<1> USE DEF Preflight, Loaded, Ready, vars
<1>1. UNCHANGED <<file, parsed, segments, copied, pages>>
  OBVIOUS
<1>2. TypeOK' /\ HeadersInv' /\ MemoryInv'
  BY Framed
<1>3. StageInv'
  <2>1. CASE Preflight
    <3>1. stage' \notin {"copy", "ready"}
      BY <2>1
    <3> QED
      BY <2>1, <3>1 DEF LoaderInv, StageInv
  <2>2. CASE Loaded \/ Ready \/ UNCHANGED vars
    BY <2>2 DEF LoaderInv, StageInv
  <2> QED
    BY <2>1, <2>2
<1> QED
  BY <1>2, <1>3 DEF LoaderInv

\* A refusal is one more such step.
LEMMA RefusalKeeps ==
    ASSUME LoaderInv, NEW kind \in {"SegmentSizeMismatch", "panic"}, Reject(kind)
    PROVE  LoaderInv'
<1> USE DEF Reject
<1>1. TypeOK' /\ HeadersInv' /\ MemoryInv'
  BY Framed
<1>2. StageInv'
  BY DEF StageInv
<1> QED
  BY <1>1, <1>2 DEF LoaderInv

LEMMA SkipKeeps ==
    ASSUME LoaderInv, SkipHeader
    PROVE  LoaderInv'
<1> USE DEF SkipHeader, NextHeader, ph
<1>1. parsed' = parsed + 1 /\ parsed \in Nat /\ parsed < Len(file.headers)
  BY DEF LoaderInv, TypeOK
<1>2. TypeOK'
  BY <1>1, HeaderTyped DEF LoaderInv, TypeOK
<1>3. HeadersInv'
  BY <1>1, SegmentsSkip DEF LoaderInv, TypeOK, HeadersInv
<1>4. MemoryInv' /\ StageInv'
  BY DEF LoaderInv, MemoryInv, CopiedTo, Reaches, StageInv
<1> QED
  BY <1>2, <1>3, <1>4 DEF LoaderInv

LEMMA LoadKeeps ==
    ASSUME LoaderInv, LoadHeader
    PROVE  LoaderInv'
<1> DEFINE seg == [vaddr |-> ph.vaddr, mem_size |-> ph.memsz % WordSize,
                   data |-> SubSeq(file.bytes, ph.offset + 1, ph.offset + ph.filesz)]
<1>1. /\ parsed \in Nat /\ parsed + 1 \in 1 .. Len(file.headers)
      /\ file \in Files /\ ph \in Header /\ ph.load
      /\ stage = "headers"
  BY HeaderTyped DEF LoadHeader, LoaderInv, TypeOK, ph
<1>2. CASE ph.filesz > ph.memsz \/ ph.offset + ph.filesz > Len(file.bytes)
  BY <1>2, RefusalKeeps DEF LoadHeader
<1>3. CASE ~(ph.filesz > ph.memsz) /\ ~(ph.offset + ph.filesz > Len(file.bytes))
  <2>1. Sound(file, ph)
    <3>1. ph.filesz \in Int /\ ph.memsz \in Int /\ ph.offset + ph.filesz \in Int
      BY <1>1, Words DEF Header
    <3>2. Len(file.bytes) \in Int
      BY <1>1, FilesAssumption
    <3> QED
      BY <1>3, <3>1, <3>2 DEF Sound
  <2>2. seg \in Segment /\ Describes(file, ph, seg)
    BY <1>1, <2>1, SliceDescribed
  <2>3. /\ segments' = Append(segments, seg)
        /\ parsed' = parsed + 1
        /\ UNCHANGED <<file, copied, pages, stage>>
    BY <1>3 DEF LoadHeader, NextHeader
  <2> HIDE DEF seg
  <2>4. TypeOK'
    BY <1>1, <2>2, <2>3 DEF LoaderInv, TypeOK
  <2>5. HeadersInv'
    BY <1>1, <2>1, <2>2, <2>3, SegmentsAppend DEF LoaderInv, TypeOK, HeadersInv, ph
  <2>6. copied = 0 /\ copied' = 0
    BY <1>1, <2>3 DEF LoaderInv, StageInv
  <2>7. MemoryInv'
    BY <2>3, <2>6 DEF LoaderInv, MemoryInv, CopiedTo
  <2>8. StageInv'
    BY <1>1, <2>3, <2>6 DEF StageInv
  <2> QED
    BY <2>4, <2>5, <2>7, <2>8 DEF LoaderInv
<1> QED
  BY <1>2, <1>3

\* The bytes of a segment replace what was at the addresses that it reaches.
LEMMA CopyKeeps ==
    ASSUME LoaderInv, CopySegment
    PROVE  LoaderInv'
<1> DEFINE n   == copied + 1
           seg == segments[n]
<1>1. /\ copied \in Nat /\ n \in 1 .. Len(segments)
      /\ pages \in PageTable
      /\ seg \in Segment
  BY DEF CopySegment, LoaderInv, TypeOK
<1>2. /\ seg.vaddr \in Word
      /\ Len(seg.data) \in Nat
      /\ \A i \in 1 .. Len(seg.data) : seg.data[i] \in Byte
  BY <1>1 DEF Segment
<1>3. Len(seg.data) <= WordSize
  <2>1. PICK origin \in [1 .. Len(segments) -> 1 .. parsed] :
          Origin(file, parsed, segments, origin)
    BY DEF LoaderInv, HeadersInv, SegmentsOf
  <2>2. /\ origin[n] \in 1 .. Len(file.headers)
        /\ Len(seg.data) = file.headers[origin[n]].filesz
    BY <1>1, <2>1 DEF Origin, Describes, LoaderInv, TypeOK
  <2>3. file.headers[origin[n]] \in Header
    BY <2>2, HeaderTyped DEF LoaderInv, TypeOK
  <2> QED
    BY <2>2, <2>3, Words, Sizes DEF Header, Word
<1>4. /\ pages' = write_slice(pages, seg.vaddr, seg.data)
      /\ copied' = n
      /\ UNCHANGED <<file, parsed, segments, stage>>
  BY DEF CopySegment
<1>5. /\ pages' \in PageTable
      /\ Writes(pages, pages', seg.vaddr, seg.data)
  <2> HIDE DEF seg
  <2> QED
    BY <1>1, <1>2, <1>3, <1>4, WriteSliceTyped, WriteSliceWrites
<1>6. TypeOK'
  BY <1>1, <1>4, <1>5 DEF LoaderInv, TypeOK
<1>7. HeadersInv'
  BY <1>4 DEF LoaderInv, HeadersInv
<1>8. ASSUME NEW a \in Word
      PROVE  CopiedTo(a)'
  <2> DEFINE d == Distance(seg.vaddr, a)
  <2>1. read_u8(pages', a) = IF d < Len(seg.data) THEN seg.data[d + 1] ELSE read_u8(pages, a)
    BY <1>5 DEF Writes, Distance
  <2>2. /\ n \in 1 .. n
        /\ \A j \in n + 1 .. n : FALSE
        /\ \A j \in 1 .. n : j \in 1 .. copied \/ j = n
        /\ \A k \in 1 .. copied : k \in 1 .. n
        /\ \A k \in 1 .. copied : \A j \in k + 1 .. n : j \in k + 1 .. copied \/ j = n
    BY <1>1
  <2>3. CASE Reaches(seg, a)
    BY <1>4, <2>1, <2>2, <2>3 DEF Reaches, CopiedTo
  <2>4. CASE ~Reaches(seg, a)
    <3>1. read_u8(pages', a) = read_u8(pages, a)
      BY <2>1, <2>4 DEF Reaches
    <3>2. CopiedTo(a)
      BY DEF LoaderInv, MemoryInv
    <3> QED
      BY <1>4, <2>2, <2>4, <3>1, <3>2 DEF CopiedTo
  <2> QED
    BY <2>3, <2>4
<1>9. MemoryInv'
  BY <1>8 DEF MemoryInv
<1>10. StageInv'
  BY <1>4 DEF CopySegment, LoaderInv, StageInv
<1> QED
  BY <1>6, <1>7, <1>9, <1>10 DEF LoaderInv

\* After every step of both loops, the segments are the LOAD headers looked
\* at and memory is what the segments copied have left.
THEOREM LoaderInvariant == Spec => []LoaderInv
<1>1. LoaderInv /\ [Next]_vars => LoaderInv'
  BY StageSteps, SkipKeeps, LoadKeeps, CopyKeeps DEF Next
<1> QED
  BY <1>1, Starts, PTL DEF Spec

-----------------------------------------------------------------------------
\* The last of the segments that reach an address is that of the last header
\* that covers it.
LEMMA LastHeader ==
    ASSUME LoaderInv, parsed = Len(file.headers), copied = Len(segments),
           NEW a \in Word
    PROVE  read_u8(pages, a) =
              IF InFile(a) = {} THEN 0
              ELSE LET h == file.headers[Max(InFile(a))]
                   IN  file.bytes[h.offset + Distance(h.vaddr, a) + 1]
<1> DEFINE m == Len(segments)
           n == parsed
           C == InFile(a)
<1>1. PICK origin \in [1 .. m -> 1 .. n] : Origin(file, n, segments, origin)
  BY DEF LoaderInv, HeadersInv, SegmentsOf
<1>2. n \in Nat /\ m \in Nat /\ DOMAIN file.headers = 1 .. n
  BY HeaderTyped, FilesAssumption DEF LoaderInv, TypeOK
<1>3. ASSUME NEW k \in 1 .. m
      PROVE  /\ origin[k] \in 1 .. n
             /\ Reaches(segments[k], a) <=> origin[k] \in C
  BY <1>1, <1>2, <1>3 DEF Origin, Describes, Reaches, InFile, Covers
<1>4. ASSUME NEW j \in C
      PROVE  \E k \in 1 .. m : origin[k] = j
  BY <1>1, <1>2 DEF Origin, InFile, Covers
<1>5. CopiedTo(a)
  BY DEF LoaderInv, MemoryInv
<1>6. CASE \A k \in 1 .. m : ~Reaches(segments[k], a)
  <2>1. C = {}
    BY <1>3, <1>4, <1>6
  <2>2. read_u8(pages, a) = 0
    BY <1>5, <1>6 DEF CopiedTo
  <2> QED
    BY <2>1, <2>2
<1>7. CASE \E k \in 1 .. m : Reaches(segments[k], a)
  <2>1. PICK k \in 1 .. m :
          /\ Reaches(segments[k], a)
          /\ \A j \in k + 1 .. m : ~Reaches(segments[j], a)
          /\ read_u8(pages, a) = segments[k].data[Distance(segments[k].vaddr, a) + 1]
    BY <1>5, <1>7 DEF CopiedTo
  <2>2. origin[k] \in C
    BY <1>3, <2>1
  <2>3. ASSUME NEW j \in C, j # origin[k]
        PROVE  j < origin[k]
    <3>1. PICK l \in 1 .. m : origin[l] = j
      BY <1>4
    <3>2. Reaches(segments[l], a)
      BY <1>3, <3>1
    <3>3. ~(l \in k + 1 .. m)
      BY <2>1, <3>2
    <3>4. l < k
      BY <1>2, <2>1, <2>3, <3>1, <3>3
    <3> QED
      BY <1>1, <3>1, <3>4 DEF Origin
  <2>4. Max(C) \in C /\ \A j \in C : j <= Max(C)
    <3>1. C \in SUBSET (0 .. n) /\ C # {}
      BY <1>2, <2>2 DEF InFile
    <3> HIDE DEF C, n
    <3> QED
      BY <1>2, <3>1, MaxIsLargest
  <2>5. Max(C) = origin[k]
    <3>1. origin[k] \in Int /\ \A j \in C : j \in Int
      BY <1>2, <1>3 DEF InFile
    <3> HIDE DEF C
    <3> QED
      BY <2>2, <2>3, <2>4, <3>1
  <2> DEFINE h == file.headers[origin[k]]
             d == Distance(h.vaddr, a)
  <2>6. Describes(file, h, segments[k]) /\ h \in Header
    BY <1>1, <1>2, <1>3, HeaderTyped DEF Origin, LoaderInv, TypeOK
  <2>7. d \in Nat /\ d < h.filesz /\ h.filesz \in Nat
    <3>1. d < h.filesz
      BY <2>1, <2>6 DEF Reaches, Describes
    <3>2. h.vaddr \in Word /\ h.filesz \in Word
      BY <2>6 DEF Header
    <3> QED
      BY <3>1, <3>2, WrapWord, Words DEF Distance
  <2>8. read_u8(pages, a) = file.bytes[h.offset + d + 1]
    <3>1. d \in 0 .. h.filesz - 1
      BY <2>7
    <3> QED
      BY <2>1, <2>6, <3>1 DEF Describes
  <2> QED
    BY <2>2, <2>5, <2>8
<1> QED
  BY <1>6, <1>7

\* What is loaded is what the file says: load_rv32_elf accepts a file only
\* when each LOAD header names bytes that are there and fit, and Cpu::new then
\* leaves at each address the byte of the last segment that covers it, or zero.
\* The lemma says more than ImageOfFile, which leaves out the BSS of a segment
\* over the file bytes of an earlier one: there the earlier bytes stay.
THEOREM LoadsImage == Spec => []ImageOfFile
<1>1. LoaderInv => ImageOfFile
  <2> SUFFICES ASSUME LoaderInv, stage = "ready" PROVE ImageOfFile
    BY DEF ImageOfFile
  <2>1. parsed = Len(file.headers) /\ copied = Len(segments)
    BY DEF LoaderInv, StageInv
  <2>2. \A k \in DOMAIN file.headers :
          file.headers[k].load =>
             /\ file.headers[k].filesz <= file.headers[k].memsz
             /\ file.headers[k].offset + file.headers[k].filesz <= Len(file.bytes)
    BY <2>1, FilesAssumption DEF LoaderInv, TypeOK, HeadersInv, SegmentsOf, Sound
  <2> QED
    BY <2>1, <2>2, LastHeader DEF ImageOfFile
<1> QED
  BY <1>1, LoaderInvariant, PTL

\* memory_high_water is above every segment, or saturated.
THEOREM HighWater == Spec => []HighWaterAbove
<1>1. LoaderInv => HighWaterAbove
  <2> SUFFICES ASSUME LoaderInv, NEW k \in DOMAIN segments,
                      segments[k].mem_size > 0,
                      segments[k].vaddr + segments[k].mem_size <= WordSize
               PROVE  \/ memory_high_water = WordSize - 1
                      \/ segments[k].vaddr + segments[k].mem_size - 1 < memory_high_water
    BY DEF HighWaterAbove
  <2> DEFINE top == WordSize - 1
             end == [l \in DOMAIN segments |-> segments[l].vaddr + segments[l].mem_size]
             low == [l \in DOMAIN segments |-> Min({top, end[l]})]
             S   == {0} \cup { low[l] : l \in DOMAIN segments }
  <2>1. top \in Nat
    BY Sizes
  <2>2. \A l \in DOMAIN segments : end[l] \in Nat
    <3>1. \A l \in DOMAIN segments : segments[l] \in Segment
      BY DEF LoaderInv, TypeOK
    <3> QED
      BY <3>1, Words DEF Segment
  <2>3. memory_high_water = Max(S)
    BY DEF memory_high_water
  <2>4. end[k] <= top + 1 /\ end[k] = segments[k].vaddr + segments[k].mem_size
    BY Sizes
  <2> HIDE DEF top, end
  <2>5. \A l \in DOMAIN segments : low[l] = IF top <= end[l] THEN top ELSE end[l]
    BY <2>1, <2>2, MinOfTwo
  <2> HIDE DEF low
  <2>6. S \in SUBSET (0 .. top) /\ S # {} /\ low[k] \in S
    BY <2>1, <2>2, <2>5
  <2> HIDE DEF S
  <2>7. Max(S) \in 0 .. top /\ low[k] <= Max(S)
    BY <2>1, <2>6, MaxIsLargest
  <2>8. Max(S) = top \/ end[k] - 1 < Max(S)
    BY <2>1, <2>2, <2>4, <2>5, <2>7
  <2>9. end[k] - 1 = segments[k].vaddr + segments[k].mem_size - 1
    <3>1. segments[k].vaddr \in Int /\ segments[k].mem_size \in Int
      <4>1. segments[k] \in Segment
        BY DEF LoaderInv, TypeOK
      <4> QED
        BY <4>1, Words DEF Segment
    <3> QED
      BY <2>2, <2>4, <3>1
  <2> HIDE DEF memory_high_water
  <2>10. \/ memory_high_water = top
         \/ segments[k].vaddr + segments[k].mem_size - 1 < memory_high_water
    BY <2>3, <2>8, <2>9
  <2> QED
    BY <2>10 DEF top
<1> QED
  BY <1>1, LoaderInvariant, PTL
=============================================================================
