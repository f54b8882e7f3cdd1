---------------------------- MODULE GuestProofs ----------------------------
(***************************************************************************)
(* The guest's reads over the host's streams implement a queue of whole     *)
(* entries with exact answers, for every byte size, every list of entries   *)
(* whose lengths fit a word and every set of answers made of whole words.   *)
(*                                                                         *)
(* The properties are not inductive: what the guest has read and what the   *)
(* stream still holds must be known together.  ReaderInv says that they     *)
(* make up the frame, or the answer, that the host sent, and that the       *)
(* queue holds the entries behind the ones read.                            *)
(***************************************************************************)
EXTENDS GuestReader, MachineLemmas

\* The entries that have left the queue, and the one the guest reads.
taken == IF phase \in {"length", "body"} THEN Len(got) + 1 ELSE Len(got)
Entry == Streams[Len(got) + 1]

\* An entry's frame without the length in front.
padded(entry) == SubSeq(framed(entry), 5, Len(framed(entry)))

\* The queue holds the entries behind the ones taken, in order.
QueueInv ==
    /\ taken \in 0 .. Len(Streams)
    /\ io.input_streams = SubSeq(Streams, taken + 1, Len(Streams))

\* The length read is that of the entry, and buffer and stream make up what
\* was sent: a frame, or an answer.
StreamInv ==
    /\ phase \in {"idle", "length", "ended"} => buf = <<>>
    /\ phase # "answer" => question = <<>>
    /\ phase \in {"idle", "ended"} => io.hint_stream = <<>>
    /\ phase = "length" => io.hint_stream = framed(Entry)
    /\ phase = "body" =>
          /\ len = Len(Entry)
          /\ Len(buf) % 4 = 0
          /\ buf \o io.hint_stream = padded(Entry)
    /\ phase = "answer" =>
          /\ Len(question) > 0
          /\ buf \o io.hint_stream = question

ReaderInv == TypeOK /\ QueueInv /\ StreamInv

-----------------------------------------------------------------------------
\* The head of what is left of the queue is the next entry.
LEMMA NextEntry ==
    ASSUME NEW n \in 0 .. Len(Streams), SubSeq(Streams, n + 1, Len(Streams)) # <<>>
    PROVE  /\ n + 1 \in 1 .. Len(Streams)
           /\ Head(SubSeq(Streams, n + 1, Len(Streams))) = Streams[n + 1]
           /\ Tail(SubSeq(Streams, n + 1, Len(Streams)))
                = SubSeq(Streams, n + 2, Len(Streams))
<1> DEFINE l == Len(Streams)
           Entries == Seq(Byte)
<1>1. Streams \in Seq(Entries) /\ l \in Nat
  BY ReaderAssumption
<1> HIDE DEF Entries
<1>2. n < l
  <2>1. l < n + 1 => SubSeq(Streams, n + 1, l) = <<>>
    BY <1>1, SubSeqEmpty
  <2> QED
    BY <1>1, <2>1
<1>3. n + 1 \in 1 .. l /\ l \in n + 1 .. l
  BY <1>1, <1>2
<1>4. /\ Head(SubSeq(Streams, n + 1, l)) = Streams[n + 1]
      /\ Tail(SubSeq(Streams, n + 1, l)) = SubSeq(Streams, (n + 1) + 1, l)
  <2> HIDE DEF l
  <2> QED
    BY <1>1, <1>3, HeadTailOfSubSeq DEF l
<1> QED
  BY <1>3, <1>4

\* An entry is a sequence of bytes whose length is a word.
LEMMA EntryTyped ==
    ASSUME NEW n \in 1 .. Len(Streams)
    PROVE  /\ Streams[n] \in Seq(Byte)
           /\ Len(Streams[n]) \in Word
           /\ Len(Streams[n]) % WordSize = Len(Streams[n])
<1> DEFINE Entries == Seq(Byte)
           m == Len(Streams[n])
<1>1. Streams \in Seq(Entries)
  BY ReaderAssumption
<1>2. Streams[n] \in Entries
  <2> HIDE DEF Entries
  <2> QED
    BY <1>1, ElementOfSeq
<1>3. m \in Nat /\ m < WordSize
  BY <1>2, ReaderAssumption
<1>4. m % WordSize = m
  <2> DEFINE W == WordSize
  <2>1. W \in Nat /\ m \in Nat /\ m < W
    BY <1>3, Sizes
  <2> HIDE DEF W, m
  <2>2. m % W = m
    BY <2>1
  <2> QED
    BY <2>2 DEF W
<1> QED
  BY <1>2, <1>3, <1>4, Words

\* The padded entry is made of the words a guest that knows the length asks
\* for, and starts with the entry's bytes.
LEMMA PaddedEntry ==
    ASSUME NEW entry \in Seq(Byte)
    PROVE  /\ padded(entry) \in Seq(Byte)
           /\ Len(padded(entry)) = 4 * words(Len(entry))
           /\ Len(entry) <= Len(padded(entry))
           /\ SubSeq(padded(entry), 1, Len(entry)) = entry
<1> DEFINE f == framed(entry)
           n == Len(entry)
           p == padded(entry)
<1>1. /\ f \in Seq(Byte)
      /\ Len(f) \in Nat /\ n \in Nat
      /\ Len(f) % 4 = 0
      /\ Len(f) - 4 - n \in 0 .. 3
      /\ \A i \in 1 .. n : f[4 + i] = entry[i]
  BY FramedTyped, SMTT(30)
<1>2. p = SubSeq(f, 5, Len(f))
  BY DEF padded
<1>3. \A i \in 1 .. n : entry[i] \in Byte
  BY ElementOfSeq
<1> HIDE DEF f, p, n
<1>4. \A i \in 5 .. Len(f) : f[i] \in Byte
  BY <1>1, ElementOfSeq
<1>5. /\ p \in Seq(Byte)
      /\ Len(p) = Len(f) - 4
      /\ \A i \in 1 .. Len(f) - 4 : p[i] = f[4 + i]
  <2>1. /\ p \in Seq(Byte)
        /\ Len(p) = IF 5 <= Len(f) THEN Len(f) - 5 + 1 ELSE 0
        /\ \A i \in 1 .. Len(f) - 5 + 1 : p[i] = f[5 + i - 1]
    BY <1>1, <1>2, <1>4, SubSeqProperties
  <2>2. Len(p) = Len(f) - 4
    <3>1. Len(f) \in Nat /\ Len(f) >= 4
      BY <1>1
    <3> DEFINE m == Len(f)
               l == Len(p)
    <3>2. l = IF 5 <= m THEN m - 5 + 1 ELSE 0
      BY <2>1
    <3>3. m \in Nat /\ m >= 4
      BY <3>1
    <3> HIDE DEF m, l
    <3>4. l = m - 4
      BY <3>2, <3>3
    <3> QED
      BY <3>4 DEF m, l
  <2>3. ASSUME NEW i \in 1 .. Len(f) - 4 PROVE p[i] = f[4 + i]
    <3>1. i \in 1 .. Len(f) - 5 + 1 /\ 5 + i - 1 = 4 + i
      BY <1>1
    <3> QED
      BY <2>1, <3>1
  <2> QED
    BY <2>1, <2>2, <2>3
<1>6. Len(p) = 4 * words(n)
  <2>1. Len(f) - 4 \in Nat /\ (Len(f) - 4) % 4 = 0 /\ (Len(f) - 4) - n \in 0 .. 3
    BY <1>1
  <2> QED
    BY <1>1, <1>5, <2>1, WholeWords DEF words
<1>7. n <= Len(p)
  BY <1>1, <1>5
<1>8. SubSeq(p, 1, n) = entry
  <2>1. \A i \in 1 .. n : p[i] = entry[i] /\ p[i] \in Byte
    BY <1>1, <1>3, <1>5
  <2>2. /\ SubSeq(p, 1, n) \in Seq(Byte)
        /\ Len(SubSeq(p, 1, n)) = n
        /\ \A i \in 1 .. n : SubSeq(p, 1, n)[i] = p[i]
    BY <1>1, <2>1, SubSeqProperties
  <2> QED
    BY <2>1, <2>2, SeqEqual DEF n
<1> QED
  BY <1>5, <1>6, <1>7, <1>8 DEF p, n

-----------------------------------------------------------------------------
\* Each action of the guest preserves the invariant.
LEMMA HintInputInv == ASSUME ReaderInv, HintInput PROVE ReaderInv'
<1> USE DEF ReaderInv
<1>1. /\ phase = "idle" /\ phase' = "length"
      /\ io.input_streams # <<>> /\ io' = hint_input(io)
      /\ UNCHANGED <<len, buf, got, question, answer>>
  BY DEF HintInput, EndOfInputStream
<1>2. /\ io' \in IoStateType
      /\ io'.input_streams = Tail(io.input_streams)
      /\ io'.hint_stream = framed(Head(io.input_streams))
  BY <1>1, HintInputTyped DEF TypeOK
<1>3. TypeOK'
  BY <1>1, <1>2 DEF TypeOK, Phase
<1>4. /\ taken = Len(got) /\ taken \in 0 .. Len(Streams)
      /\ io.input_streams = SubSeq(Streams, taken + 1, Len(Streams))
  BY <1>1 DEF QueueInv, taken
<1>5. taken' = taken + 1 /\ taken' + 1 = taken + 2
  BY <1>1, <1>4 DEF taken
<1>6. /\ taken + 1 \in 1 .. Len(Streams)
      /\ Head(io.input_streams) = Streams[taken + 1]
      /\ Tail(io.input_streams) = SubSeq(Streams, taken + 2, Len(Streams))
  BY <1>1, <1>4, NextEntry
<1>7. QueueInv'
  BY <1>2, <1>5, <1>6 DEF QueueInv
<1>8. Entry' = Head(io.input_streams)
  BY <1>1, <1>4, <1>6 DEF Entry
<1>9. StreamInv'
  BY <1>1, <1>2, <1>8 DEF StreamInv
<1> QED
  BY <1>3, <1>7, <1>9

LEMMA HintInputFailsInv == ASSUME ReaderInv, HintInputFails PROVE ReaderInv'
BY DEF ReaderInv, HintInputFails, TypeOK, Phase, QueueInv, taken, StreamInv

\* The length that is read is the entry's: it is the head of the frame.
LEMMA ReadLengthInv == ASSUME ReaderInv, ReadLength PROVE ReaderInv'
<1> USE DEF ReaderInv
<1> DEFINE n == Len(Entry)
           h == framed(Entry)
           read == read_hint_bytes(io, 4)
<1>1. /\ phase = "length" /\ phase' = "body"
      /\ len' = from_le_bytes(read) /\ io' = after_read_hint(io, 4)
      /\ UNCHANGED <<buf, got, question, answer>>
  BY DEF ReadLength
<1>2. io \in IoStateType /\ buf = <<>> /\ io.hint_stream = h /\ got \in Seq(Seq(Byte))
  BY <1>1 DEF TypeOK, StreamInv
<1>3. Len(got) + 1 \in 1 .. Len(Streams) /\ taken = Len(got) + 1
  BY <1>1, <1>2, LenProperties DEF QueueInv, taken
<1>4. Entry \in Seq(Byte) /\ n \in Word /\ n % WordSize = n
  BY <1>3, EntryTyped DEF Entry
<1>5. /\ h \in Seq(Byte) /\ Len(h) \in Nat /\ Len(h) >= 4
      /\ \A i \in 1 .. 4 : h[i] = to_le_bytes(n)[i]
  <2>1. /\ h \in Seq(Byte) /\ Len(h) \in Nat
        /\ Len(h) - 4 - n \in 0 .. 3
        /\ \A i \in 1 .. 4 : h[i] = to_le_bytes(n % WordSize)[i]
    BY <1>4, FramedTyped
  <2>2. n \in Nat
    BY <1>4, Words
  <2> QED
    BY <1>4, <2>1, <2>2
<1> HIDE DEF h, n
<1>6. /\ read[1] = h[1] /\ read[2] = h[2] /\ read[3] = h[3] /\ read[4] = h[4]
  BY <1>2, <1>5 DEF read_hint_bytes
<1>7. from_le_bytes(read) = from_le_bytes(to_le_bytes(n))
  BY <1>5, <1>6 DEF from_le_bytes
<1>8. len' = n
  BY <1>1, <1>4, <1>7, RoundTrip
<1>9. /\ io' \in IoStateType
      /\ io'.input_streams = io.input_streams
      /\ io'.hint_stream = SubSeq(h, 5, Len(h))
      /\ io'.hint_stream \in Seq(Byte)
  <2>1. 4 \in Nat /\ 4 \in 0 .. Len(io.hint_stream)
    BY <1>2, <1>5
  <2>2. after_read_hint(io, 4) \in IoStateType
        /\ after_read_hint(io, 4).input_streams = io.input_streams
    BY <1>2, <2>1, ReadHintTyped
  <2>3. /\ after_read_hint(io, 4).hint_stream \in Seq(Byte)
        /\ after_read_hint(io, 4).hint_stream
             = SubSeq(io.hint_stream, 4 + 1, Len(io.hint_stream))
    BY <1>2, <2>1, ReadSplits
  <2> QED
    BY <1>1, <1>2, <2>2, <2>3
<1>10. TypeOK'
  BY <1>1, <1>4, <1>8, <1>9 DEF TypeOK, Phase
<1>11. QueueInv'
  BY <1>1, <1>9 DEF QueueInv, taken
<1>12. buf' \o io'.hint_stream = padded(Entry)
  BY <1>1, <1>2, <1>9, ByteStrings DEF padded, h
<1>13. StreamInv'
  <2>1. Len(buf') % 4 = 0
    BY <1>1, <1>2, EmptySeq
  <2>2. Entry' = Entry /\ padded(Entry)' = padded(Entry)
    BY <1>1 DEF Entry, padded
  <2> QED
    BY <1>1, <1>8, <1>12, <2>1, <2>2 DEF StreamInv, n
<1> QED
  BY <1>10, <1>11, <1>13

\* While an entry is read, its words that have not been read are in the stream.
LEMMA BodyLeft ==
    ASSUME ReaderInv, phase = "body"
    PROVE  /\ io \in IoStateType /\ buf \in Seq(Byte)
           /\ Len(buf) \in Nat /\ Len(io.hint_stream) \in Nat
           /\ Len(got) + 1 \in 1 .. Len(Streams)
           /\ Entry \in Seq(Byte) /\ len = Len(Entry)
           /\ padded(Entry) \in Seq(Byte)
           /\ buf \o io.hint_stream = padded(Entry)
           /\ Len(buf) + Len(io.hint_stream) = 4 * words(len)
<1> USE DEF ReaderInv
<1>1. /\ io \in IoStateType /\ buf \in Seq(Byte) /\ got \in Seq(Seq(Byte))
      /\ io.hint_stream \in Seq(Byte)
  BY DEF TypeOK, IoStateType
<1>2. Len(got) + 1 \in 1 .. Len(Streams)
  BY <1>1, LenProperties DEF QueueInv, taken
<1>3. Entry \in Seq(Byte)
  BY <1>2, EntryTyped DEF Entry
<1>4. len = Len(Entry) /\ buf \o io.hint_stream = padded(Entry)
  BY DEF StreamInv
<1>5. padded(Entry) \in Seq(Byte) /\ Len(padded(Entry)) = 4 * words(Len(Entry))
  BY <1>3, PaddedEntry
<1>6. /\ Len(buf) \in Nat /\ Len(io.hint_stream) \in Nat
      /\ Len(buf \o io.hint_stream) = Len(buf) + Len(io.hint_stream)
  BY <1>1, ByteStrings
<1> QED
  BY <1>1, <1>2, <1>3, <1>4, <1>5, <1>6

LEMMA ReadBodyInv == ASSUME ReaderInv, ReadBody PROVE ReaderInv'
<1>1. /\ phase = "body"
      /\ UNCHANGED <<phase, len, got, question, answer>>
  BY DEF ReadBody
<1>2. PICK k \in 1 .. words(len) - (Len(buf) \div 4) :
         /\ buf' = buf \o read_hint_bytes(io, 4 * k)
         /\ io' = after_read_hint(io, 4 * k)
  BY DEF ReadBody
<1>3. /\ io \in IoStateType /\ buf \in Seq(Byte)
      /\ Len(buf) \in Nat /\ Len(io.hint_stream) \in Nat
      /\ buf \o io.hint_stream = padded(Entry)
      /\ Len(buf) + Len(io.hint_stream) = 4 * words(len)
      /\ len \in Nat
  BY <1>1, BodyLeft, Words DEF ReaderInv, TypeOK
<1>4. Len(buf) % 4 = 0
  BY <1>1 DEF ReaderInv, StreamInv
<1>5. k \in Nat /\ 4 * k <= Len(io.hint_stream)
  <2> DEFINE b == Len(buf)
             h == Len(io.hint_stream)
             w == words(len)
  <2>1. b \in Nat /\ h \in Nat /\ b + h = 4 * w /\ b % 4 = 0
    BY <1>3, <1>4
  <2>2. w \in Int
    BY <1>3 DEF words
  <2>3. k \in 1 .. w - (b \div 4)
    BY <1>2
  <2> HIDE DEF b, h, w
  <2>4. 4 * (b \div 4) = b /\ b \div 4 \in Int
    BY <2>1
  <2>5. k \in Nat /\ k <= w - (b \div 4)
    BY <2>2, <2>3, <2>4
  <2>6. 4 * k <= h
    BY <2>1, <2>2, <2>4, <2>5
  <2> QED
    BY <2>5, <2>6 DEF h
<1>6. /\ buf' \in Seq(Byte) /\ Len(buf') = Len(buf) + 4 * k
      /\ buf' \o io'.hint_stream = padded(Entry)
      /\ io' \in IoStateType /\ io'.input_streams = io.input_streams
  BY <1>2, <1>3, <1>5, ReadMoves
<1>7. Len(buf') % 4 = 0
  BY <1>3, <1>4, <1>5, <1>6
<1>8. padded(Entry)' = padded(Entry) /\ Entry' = Entry
  BY <1>1 DEF padded, Entry
<1> QED
  BY <1>1, <1>6, <1>7, <1>8 DEF ReaderInv, TypeOK, QueueInv, taken, StreamInv

\* What read() returns is the entry, and the padding is gone with it.
LEMMA EntryRead ==
    ASSUME ReaderInv, EndOfEntry
    PROVE  /\ Len(got) + 1 \in 1 .. Len(Streams)
           /\ SubSeq(buf, 1, len) = Entry /\ Entry \in Seq(Byte)
           /\ io.hint_stream = <<>>
<1>1. phase = "body" /\ 4 * words(len) = Len(buf)
  BY DEF EndOfEntry
<1>2. /\ Len(got) + 1 \in 1 .. Len(Streams)
      /\ Entry \in Seq(Byte) /\ len = Len(Entry) /\ buf \in Seq(Byte)
      /\ Len(buf) \in Nat /\ Len(io.hint_stream) \in Nat
      /\ buf \o io.hint_stream = padded(Entry)
      /\ Len(buf) + Len(io.hint_stream) = 4 * words(len)
      /\ io.hint_stream \in Seq(Byte)
  BY <1>1, BodyLeft DEF IoStateType
<1>3. io.hint_stream = <<>>
  <2>1. Len(io.hint_stream) = 0
    BY <1>1, <1>2
  <2> QED
    BY <1>2, <2>1, EmptySeq
<1>4. buf = padded(Entry)
  BY <1>2, <1>3, ByteStrings
<1>5. SubSeq(padded(Entry), 1, Len(Entry)) = Entry
  BY <1>2, PaddedEntry
<1> QED
  BY <1>2, <1>3, <1>4, <1>5

LEMMA EndOfEntryInv == ASSUME ReaderInv, EndOfEntry PROVE ReaderInv'
<1>1. /\ phase = "body" /\ phase' = "idle" /\ buf' = <<>>
      /\ got' = Append(got, SubSeq(buf, 1, len))
      /\ UNCHANGED <<io, len, question, answer>>
  BY DEF EndOfEntry
<1>2. /\ Len(got) + 1 \in 1 .. Len(Streams)
      /\ SubSeq(buf, 1, len) = Entry /\ Entry \in Seq(Byte)
      /\ io.hint_stream = <<>>
  BY EntryRead
<1>3. got' \in Seq(Seq(Byte)) /\ Len(got') = Len(got) + 1
  <2> DEFINE Entries == Seq(Byte)
  <2>1. got \in Seq(Entries) /\ Entry \in Entries /\ got' = Append(got, Entry)
    BY <1>1, <1>2 DEF ReaderInv, TypeOK
  <2> HIDE DEF Entries
  <2>2. got' \in Seq(Entries) /\ Len(got') = Len(got) + 1
    BY <2>1, AppendProperties
  <2> QED
    BY <2>2 DEF Entries
<1>4. TypeOK'
  BY <1>1, <1>3, EmptySeq DEF ReaderInv, TypeOK, Phase
<1>5. taken' = taken
  BY <1>1, <1>3 DEF taken
<1>6. QueueInv'
  BY <1>1, <1>5 DEF ReaderInv, QueueInv
<1>7. StreamInv'
  BY <1>1, <1>2 DEF ReaderInv, StreamInv
<1> QED
  BY <1>4, <1>6, <1>7 DEF ReaderInv

\* An answer starts at the head of the stream, whichever way it is put there:
\* between entries the stream is empty.
LEMMA Asked ==
    ASSUME ReaderInv, HintSqrt \/ HintFinalExp
    PROVE  \E a \in Answers :
              /\ a \in Seq(Byte) /\ Len(a) > 0
              /\ phase = "idle" /\ phase' = "answer" /\ question' = a
              /\ io' \in IoStateType
              /\ io'.input_streams = io.input_streams
              /\ io'.hint_stream = a
              /\ UNCHANGED <<len, buf, got, answer>>
<1>1. PICK a \in Answers : \/ Ask(a, replace_hint_stream(io, a))
                           \/ Ask(a, extend_hint_stream(io, a))
  BY DEF HintSqrt, HintFinalExp
<1>2. a \in Seq(Byte) /\ Len(a) > 0
  BY ReaderAssumption
<1>3. /\ phase = "idle" /\ phase' = "answer" /\ question' = a
      /\ UNCHANGED <<len, buf, got, answer>>
      /\ io' = replace_hint_stream(io, a) \/ io' = extend_hint_stream(io, a)
  BY <1>1 DEF Ask
<1>4. io \in IoStateType /\ io.hint_stream = <<>>
  BY <1>3 DEF ReaderInv, TypeOK, StreamInv
<1>5. extend_hint_stream(io, a).hint_stream = a
  <2>1. extend_hint_stream(io, a).hint_stream = <<>> \o a
    BY <1>4 DEF extend_hint_stream, IoStateType
  <2> QED
    BY <1>2, <2>1, ByteStrings
<1>6. /\ io' \in IoStateType /\ io'.input_streams = io.input_streams
      /\ io'.hint_stream = a
  BY <1>2, <1>3, <1>4, <1>5, ProducedHintTyped
<1> QED
  BY <1>2, <1>3, <1>6

LEMMA AskInv == ASSUME ReaderInv, HintSqrt \/ HintFinalExp PROVE ReaderInv'
<1>1. PICK a \in Answers :
              /\ a \in Seq(Byte) /\ Len(a) > 0
              /\ phase = "idle" /\ phase' = "answer" /\ question' = a
              /\ io' \in IoStateType
              /\ io'.input_streams = io.input_streams
              /\ io'.hint_stream = a
              /\ UNCHANGED <<len, buf, got, answer>>
  BY Asked
<1>2. TypeOK'
  BY <1>1 DEF ReaderInv, TypeOK, Phase
<1>3. QueueInv'
  BY <1>1 DEF ReaderInv, QueueInv, taken
<1>4. buf' \o io'.hint_stream = a
  <2>1. buf' = <<>>
    BY <1>1 DEF ReaderInv, StreamInv
  <2> QED
    BY <1>1, <2>1, ByteStrings
<1>5. StreamInv'
  BY <1>1, <1>4 DEF StreamInv
<1> QED
  BY <1>2, <1>3, <1>5 DEF ReaderInv

\* While an answer is read, what has not been read of it is in the stream.
LEMMA AnswerLeft ==
    ASSUME ReaderInv, phase = "answer"
    PROVE  /\ io \in IoStateType /\ buf \in Seq(Byte) /\ io.hint_stream \in Seq(Byte)
           /\ Len(buf) \in Nat /\ Len(io.hint_stream) \in Nat
           /\ buf \o io.hint_stream = question
           /\ Len(question) = Len(buf) + Len(io.hint_stream)
           /\ Len(question) > 0
<1>1. io \in IoStateType /\ buf \in Seq(Byte) /\ io.hint_stream \in Seq(Byte)
  BY DEF ReaderInv, TypeOK, IoStateType
<1>2. buf \o io.hint_stream = question /\ Len(question) > 0
  BY DEF ReaderInv, StreamInv
<1> QED
  BY <1>1, <1>2, ByteStrings

LEMMA ReadAnswerInv == ASSUME ReaderInv, ReadAnswer PROVE ReaderInv'
<1>1. /\ phase = "answer"
      /\ UNCHANGED <<phase, len, got, question, answer>>
  BY DEF ReadAnswer
<1>2. PICK k \in 1 .. (Len(question) - Len(buf)) \div 4 :
         /\ buf' = buf \o read_hint_bytes(io, 4 * k)
         /\ io' = after_read_hint(io, 4 * k)
  BY DEF ReadAnswer
<1>3. /\ io \in IoStateType /\ buf \in Seq(Byte)
      /\ Len(buf) \in Nat /\ Len(io.hint_stream) \in Nat
      /\ buf \o io.hint_stream = question
      /\ Len(question) = Len(buf) + Len(io.hint_stream)
  BY <1>1, AnswerLeft
<1>4. k \in Nat /\ 4 * k <= Len(io.hint_stream)
  <2> DEFINE h == Len(io.hint_stream)
  <2>1. h \in Nat /\ Len(question) - Len(buf) = h
    BY <1>3
  <2>2. k \in 1 .. h \div 4
    BY <1>2, <2>1
  <2> HIDE DEF h
  <2>3. 4 * (h \div 4) <= h /\ h \div 4 \in Int
    BY <2>1
  <2>4. k \in Nat /\ 4 * k <= h
    BY <2>1, <2>2, <2>3
  <2> QED
    BY <2>4 DEF h
<1>5. /\ buf' \in Seq(Byte)
      /\ buf' \o io'.hint_stream = question
      /\ io' \in IoStateType /\ io'.input_streams = io.input_streams
  BY <1>2, <1>3, <1>4, ReadMoves
<1> QED
  BY <1>1, <1>5 DEF ReaderInv, TypeOK, QueueInv, taken, StreamInv

\* What the guest has when it has read the last word is the answer.
LEMMA AnswerRead ==
    ASSUME ReaderInv, EndOfAnswer
    PROVE  buf = question /\ question # <<>> /\ io.hint_stream = <<>>
<1>1. phase = "answer" /\ Len(question) = Len(buf)
  BY DEF EndOfAnswer
<1>2. /\ buf \in Seq(Byte) /\ io.hint_stream \in Seq(Byte)
      /\ Len(buf) \in Nat /\ Len(io.hint_stream) \in Nat
      /\ buf \o io.hint_stream = question
      /\ Len(question) = Len(buf) + Len(io.hint_stream)
      /\ Len(question) > 0
  BY <1>1, AnswerLeft
<1>3. io.hint_stream = <<>>
  <2>1. Len(io.hint_stream) = 0
    BY <1>1, <1>2
  <2> QED
    BY <1>2, <2>1, EmptySeq
<1> QED
  BY <1>2, <1>3, ByteStrings, EmptySeq

LEMMA EndOfAnswerInv == ASSUME ReaderInv, EndOfAnswer PROVE ReaderInv'
<1>1. /\ phase = "answer" /\ phase' = "idle"
      /\ answer' = buf /\ question' = <<>> /\ buf' = <<>>
      /\ UNCHANGED <<io, len, got>>
  BY DEF EndOfAnswer
<1>2. io.hint_stream = <<>>
  BY AnswerRead
<1>3. TypeOK'
  BY <1>1, EmptySeq DEF ReaderInv, TypeOK, Phase
<1>4. QueueInv'
  BY <1>1 DEF ReaderInv, QueueInv, taken
<1>5. StreamInv'
  BY <1>1, <1>2 DEF StreamInv
<1> QED
  BY <1>3, <1>4, <1>5 DEF ReaderInv

LEMMA InitInv == Init => ReaderInv
<1> SUFFICES ASSUME Init PROVE ReaderInv
  OBVIOUS
<1> DEFINE Entries == Seq(Byte)
<1>1. /\ io = with_input_streams(Streams) /\ phase = "idle" /\ len = 0
      /\ buf = <<>> /\ got = <<>> /\ question = <<>> /\ answer = <<>>
  BY DEF Init
<1>2. Streams \in Seq(Entries) /\ Len(Streams) \in Nat
  BY ReaderAssumption
<1>3. /\ io \in IoStateType /\ io.input_streams = Streams /\ io.hint_stream = <<>>
  BY <1>1, <1>2, EmptySeq DEF with_input_streams, IoStateType
<1>4. TypeOK
  BY <1>1, <1>3, EmptySeq, Words DEF TypeOK, Phase
<1>5. QueueInv
  <2>1. SubSeq(Streams, 1, Len(Streams)) = Streams
    <3> HIDE DEF Entries
    <3> QED
      BY <1>2, SubSeqFull
  <2>2. taken = 0
    BY <1>1 DEF taken
  <2> QED
    BY <1>2, <1>3, <2>1, <2>2 DEF QueueInv
<1>6. StreamInv
  BY <1>1, <1>3 DEF StreamInv
<1> QED
  BY <1>4, <1>5, <1>6 DEF ReaderInv

\* What the guest has read and what the stream holds always make up what the
\* host sent.
THEOREM ReaderInvariant == Spec => []ReaderInv
<1>1. ReaderInv /\ [Next]_vars => ReaderInv'
  <2> SUFFICES ASSUME ReaderInv, [Next]_vars PROVE ReaderInv'
    OBVIOUS
  <2>1. CASE HintInput
    BY <2>1, HintInputInv
  <2>2. CASE HintInputFails
    BY <2>2, HintInputFailsInv
  <2>3. CASE ReadLength
    BY <2>3, ReadLengthInv
  <2>4. CASE ReadBody
    BY <2>4, ReadBodyInv
  <2>5. CASE EndOfEntry
    BY <2>5, EndOfEntryInv
  <2>6. CASE HintSqrt \/ HintFinalExp
    BY <2>6, AskInv
  <2>7. CASE ReadAnswer
    BY <2>7, ReadAnswerInv
  <2>8. CASE EndOfAnswer
    BY <2>8, EndOfAnswerInv
  <2>9. CASE UNCHANGED vars
    BY <2>9 DEF vars, ReaderInv, TypeOK, QueueInv, taken, StreamInv, Entry, padded
  <2> QED
    BY <2>1, <2>2, <2>3, <2>4, <2>5, <2>6, <2>7, <2>8, <2>9 DEF Next
<1> QED
  BY InitInv, <1>1, PTL DEF Spec

\* Between entries the hint stream is empty, so that a HintFinalExp, which
\* appends to it, is read from its first byte.
THEOREM StreamDrained == Spec => []DrainedWhenIdle
<1>1. ReaderInv => DrainedWhenIdle
  BY DEF ReaderInv, StreamInv, DrainedWhenIdle
<1> QED
  BY <1>1, ReaderInvariant, PTL

\* No read of a guest that keeps to the ABI is filled up with zeros.
THEOREM ReadsServed == Spec => []NoUnderflow
<1>1. ASSUME ReaderInv, phase = "length" PROVE Len(io.hint_stream) >= 4
  <2>1. /\ io.hint_stream = framed(Entry)
        /\ Len(got) + 1 \in 1 .. Len(Streams)
    BY <1>1, LenProperties DEF ReaderInv, TypeOK, StreamInv, QueueInv, taken
  <2>2. Entry \in Seq(Byte) /\ Len(Entry) \in Nat
    BY <2>1, EntryTyped DEF Entry
  <2> DEFINE f == Len(framed(Entry))
             n == Len(Entry)
  <2>3. f \in Nat /\ f - 4 - n \in 0 .. 3 /\ n \in Nat
    BY <2>2, FramedTyped
  <2> HIDE DEF f, n
  <2>4. f >= 4
    BY <2>3
  <2> QED
    BY <2>1, <2>4 DEF f
<1>2. ASSUME ReaderInv, phase = "body"
      PROVE  Len(buf) + Len(io.hint_stream) = 4 * words(len)
  BY <1>2, BodyLeft
<1>3. ASSUME ReaderInv, phase = "answer" PROVE buf \o io.hint_stream = question
  BY <1>3, AnswerLeft
<1>4. ReaderInv => NoUnderflow
  BY <1>1, <1>2, <1>3 DEF NoUnderflow
<1> QED
  BY <1>4, ReaderInvariant, PTL

-----------------------------------------------------------------------------
\* The entries that StdinQueue has not returned: the one in hand, and the
\* queue.  It loses its head when the guest has read an entry to its end, and
\* at no other time.
unread == InHand \o io.input_streams

LEMMA UnreadInOrder ==
    ASSUME ReaderInv
    PROVE  /\ Len(got) \in 0 .. Len(Streams)
           /\ unread = SubSeq(Streams, Len(got) + 1, Len(Streams))
<1> DEFINE Entries == Seq(Byte)
           n == Len(got)
           l == Len(Streams)
<1>1. Streams \in Seq(Entries) /\ l \in Nat /\ got \in Seq(Entries) /\ n \in Nat
  BY ReaderAssumption DEF ReaderInv, TypeOK
<1>2. taken \in 0 .. l /\ io.input_streams = SubSeq(Streams, taken + 1, l)
  BY DEF ReaderInv, QueueInv
<1>3. CASE phase \in {"length", "body"}
  <2>1. taken = n + 1 /\ InHand = <<Streams[n + 1]>>
    BY <1>3 DEF taken, InHand
  <2>2. n + 1 \in 1 .. l /\ l \in n + 1 .. l
    BY <1>1, <1>2, <2>1
  <2>3. SubSeq(Streams, n + 1, l) = <<Streams[n + 1]>> \o SubSeq(Streams, (n + 1) + 1, l)
    <3> HIDE DEF Entries, n
    <3> QED
      BY <1>1, <2>2, SubSeqRecursiveFirst
  <2>4. taken + 1 = (n + 1) + 1 /\ n \in 0 .. l
    BY <1>1, <2>1, <2>2
  <2>5. unread = <<Streams[n + 1]>> \o SubSeq(Streams, (n + 1) + 1, l)
    BY <1>2, <2>1, <2>4 DEF unread
  <2> QED
    BY <2>3, <2>4, <2>5, Zenon
<1>4. CASE phase \notin {"length", "body"}
  <2>1. taken = n /\ InHand = <<>>
    BY <1>4 DEF taken, InHand
  <2>2. io.input_streams \in Seq(Entries)
    BY DEF ReaderInv, TypeOK, IoStateType
  <2>3. <<>> \o io.input_streams = io.input_streams
    <3> HIDE DEF Entries
    <3> QED
      BY <2>2, ConcatEmptySeq
  <2> QED
    BY <1>1, <1>2, <2>1, <2>3 DEF unread
<1> QED
  BY <1>3, <1>4

\* A step that does not return an entry leaves the abstract queue alone.
LEMMA UnreadKept ==
    ASSUME ReaderInv, ReaderInv', UNCHANGED got
    PROVE  UNCHANGED unread
<1>1. unread = SubSeq(Streams, Len(got) + 1, Len(Streams))
  BY UnreadInOrder
<1>2. (Len(got) \in 0 .. Len(Streams)
        /\ unread = SubSeq(Streams, Len(got) + 1, Len(Streams)))'
  BY UnreadInOrder, PTL
<1> QED
  BY <1>1, <1>2

\* Every behaviour of a guest that keeps to the ABI is one of the queue of
\* whole entries with exact answers.
THEOREM ReaderIsQueue == Spec => ImplementsStdinQueue
<1>1. Init => Stdin!Init
  <2> SUFFICES ASSUME Init PROVE Stdin!Init
    OBVIOUS
  <2>1. io.input_streams = Streams /\ InHand = <<>>
    BY DEF Init, with_input_streams, InHand
  <2>2. <<>> \o Streams = Streams
    <3> DEFINE Entries == Seq(Byte)
    <3>1. Streams \in Seq(Entries)
      BY ReaderAssumption
    <3> HIDE DEF Entries
    <3> QED
      BY <3>1, ConcatEmptySeq
  <2> QED
    BY <2>1, <2>2 DEF Stdin!Init, Init
<1>2. ReaderInv /\ ReaderInv' /\ [Next]_vars
        => [Stdin!Next]_<<unread, got, question, answer>>
  <2> SUFFICES ASSUME ReaderInv, ReaderInv', [Next]_vars
               PROVE  \/ Stdin!Read \/ Stdin!Ask \/ Stdin!Answer
                      \/ UNCHANGED <<unread, got, question, answer>>
    BY DEF Stdin!Next, unread
  <2>1. CASE HintInput \/ HintInputFails \/ ReadLength \/ ReadBody \/ ReadAnswer
             \/ UNCHANGED vars
    <3>1. UNCHANGED <<got, question, answer>>
      BY <2>1 DEF HintInput, HintInputFails, ReadLength, ReadBody, ReadAnswer, vars
    <3> QED
      BY <3>1, UnreadKept
  <2>2. CASE EndOfEntry
    <3>1. /\ Len(got) + 1 \in 1 .. Len(Streams)
          /\ SubSeq(buf, 1, len) = Streams[Len(got) + 1]
      BY <2>2, EntryRead DEF Entry
    <3>2. /\ phase = "body" /\ phase' = "idle"
          /\ got' = Append(got, SubSeq(buf, 1, len))
          /\ UNCHANGED <<io, question, answer>>
      BY <2>2 DEF EndOfEntry
    <3> DEFINE Entries == Seq(Byte)
               rest == io.input_streams
    <3>3. rest \in Seq(Entries) /\ Streams[Len(got) + 1] \in Entries
      BY <3>1, EntryTyped DEF ReaderInv, TypeOK, IoStateType
    <3>4. unread = <<Streams[Len(got) + 1]>> \o rest /\ unread' = <<>> \o rest
      BY <3>2 DEF unread, InHand
    <3> HIDE DEF Entries, rest
    <3>5. /\ unread # <<>>
          /\ Head(unread) = Streams[Len(got) + 1]
          /\ Tail(unread) = rest
      BY <3>3, <3>4
    <3>6. unread' = rest
      BY <3>3, <3>4, ConcatEmptySeq
    <3> QED
      BY <3>1, <3>2, <3>5, <3>6 DEF Stdin!Read, unread
  <2>3. CASE HintSqrt \/ HintFinalExp
    <3>1. PICK a \in Answers : /\ phase = "idle" /\ question' = a
                               /\ UNCHANGED <<got, answer>>
      BY <2>3, Asked
    <3>2. question = <<>>
      BY <3>1 DEF ReaderInv, StreamInv
    <3>3. UNCHANGED unread
      BY <3>1, UnreadKept
    <3> QED
      BY <3>1, <3>2, <3>3 DEF Stdin!Ask, unread
  <2>4. CASE EndOfAnswer
    <3>1. answer' = buf /\ question' = <<>> /\ UNCHANGED got
      BY <2>4 DEF EndOfAnswer
    <3>2. buf = question /\ question # <<>>
      BY <2>4, AnswerRead
    <3>3. UNCHANGED unread
      BY <3>1, UnreadKept
    <3> QED
      BY <3>1, <3>2, <3>3 DEF Stdin!Answer, unread
  <2> QED
    BY <2>1, <2>2, <2>3, <2>4 DEF Next
<1> QED
  BY <1>1, <1>2, ReaderInvariant, PTL DEF Spec, ImplementsStdinQueue, Stdin!Spec, unread
=============================================================================
