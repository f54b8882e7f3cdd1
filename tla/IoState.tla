------------------------------ MODULE IoState ------------------------------
(***************************************************************************)
(* The host side of a run (struct IoState of crates/precompiles/src/lib.rs):*)
(* the queue of input streams, the hint stream the guest pops bytes from,   *)
(* and the public output.  The operators take and yield a record with these *)
(* three fields; a method that also returns bytes is a pair of operators,   *)
(* one for the bytes and one for the state it leaves.                       *)
(***************************************************************************)
EXTENDS Word

IoStateType ==
    [input_streams : Seq(Seq(Byte)), hint_stream : Seq(Byte), output : Seq(Byte)]

with_input_streams(streams) ==
    [input_streams |-> streams, hint_stream |-> <<>>, output |-> <<>>]

Zeros(n) == [i \in 1 .. n |-> 0]

\* -----------------------------------------------------------------------
\* What fills the hint stream.

\* Mutants of pad_to_word: no padding; a word of padding for aligned bytes.
unpadded(bytes)       == bytes
pad_whole_word(bytes) == bytes \o Zeros(4 - (Len(bytes) % 4))

\* Zeros up to the next multiple of four bytes.
pad_to_word(bytes) == bytes \o Zeros((-Len(bytes)) % 4)

\* Mutant of framed: the length is not pushed.
framed_without_length(entry) == pad_to_word(entry)

\* An input entry as the guest reads it: length as a u32, bytes, padding.
framed(entry) == pad_to_word(to_le_bytes(Len(entry) % WordSize) \o entry)

EndOfInputStream(io) == io.input_streams = <<>>

\* Mutant of hint_input: the stream is not cleared.
hint_input_uncleared(io) ==
    [io EXCEPT !.input_streams = Tail(@),
               !.hint_stream   = @ \o framed(Head(io.input_streams))]

\* HintInput, when there is an entry: what was left unread is dropped.
hint_input(io) ==
    [io EXCEPT !.input_streams = Tail(@),
               !.hint_stream   = framed(Head(io.input_streams))]

\* HintNonQr and HintSqrt drop what was left unread as well.
replace_hint_stream(io, bytes) == [io EXCEPT !.hint_stream = bytes]

\* HintFinalExp puts its answer behind what was left unread.
extend_hint_stream(io, bytes) == [io EXCEPT !.hint_stream = @ \o bytes]

\* -----------------------------------------------------------------------
\* What the guest takes from it: n bytes, zeros once the stream is empty.

\* Mutant of read_hint_bytes: a range that includes its end.
read_hint_bytes_inclusive(io, n) ==
    [i \in 1 .. n + 1 |-> IF i <= Len(io.hint_stream) THEN io.hint_stream[i] ELSE 0]

read_hint_bytes(io, n) ==
    [i \in 1 .. n |-> IF i <= Len(io.hint_stream) THEN io.hint_stream[i] ELSE 0]

after_read_hint(io, n) ==
    [io EXCEPT !.hint_stream = SubSeq(@, n + 1, Len(@))]

\* -----------------------------------------------------------------------
\* The public output grows, with zeros, to hold the bytes written.

\* Mutant of write_output: resized also when that makes it shorter.
write_output_resized(io, offset, bytes) ==
    [io EXCEPT !.output =
       [i \in 1 .. offset + Len(bytes) |->
          IF i > offset THEN bytes[i - offset]
          ELSE IF i <= Len(io.output) THEN io.output[i] ELSE 0]]

write_output(io, offset, bytes) ==
    LET end == offset + Len(bytes)
        old == io.output
    IN  [io EXCEPT !.output =
           [i \in 1 .. (IF Len(old) < end THEN end ELSE Len(old)) |->
              IF i \in offset + 1 .. end THEN bytes[i - offset]
              ELSE IF i <= Len(old) THEN old[i] ELSE 0]]
=============================================================================
