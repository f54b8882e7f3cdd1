---------------------------- MODULE GuestReader ----------------------------
(***************************************************************************)
(* A guest that keeps to the I/O ABI of the README over the host's IoState: *)
(* it fires HintInput, reads the length with a HINT_STOREW, and the entry   *)
(* with one or more HINT_BUFFERs; it asks for a hint (a square root, a      *)
(* pairing witness) only between entries, and reads the whole answer before *)
(* anything else.  The guest's runtime is not part of the repository: its   *)
(* steps are the ones the README lists, its effects those of the handlers.  *)
(***************************************************************************)
EXTENDS IoState

CONSTANTS
    Streams,    \* the entries the host queued
    Answers     \* the byte sequences a hint operation may produce

\* The length of an entry is written as a u32; hints are made of whole words
\* (a four-byte flag and the 32 or 48 bytes of each field element).
ASSUME ReaderAssumption ==
    /\ Streams \in Seq(Seq(Byte))
    /\ \A i \in 1 .. Len(Streams) : Len(Streams[i]) < WordSize
    /\ Answers \subseteq Seq(Byte)
    /\ \A a \in Answers : Len(a) % 4 = 0 /\ Len(a) > 0

VARIABLES
    io,         \* the host's state
    phase,      \* what the guest is doing
    len,        \* length it has read for the entry at hand
    buf,        \* bytes it has read of the entry or answer at hand
    got,        \* entries it has read
    question,   \* the hint produced for it and not yet read entirely
    answer      \* the last hint it has read entirely

vars == <<io, phase, len, buf, got, question, answer>>

Phase == {"idle", "length", "body", "answer", "ended"}

TypeOK ==
    /\ io \in IoStateType
    /\ phase \in Phase
    /\ len \in Word
    /\ buf \in Seq(Byte)
    /\ got \in Seq(Seq(Byte))
    /\ question \in Seq(Byte)
    /\ answer \in Seq(Byte)

\* Words the guest asks for to obtain n bytes.
words(n) == (n + 3) \div 4

-----------------------------------------------------------------------------
HintInput ==
    /\ phase = "idle"
    /\ ~EndOfInputStream(io)
    /\ io' = hint_input(io)
    /\ phase' = "length"
    /\ UNCHANGED <<len, buf, got, question, answer>>

\* The error ends the run; the hint stream has not been cleared.
HintInputFails ==
    /\ phase = "idle"
    /\ EndOfInputStream(io)
    /\ phase' = "ended"
    /\ UNCHANGED <<io, len, buf, got, question, answer>>

\* HINT_STOREW of the length.
ReadLength ==
    /\ phase = "length"
    /\ len' = from_le_bytes(read_hint_bytes(io, 4))
    /\ io' = after_read_hint(io, 4)
    /\ phase' = "body"
    /\ UNCHANGED <<buf, got, question, answer>>

\* HINT_BUFFER of some of the words of the entry that are left to read.
ReadBody ==
    /\ phase = "body"
    /\ 4 * words(len) > Len(buf)
    /\ \E k \in 1 .. words(len) - (Len(buf) \div 4) :
          /\ buf' = buf \o read_hint_bytes(io, 4 * k)
          /\ io' = after_read_hint(io, 4 * k)
    /\ UNCHANGED <<phase, len, got, question, answer>>

\* The entry is complete: its first len bytes are what read() returns.
EndOfEntry ==
    /\ phase = "body"
    /\ 4 * words(len) = Len(buf)
    /\ got' = Append(got, SubSeq(buf, 1, len))
    /\ buf' = <<>>
    /\ phase' = "idle"
    /\ UNCHANGED <<io, len, question, answer>>

\* The host answers with a and leaves the state new.
Ask(a, new) ==
    /\ phase = "idle"
    /\ io' = new
    /\ question' = a
    /\ phase' = "answer"
    /\ UNCHANGED <<len, buf, got, answer>>

HintSqrt     == \E a \in Answers : Ask(a, replace_hint_stream(io, a))
HintFinalExp == \E a \in Answers : Ask(a, extend_hint_stream(io, a))

\* HINT_STOREW (k = 1) or HINT_BUFFER of words of the answer.
ReadAnswer ==
    /\ phase = "answer"
    /\ Len(question) > Len(buf)
    /\ \E k \in 1 .. (Len(question) - Len(buf)) \div 4 :
          /\ buf' = buf \o read_hint_bytes(io, 4 * k)
          /\ io' = after_read_hint(io, 4 * k)
    /\ UNCHANGED <<phase, len, got, question, answer>>

EndOfAnswer ==
    /\ phase = "answer"
    /\ Len(question) = Len(buf)
    /\ answer' = buf
    /\ question' = <<>>
    /\ buf' = <<>>
    /\ phase' = "idle"
    /\ UNCHANGED <<io, len, got>>

-----------------------------------------------------------------------------
Init ==
    /\ io = with_input_streams(Streams)
    /\ phase = "idle"
    /\ len = 0
    /\ buf = <<>>
    /\ got = <<>>
    /\ question = <<>>
    /\ answer = <<>>

Next ==
    \/ HintInput \/ HintInputFails
    \/ ReadLength \/ ReadBody \/ EndOfEntry
    \/ HintSqrt \/ HintFinalExp
    \/ ReadAnswer \/ EndOfAnswer

\* A guest that has begun to read goes on: the interpreter executes its next
\* instruction.  Whether it begins again is up to the guest.
Fairness ==
    /\ WF_vars(ReadLength)
    /\ WF_vars(ReadBody)
    /\ WF_vars(EndOfEntry)
    /\ WF_vars(ReadAnswer)
    /\ WF_vars(EndOfAnswer)

Spec     == Init /\ [][Next]_vars
FairSpec == Spec /\ Fairness

-----------------------------------------------------------------------------
\* The entry the guest is reading: popped from the queue, not yet returned.
InHand == IF phase \in {"length", "body"} THEN <<Streams[Len(got) + 1]>> ELSE <<>>

Stdin == INSTANCE StdinQueue WITH unread <- InHand \o io.input_streams

\* The framing of hint_input, the padding, the zero-filled reads and the two
\* ways of filling the hint stream give the guest a queue of whole entries and
\* exact answers: no length taken for data, no padding left over to be taken
\* for the next length, no byte of an entry in an answer.
ImplementsStdinQueue == Stdin!Spec

\* Between entries nothing is left in the hint stream: a HintFinalExp, which
\* appends, is read from its first byte.
DrainedWhenIdle == phase \in {"idle", "ended"} => io.hint_stream = <<>>

\* While the guest reads an answer or an entry, the stream holds just what it
\* has still to ask for, so no read is filled up with zeros that the host
\* never sent.
NoUnderflow ==
    /\ phase = "length" => Len(io.hint_stream) >= 4
    /\ phase = "body"   => Len(buf) + Len(io.hint_stream) = 4 * words(len)
    /\ phase = "answer" => buf \o io.hint_stream = question

\* A guest that has begun to read gets to the end of what it reads.
ReadsEnd == (phase \in {"length", "body", "answer"}) ~> (phase = "idle")
=============================================================================
