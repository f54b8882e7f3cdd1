---------------------------- MODULE StdinQueue ----------------------------
(***************************************************************************)
(* What the I/O ABI promises a guest: reading returns the entries the host  *)
(* queued, whole and in order, and a question to the host is answered with  *)
(* the host's answer to that question.                                      *)
(***************************************************************************)
EXTENDS Sequences

CONSTANTS
    Streams,    \* the entries the host queued
    Answers     \* the answers the host may give to a hint request

VARIABLES
    unread,     \* entries not yet returned
    got,        \* entries returned
    question,   \* the answer the host has settled on, <<>> when there is none
    answer      \* the last answer the guest has received

Read ==
    /\ unread # <<>>
    /\ got' = Append(got, Head(unread))
    /\ unread' = Tail(unread)
    /\ UNCHANGED <<question, answer>>

Ask ==
    /\ question = <<>>
    /\ \E a \in Answers : question' = a
    /\ UNCHANGED <<unread, got, answer>>

Answer ==
    /\ question # <<>>
    /\ answer' = question
    /\ question' = <<>>
    /\ UNCHANGED <<unread, got>>

Init ==
    /\ unread = Streams
    /\ got = <<>>
    /\ question = <<>>
    /\ answer = <<>>

Next == Read \/ Ask \/ Answer

Spec == Init /\ [][Next]_<<unread, got, question, answer>>
=============================================================================
