--------------------------- MODULE MC_EchoGuest ---------------------------
EXTENDS EchoGuest

\* No entry; entries shorter than, as long as and longer than what is echoed,
\* with every amount of padding; a second entry that must stay in the queue.
MCInputQueues ==
    { << >>, << << >> >>, << <<3>> >>, << <<1, 2, 3, 0, 1, 2>> >>,
      << [i \in 1 .. 15 |-> i % 4] >>, << [i \in 1 .. 16 |-> (i + 1) % 4], <<3, 3>> >>,
      << [i \in 1 .. 21 |-> (2 * i + 1) % 4] >> }
NoSizes == << >>
=============================================================================
