----------------------------- MODULE MC_Runner -----------------------------
(* The echo guest, and one that reveals the same and then fails.            *)
EXTENDS Runner

MCDecoded == [EchoDecoded EXCEPT ![Len(Program)] = @ \cup {unimp}]
MCStdin   == <<3, 2, 1>>
MCInputs  == { << >>, MCStdin, [i \in 1 .. 21 |-> (2 * i + 1) % 4] }
MCQueues  == { << >> }
NoSizes   == << >>

\* The premise of the theorem on this program.
ASSUME MCEchoLoaded == EchoLoaded
=============================================================================
