--------------------------- MODULE MC_MemoryBus ---------------------------
(* MemoryBus with one-bit bytes: 16 addresses in four pages of four bytes.  *)
EXTENDS MemoryBus

\* An aligned word, and one that starts in the last page and wraps.
MCStoreAddrs == {4, 13}
\* Two words that another byte order would change, and one it would not.
MCStoreWords == {1, 6, 11}
\* Aligned, and across the top of memory.
MCLoadAddrs  == {4, 13}
\* A segment in two pages, and one that spans three and wraps.
MCSlices == { [addr |-> 3, data |-> <<1, 1, 0>>],
              [addr |-> 11, data |-> <<1, 0, 1, 1, 0, 1>>] }
=============================================================================
