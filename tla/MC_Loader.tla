----------------------------- MODULE MC_Loader -----------------------------
(* Files of five bytes with up to two headers, which overlap, touch, wrap    *)
(* around the top of memory or point outside of the file; and one file for  *)
(* each check in front of the headers.                                      *)
EXTENDS Loader

Headers == [load : {TRUE}, offset : {0, 3}, filesz : {0, 2, 3}, memsz : {2, 4}, vaddr : {0, 3, 14}]
           \cup [load : {FALSE}, offset : {9}, filesz : {4}, memsz : {0}, vaddr : {0}]

Good(headers) ==
    [ident |-> TRUE, class32 |-> TRUE, little |-> TRUE, parses |-> TRUE, riscv |-> TRUE,
     exec |-> TRUE, table |-> TRUE, headers |-> headers, bytes |-> <<1, 0, 1, 1, 1>>]

MCFiles ==
    { Good(headers) : headers \in UNION { [1 .. n -> Headers] : n \in 0 .. 2 } }
      \cup { [Good(<<>>) EXCEPT !.class32 = FALSE, !.little = FALSE],
             [Good(<<>>) EXCEPT !.little = FALSE],
             [Good(<<>>) EXCEPT !.ident = FALSE, !.class32 = FALSE, !.parses = FALSE],
             [Good(<<>>) EXCEPT !.riscv = FALSE, !.exec = FALSE],
             [Good(<<>>) EXCEPT !.exec = FALSE],
             [Good(<<>>) EXCEPT !.table = FALSE] }
=============================================================================
