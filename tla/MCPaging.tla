------------------------------ MODULE MCPaging ------------------------------
(***************************************************************************)
(* Paging for TLC: the pages, which a .cfg cannot write down.              *)
(***************************************************************************)
EXTENDS Paging

(* One page of memory, and two beyond it that share a table.               *)
SomePages == {<<1, 0>>, <<2, 0>>, <<2, 2>>}

OneImageAt == {<<1, 3>>}
TwoImagesAt == {<<1, 3>>, <<1, 5>>}
StackAt == <<2, 2>>

(* Bytes of a program that look like two entries.                          *)
Program == [i \in Indices |-> IF i < 2 THEN 5 ELSE 0]

(* Bound: the run ends where a program is copied over a frame in use, after *)
(* which a directory may hold anything.                                    *)
NoOverrun == overrun = {}

=============================================================================
