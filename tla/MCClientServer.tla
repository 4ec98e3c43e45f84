--------------------------- MODULE MCClientServer ---------------------------
(* A master and two nodes; blocks of 2 bytes; files of 0, 1, 2 and 4       *)
(* blocks, so that a stripe is empty, partial, even and uneven.            *)
EXTENDS ClientServer

MCFileSizes == {0, 1, 4, 7}
=============================================================================
