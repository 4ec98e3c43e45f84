------------------------------ MODULE MCFileIO ------------------------------
(* One file of up to 3 blocks of 2 bytes, two kinds of bytes, two handles. *)
EXTENDS FileIO

CONSTANTS h1, h2, x, y

MCHandles == {h1, h2}
MCBytes == {x, y}
Careful == {}
Duplicates == {"dup"}
=============================================================================
