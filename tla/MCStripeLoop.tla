---------------------------- MODULE MCStripeLoop ----------------------------
(* 3 ranks, blocks of 2 bytes and a 5-bit int: files from empty to four    *)
(* times what an int can count.                                            *)
EXTENDS StripeLoop

MCFileSizes == 0 .. 60
=============================================================================
