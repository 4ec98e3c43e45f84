---------------------------- MODULE MCReadDir ----------------------------
(* Small instances of ReadDir: five names, two to four of which fill an    *)
(* answer, so that a full listing takes three and an empty one.            *)
EXTENDS ReadDir

MCNameLength == <<136, 136, 135, 2, 160>>

(* Any two entries fit in one answer, as two names of up to 168 bytes do,  *)
(* and any one fits behind "." and "..".                                   *)
ASSUME SizesAssumption == AnyOneFits /\ AnyTwoFit /\ FullByBytes
=============================================================================
