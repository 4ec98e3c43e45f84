----------------------------- MODULE PosixFile -----------------------------
(***************************************************************************)
(* What a program expects of one file that it opens, writes, reads and     *)
(* closes: a sequence of bytes.  An open with O_TRUNC empties it, a        *)
(* truncate shortens it, a write replaces bytes and may go past the end, a *)
(* read answers what is there.  Opening otherwise, flushing and closing    *)
(* change nothing.                                                         *)
(***************************************************************************)
EXTENDS Naturals, Sequences

CONSTANTS Bytes, MaxSize

VARIABLES content, answer

vars == <<content, answer>>

(* s with n bytes v written from position off on; off is not past the end. *)
Overwrite(s, off, n, v) ==
    LET end == IF off + n > Len(s) THEN off + n ELSE Len(s)
    IN  [i \in 1 .. end |-> IF i \in off + 1 .. off + n THEN v ELSE s[i]]

Init == content = <<>> /\ answer = <<>>

(* An open with O_TRUNC shrinks it to nothing. *)
Shrink(n) == content' = SubSeq(content, 1, n) /\ UNCHANGED answer

Write(off, n, v) == /\ content' = Overwrite(content, off, n, v)
                    /\ UNCHANGED answer

Read(off, n) == /\ answer' = SubSeq(content, off + 1,
                                    IF off + n > Len(content) THEN Len(content) ELSE off + n)
                /\ UNCHANGED content

Next == \E off \in 0 .. Len(content) :
              \/ Shrink(off)
              \/ \E n \in 1 .. MaxSize - off, v \in Bytes : Write(off, n, v)
              \/ \E n \in 1 .. MaxSize : Read(off, n)

Spec == Init /\ [][Next]_vars
=============================================================================
