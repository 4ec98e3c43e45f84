---------------------------- MODULE OperationLog ----------------------------
(***************************************************************************)
(* What the replicas of one file system promise: there is one sequence of  *)
(* operations, and every replica carries all of it out in that order.  A   *)
(* user works at a replica that has caught up; the others follow.          *)
(***************************************************************************)
EXTENDS Naturals, Sequences

CONSTANTS Replicas,
          Operations

VARIABLE applied        \* applied[r]: the operations replica r has carried out

IsPrefixOf(s, t) == Len(s) <= Len(t) /\ SubSeq(t, 1, Len(s)) = s

Init == applied = [r \in Replicas |-> <<>>]

Perform(r, o) == /\ \A q \in Replicas : IsPrefixOf(applied[q], applied[r])
                 /\ applied' = [applied EXCEPT ![r] = Append(@, o)]

Follow(r) == \E q \in Replicas :
                /\ Len(applied[r]) < Len(applied[q])
                /\ applied' = [applied EXCEPT ![r] = Append(@, applied[q][Len(@) + 1])]

Next == \E r \in Replicas : Follow(r) \/ \E o \in Operations : Perform(r, o)

Spec == Init /\ [][Next]_applied /\ \A r \in Replicas : WF_applied(Follow(r))
=============================================================================
