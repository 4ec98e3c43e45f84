----------------------------- MODULE BlockStore -----------------------------
(***************************************************************************)
(* What the master's FUSE handlers may expect of DAGonFS_Write and         *)
(* DAGonFS_Read: a store that maps an inode to the blocks last written to  *)
(* it, used by one caller at a time.  A read names a number of blocks.     *)
(* The answer is only defined when that is the number last written,        *)
(* because the pointers of a file live in the ranks that the stripe of the *)
(* write chose; any other read may return anything, or kill the system.    *)
(***************************************************************************)
EXTENDS Naturals, Sequences

CONSTANTS INodes,       \* the inodes of regular files
          MaxBlocks     \* bound on the blocks of a file

VARIABLES store,        \* store[ino]: the blocks of the last write
          issued,       \* how many calls were made; numbers the writes
          pending,      \* the call under way
          answer        \* what the last read returned

vars == <<store, issued, pending, answer>>

(* The buffer of the w-th call, n blocks long. *)
Buffer(w, n) == [b \in 1 .. n |-> [write |-> w, block |-> b]]

Idle == [op |-> "none"]
Dead == [op |-> "dead"]
CallOf(op, ino, n) == [op |-> op, inode |-> ino, blocks |-> n]

Init == /\ store = [ino \in INodes |-> <<>>]
        /\ issued = 0
        /\ pending = Idle
        /\ answer = <<>>

Call(op, ino, n) == /\ pending = Idle
                    /\ issued' = issued + 1
                    /\ pending' = CallOf(op, ino, n)
                    /\ UNCHANGED <<store, answer>>

(* A read of no blocks answers within the call. *)
ReadNothing == /\ pending = Idle
               /\ issued' = issued + 1
               /\ answer' = <<>>
               /\ UNCHANGED <<store, pending>>

CompleteWrite == /\ pending.op = "write"
                 /\ store' = [store EXCEPT ![pending.inode] = Buffer(issued, pending.blocks)]
                 /\ pending' = Idle
                 /\ UNCHANGED <<issued, answer>>

WellAsked(ino, n) == n = Len(store[ino])

CompleteRead == /\ pending.op = "read"
                /\ WellAsked(pending.inode, pending.blocks) => answer' = store[pending.inode]
                /\ pending' = Idle
                /\ UNCHANGED <<store, issued>>

(* A read for the wrong number of blocks may bring everything down. *)
Die == /\ pending.op = "read"
       /\ ~WellAsked(pending.inode, pending.blocks)
       /\ pending' = Dead
       /\ UNCHANGED <<store, issued, answer>>

Next == \/ ReadNothing \/ CompleteWrite \/ CompleteRead \/ Die
        \/ \E op \in {"write", "read"}, ino \in INodes, n \in 0 .. MaxBlocks : Call(op, ino, n)

Spec == Init /\ [][Next]_vars
=============================================================================
