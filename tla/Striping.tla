------------------------------ MODULE Striping ------------------------------
(***************************************************************************)
(* How DAGonFS cuts a file into blocks and deals the blocks to the MPI     *)
(* ranks.  DAGonFS_Write and DAGonFS_Read repeat this arithmetic on the    *)
(* master and on every node; all processes must get the same answer from   *)
(* the same file size, because no process ever tells another what it       *)
(* computed.                                                               *)
(*                                                                         *)
(* Blocks are numbered from 1, ranks from 0 as in MPI.  Displ is the       *)
(* closed form of the running offset of the counts/displacements loops;    *)
(* module StripeLoop has the loop itself and shows that it computes Displ. *)
(***************************************************************************)
EXTENDS Integers, Sequences

CONSTANTS WorldSize,    \* mpi_world_size, the master included
          BlockSize     \* FILE_SYSTEM_SINGLE_BLOCK_SIZE, in bytes

ASSUME StripingAssumption == /\ WorldSize \in Nat \ {0}
                             /\ BlockSize \in Nat \ {0}

Ranks == 0 .. WorldSize - 1

Min2(a, b) == IF a < b THEN a ELSE b

(* fileSize / BLOCK + (fileSize % BLOCK > 0) *)
NumberOfBlocks(fileSize) ==
    (fileSize \div BlockSize) + (IF fileSize % BlockSize > 0 THEN 1 ELSE 0)

(* A read never asks for more blocks than the file has. *)
NumberOfBlocksForRequest(fileSize, reqSize) ==
    NumberOfBlocks(IF reqSize > fileSize THEN fileSize ELSE reqSize)

(* blockPerProcess + (rank < remainingBlocks): rank's share of n blocks. *)
EffectiveBlocks(n, rank) ==
    (n \div WorldSize) + (IF rank < n % WorldSize THEN 1 ELSE 0)

(* The number of blocks that lie before rank's share. *)
Displ(n, rank) == rank * (n \div WorldSize) + Min2(rank, n % WorldSize)

(* The i-th block of rank's share is block Displ(n, rank) + i of the file. *)
Share(n, rank) == Displ(n, rank) + 1 .. Displ(n, rank) + EffectiveBlocks(n, rank)

(* The rank whose share holds block b. *)
OwnerOf(n, b) == CHOOSE rank \in Ranks : b \in Share(n, rank)

(* Scatterv: what rank receives of the sequence s that the root cuts up. *)
ScatterPart(s, rank) ==
    [i \in 1 .. EffectiveBlocks(Len(s), rank) |-> s[Displ(Len(s), rank) + i]]

(* Slip: contributions taken in turn, as addDataBlocksTo deals its ranks. *)
GatherParts_roundRobin(n, contrib) ==
    [b \in 1 .. n |-> contrib[(b - 1) % WorldSize][((b - 1) \div WorldSize) + 1]]

(* Gatherv: the root lays the contributions of the ranks side by side. *)
GatherParts(n, contrib) ==
    [b \in 1 .. n |-> contrib[OwnerOf(n, b)][b - Displ(n, OwnerOf(n, b))]]
=============================================================================
