----------------------------- MODULE StripeLoop -----------------------------
(***************************************************************************)
(* The loop that fills the counts and displacements arrays of Scatterv and *)
(* Gatherv.  The same loop stands in DAGonFS_Write (for the bytes          *)
(* scattered and for the pointers gathered) and in DAGonFS_Read (pointers  *)
(* scattered, bytes gathered), on the master and on the nodes; only the    *)
(* size of one element, here BlockSize, differs.  The element count is     *)
(* unsigned int, the arrays and the running offset are int.                *)
(***************************************************************************)
EXTENDS Striping

CONSTANTS FileSizes,    \* the file sizes the loop is run for
          IntMax        \* INT_MAX

ASSUME WidthAssumption == /\ FileSizes \subseteq Nat
                          /\ IntMax \in Nat

VARIABLES fileSize,     \* the argument of DAGonFS_Write
          i,            \* the loop counter, a rank
          offset,       \* scatterOffset
          counts,       \* scatterCounts[0 .. i-1]
          displs        \* scatterDispls[0 .. i-1]

vars == <<fileSize, i, offset, counts, displs>>

(* The 2 * (INT_MAX + 1) values of unsigned int, and a value stored in an  *)
(* int: what does not fit wraps around, as gcc's code does.                *)
UIntRange == 2 * (IntMax + 1)
ToUInt(x) == IF x < UIntRange THEN x ELSE x % UIntRange
ToInt(x) == IF x \in 0 .. IntMax
            THEN x
            ELSE ((x + IntMax + 1) % UIntRange) - (IntMax + 1)

(* Slip: the last, partial block is forgotten. *)
numberOfBlocks_floor == ToUInt(fileSize \div BlockSize)

numberOfBlocks == ToUInt(NumberOfBlocks(fileSize))
-----------------------------------------------------------------------------
Init == /\ fileSize \in FileSizes
        /\ i = 0
        /\ offset = 0
        /\ counts = [r \in {} |-> 0]
        /\ displs = [r \in {} |-> 0]

(* Slip: one rank too many gets an extra block. *)
CountOf_offByOne(rank) ==
    ToInt(ToUInt(((numberOfBlocks \div WorldSize)
                  + (IF rank <= numberOfBlocks % WorldSize THEN 1 ELSE 0)) * BlockSize))

CountOf(rank) == ToInt(ToUInt(EffectiveBlocks(numberOfBlocks, rank) * BlockSize))

(* Slips: the loop runs once too often; the offset is advanced too early. *)
Step_onceMore == /\ i <= WorldSize
                 /\ counts' = [r \in 0 .. i |-> IF r = i THEN CountOf(i) ELSE counts[r]]
                 /\ displs' = [r \in 0 .. i |-> IF r = i THEN offset ELSE displs[r]]
                 /\ offset' = ToInt(offset + CountOf(i))
                 /\ i' = i + 1
                 /\ UNCHANGED fileSize

Step_offsetFirst == /\ i < WorldSize
                    /\ counts' = [r \in 0 .. i |-> IF r = i THEN CountOf(i) ELSE counts[r]]
                    /\ offset' = ToInt(offset + CountOf(i))
                    /\ displs' = [r \in 0 .. i |-> IF r = i THEN offset' ELSE displs[r]]
                    /\ i' = i + 1
                    /\ UNCHANGED fileSize

(* One turn of the loop. *)
Step == /\ i < WorldSize
        /\ counts' = [r \in 0 .. i |-> IF r = i THEN CountOf(i) ELSE counts[r]]
        /\ displs' = [r \in 0 .. i |-> IF r = i THEN offset ELSE displs[r]]
        /\ offset' = ToInt(offset + CountOf(i))
        /\ i' = i + 1
        /\ UNCHANGED fileSize

(* The arrays are handed to MPI. *)
Done == i = WorldSize /\ UNCHANGED vars

Next == Step \/ Done

Spec == Init /\ [][Next]_vars
-----------------------------------------------------------------------------
TypeOK == /\ fileSize \in FileSizes
          /\ i \in 0 .. WorldSize
          /\ offset \in Int
          /\ counts \in [0 .. i - 1 -> Int]
          /\ displs \in [0 .. i - 1 -> Int]

(* The padded file fits in an int. *)
Fits == NumberOfBlocks(fileSize) * BlockSize <= IntMax

(***************************************************************************)
(* As long as the padded file fits, the running offset is the closed form  *)
(* the rest of the code relies on: rank r's slice starts where the slices  *)
(* of the ranks below it end.                                              *)
(***************************************************************************)
LoopExact ==
    Fits => /\ offset = Displ(NumberOfBlocks(fileSize), i) * BlockSize
            /\ \A r \in 0 .. i - 1 :
                  /\ displs[r] = Displ(NumberOfBlocks(fileSize), r) * BlockSize
                  /\ counts[r] = EffectiveBlocks(NumberOfBlocks(fileSize), r) * BlockSize

(* Block b (from 0) of the file lies whole inside the slice of rank r. *)
InSlice(b, r) == /\ displs[r] <= b * BlockSize
                 /\ (b + 1) * BlockSize <= displs[r] + counts[r]

(* Every block of the file goes to exactly one rank. *)
Partitioned == \A b \in 0 .. NumberOfBlocks(fileSize) - 1 :
                  \E r \in Ranks : InSlice(b, r) /\ \A s \in Ranks \ {r} : ~InSlice(b, s)

(***************************************************************************)
(* Scatterv neither drops a block nor sends one twice, and the slices      *)
(* together are the buffer: the arrays passed to MPI partition the file.   *)
(***************************************************************************)
EveryBlockOnce == (i = WorldSize /\ Fits) =>
                     Partitioned /\ offset = NumberOfBlocks(fileSize) * BlockSize

(***************************************************************************)
(* Where the int arithmetic stops being right.  The arrays partition the   *)
(* file exactly when the start of the last non-empty slice and every count *)
(* are representable; past that some rank is told to take its bytes from   *)
(* outside the buffer.  The last addition to the offset may overflow       *)
(* unnoticed, as its result is never used.                                 *)
(***************************************************************************)
Representable ==
    LET n == NumberOfBlocks(fileSize)
    IN \A r \in Ranks : EffectiveBlocks(n, r) > 0 =>
          /\ Displ(n, r) * BlockSize <= IntMax
          /\ EffectiveBlocks(n, r) * BlockSize <= IntMax

RightExactlyWhenRepresentable == i = WorldSize => (Partitioned <=> Representable)
=============================================================================
