---------------------------- MODULE MCNamespace ----------------------------
(* Small instances of Namespace: two names, the special inode, the root    *)
(* and two or three more, numbers used again as soon as one is free.       *)
EXTENDS Namespace, TLC

CONSTANTS a, b

MCNames == {a, b}
Symmetry == Permutations(MCNames)
NoMoves == {"rename"}
NoDirectoryMoves == {"rename", "replace"}
AllMoves == RenameKinds
=============================================================================
