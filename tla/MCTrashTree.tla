---------------------------- MODULE MCTrashTree ----------------------------
(* Instances of TrashTree for TLC.                                         *)
EXTENDS TrashTree, TLC

Symmetry == Permutations(Folders)

============================================================================
