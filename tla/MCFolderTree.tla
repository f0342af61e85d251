---------------------------- MODULE MCFolderTree ----------------------------
(***************************************************************************)
(* Small instances of FolderTree: a chain of three folders below the root  *)
(* is the smallest subtree with paths within it.                           *)
(***************************************************************************)
EXTENDS FolderTree, TLC

CONSTANTS home, d1, d2, c1, c2, docs, work

Symmetry == Permutations(FolderId \ {Home}) \cup Permutations(Cmd) \cup Permutations(Name)

\* A behaviour is followed until a move has committed and commands have overlapped,
\* in either order.  What the properties say of the time after that, the types and
\* the place of the personal folder, is left to the proofs.
MovedAlone == moves = 0 \/ ~overlap
=============================================================================
