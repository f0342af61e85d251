--------------------------- MODULE MCFileCommands --------------------------
(***************************************************************************)
(* Small instances of FileCommands.  Two commands on one file meet every   *)
(* race on its rows; two files under one command at a time let names clash *)
(* and a purge take several transactions.                                  *)
(***************************************************************************)
EXTENDS FileCommands, TLC

CONSTANTS c1, c2, f1, f2, a1, a2

Symmetry ==
  Permutations(Cmd) \cup Permutations(FileId) \cup Permutations(ArchiveId)
=============================================================================
