----------------------------- MODULE FileTable -----------------------------
(***************************************************************************)
(* Rows of the `files` table and the questions the repositories ask of     *)
(* it, shared by the modules whose transactions read and write it.         *)
(*                                                                         *)
(* A table is a function from every identifier the program may ever        *)
(* generate to a row or to NoRow.  The identifier of a file is also its    *)
(* MinIO object key (valueobject.NewStorageKey), so one set serves both.   *)
(***************************************************************************)
EXTENDS Naturals

\* What SELECT ... WHERE id = $1 returns when there is no such row.
NoRow == [status |-> "none"]

FileStatus == {"uploading", "active", "upload_failed"}

\* The columns of `files` that some decision of the program depends on.  A
\* slot is a (folder, name) pair, the thing a name clash is about.
FileRow(slots) == [status: FileStatus, slot: slots]

\* FileExistsByNameAndFolder: names held by uploading and active files.
SlotTaken(table, slot) ==
  \E f \in DOMAIN table : /\ table[f].status \in {"uploading", "active"}
                          /\ table[f].slot = slot

\* UpdateFile writes every column of the entity but the status, which only
\* UpdateFileStatus writes; a transaction that calls both gives both.
UpdateFile(table, f, slot, status) ==
  [table EXCEPT ![f] = [status |-> status, slot |-> slot]]

\* CreateFile.
InsertFile(table, f, slot, status) ==
  [table EXCEPT ![f] = [status |-> status, slot |-> slot]]

\* ListFilesByFolderIDs: active files only.
ActiveIn(table, folder) ==
  {f \in DOMAIN table : table[f].status = "active" /\ table[f].slot.folder = folder}

\* DeleteFilesBulk, and what a foreign key cascades to.
DeleteFiles(table, fs) == [f \in DOMAIN table |-> IF f \in fs THEN NoRow ELSE table[f]]
=============================================================================
