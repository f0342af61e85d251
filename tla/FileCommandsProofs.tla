------------------------- MODULE FileCommandsProofs ------------------------
(***************************************************************************)
(* The commands on stored files are type correct, none of their            *)
(* interleavings makes a file disappear without a purge or a deleted       *)
(* folder, and while nothing fails none leaves an object nobody will       *)
(* remove.  Commands that follow one another keep every content and        *)
(* implement Trash.  For every number of files, commands and folders.      *)
(***************************************************************************)
EXTENDS FileCommands, FiniteSetTheorems, TLAPS

\* An archive a restore has read still belongs to the file it read: archive
\* identifiers are not reused while a command knows them.
RestoresOwnFile ==
  \A c \in Cmd :
    /\ cmd[c].pc \in {"restore_read", "restore"}
    /\ archived[cmd[c].archive] # NoRow
    => archived[cmd[c].archive].file = cmd[c].file

CInv == TypeOK /\ RestoresOwnFile /\ NoFileLost

LEMMA CmdShape ==
  ASSUME TypeOK, NEW c \in Cmd
  PROVE  /\ cmd[c].pc \in {"trash_read", "trash", "restore_read", "restore", "rename", "move"}
              => cmd[c].file \in FileId /\ cmd[c].slot \in Slot
         /\ cmd[c].pc \in {"trash", "restore"} => cmd[c].versions \in BOOLEAN
         /\ cmd[c].pc \in {"restore_read", "restore"} => cmd[c].archive \in ArchiveId
         /\ cmd[c].pc \in {"purge", "expire", "delete"}
              => cmd[c].left \in SUBSET Entry /\ cmd[c].keys \in SUBSET FileId
         /\ cmd[c].pc = "folder" => /\ cmd[c].folder \in Folder \ {Personal}
                                    /\ cmd[c].list \in SUBSET [file: FileId, slot: Slot]
BY DEF TypeOK, Command, Idle

LEMMA InitType == Init => TypeOK
BY CommandAssumption DEF Init, TypeOK, FileRow, FileStatus

\* The rows of the trash that the transaction of DeleteFolder inserts, each
\* under an identifier of its own that nobody knows.
LEMMA FolderRows ==
  ASSUME TypeOK, NEW c \in Cmd, DeleteFolderCommit(c)
  PROVE  \E new :
           /\ \A e \in cmd[c].list :
                /\ new[e] \in ArchiveId /\ Fresh(new[e])
                /\ archived'[new[e]] = Archive(e.file, e.slot, e.file \in versions)
           /\ \A e, o \in cmd[c].list : new[e] = new[o] => e = o
           /\ \A a \in ArchiveId : (\E e \in cmd[c].list : new[e] = a) \/ archived'[a] = archived[a]
           /\ archived' = [a \in ArchiveId |-> archived'[a]]
<1> DEFINE list == cmd[c].list
           row(e) == Archive(e.file, e.slot, e.file \in versions)
<1>1. PICK new \in [list -> {a \in ArchiveId : Fresh(a)}] :
        /\ \A e, o \in list : new[e] = new[o] => e = o
        /\ archived' = [a \in ArchiveId |->
             IF \E o \in list : new[o] = a
               THEN row(CHOOSE o \in list : new[o] = a)
               ELSE archived[a]]
  BY Zenon DEF FindVersions, DeleteFolderCommit
<1>2. \A e \in list : new[e] \in ArchiveId /\ Fresh(new[e])
  BY <1>1
<1>3. ASSUME NEW a \in ArchiveId, \E o \in list : new[o] = a
      PROVE  \E e \in list : new[e] = a /\ archived'[a] = row(e)
  BY <1>1, <1>3
<1>4. ASSUME NEW a \in ArchiveId, ~\E o \in list : new[o] = a
      PROVE  archived'[a] = archived[a]
  BY <1>1, <1>4
<1>5. \A e \in list : archived'[new[e]] = row(e)
  BY <1>1, <1>2, <1>3
<1>6. archived' = [a \in ArchiveId |-> archived'[a]]
  BY <1>1
<1> QED
  BY <1>1, <1>2, <1>4, <1>5, <1>6

\* What that transaction does to the trash: rows that were there stay, and every
\* listed file gets a row.
LEMMA FolderArchives ==
  ASSUME TypeOK, NEW c \in Cmd, DeleteFolderCommit(c)
  PROVE  /\ archived' \in [ArchiveId -> ArchivedFile \cup {NoRow}]
         /\ expired' \subseteq {a \in ArchiveId : archived'[a] # NoRow}
         /\ \A a \in ArchiveId :
              archived'[a] # archived[a] => Fresh(a) /\ archived'[a] # NoRow
         /\ \A e \in cmd[c].list :
              \E a \in ArchiveId : archived'[a] # NoRow /\ archived'[a].file = e.file
<1> DEFINE list == cmd[c].list
           row(e) == Archive(e.file, e.slot, e.file \in versions)
<1>1. list \in SUBSET [file: FileId, slot: Slot]
  BY CmdShape DEF DeleteFolderCommit
<1>2. \A e \in list : row(e) \in ArchivedFile /\ row(e) # NoRow /\ row(e).file = e.file
  BY <1>1 DEF Archive, ToArchived, WithVersions, ArchivedFile, NoRow
<1>3. PICK new :
        /\ \A e \in list : new[e] \in ArchiveId /\ Fresh(new[e]) /\ archived'[new[e]] = row(e)
        /\ \A a \in ArchiveId : (\E e \in list : new[e] = a) \/ archived'[a] = archived[a]
        /\ archived' = [a \in ArchiveId |-> archived'[a]]
  BY FolderRows
<1> HIDE DEF row
<1>4. archived' \in [ArchiveId -> ArchivedFile \cup {NoRow}]
  <2>1. \A a \in ArchiveId : archived'[a] \in ArchivedFile \cup {NoRow}
    BY <1>2, <1>3 DEF TypeOK
  <2> QED
    BY <1>3, <2>1
<1>5. \A a \in ArchiveId :
        archived'[a] # archived[a] => Fresh(a) /\ archived'[a] # NoRow
  BY <1>2, <1>3
<1>6. \A e \in list :
        \E a \in ArchiveId : archived'[a] # NoRow /\ archived'[a].file = e.file
  BY <1>2, <1>3
<1>7. expired' \subseteq {a \in ArchiveId : archived'[a] # NoRow}
  BY <1>5 DEF DeleteFolderCommit, TypeOK
<1> QED
  BY <1>4, <1>5, <1>6, <1>7

LEMMA NextType == TypeOK /\ [Next]_vars => TypeOK'
<1> SUFFICES ASSUME TypeOK, [Next]_vars PROVE TypeOK'
  OBVIOUS
<1> USE DEF TypeOK, Become, lost
<1>1. ASSUME NEW c \in Cmd, NEW f \in FileId, TrashRead(c, f)
      PROVE  TypeOK'
  BY <1>1 DEF TrashRead, Trashing, Command, FileRow, NoRow
<1>2. ASSUME NEW c \in Cmd, TrashVersions(c)
      PROVE  TypeOK'
  BY <1>2, CmdShape DEF FindVersions, TrashVersions, Trashing, Command
<1>3. ASSUME NEW c \in Cmd, NEW a \in ArchiveId, TrashCommit(c, a)
      PROVE  TypeOK'
  BY <1>3, CmdShape DEF WithoutVersions, TrashCommit, Fresh, NoRow, Archived, Archive, ToArchived, WithVersions, ArchivedFile
<1>4. ASSUME NEW c \in Cmd, NEW a \in ArchiveId, NEW folder \in Folder,
             RestoreRead(c, a, folder)
      PROVE  TypeOK'
  <2> DEFINE row == archived[a]
             slot == [folder |-> folder, name |-> row.slot.name]
  <2>1. row \in ArchivedFile
    BY <1>4 DEF RestoreRead, FindArchived
  <2>2. slot \in Slot
    BY <2>1 DEF ArchivedFile, Slot
  <2>3. Restoring("restore_read", a, row.file, slot, FALSE) \in Command
    BY <2>1, <2>2 DEF ArchivedFile, Restoring, Command
  <2>4. /\ cmd' = [cmd EXCEPT ![c] = Restoring("restore_read", a, row.file, slot, FALSE)]
        /\ UNCHANGED <<files, versions, objects, archived, expired, folders, lost>>
    BY <1>4 DEF RestoreRead, FindArchived, ToFile
  <2>5. cmd' \in [Cmd -> Command \cup {Idle}]
    BY <2>3, <2>4
  <2> QED
    BY <2>4, <2>5
<1>5. ASSUME NEW c \in Cmd, RestoreVersions(c)
      PROVE  TypeOK'
  BY <1>5, CmdShape DEF FindArchivedVersions, RestoreVersions, Restoring, Command, ArchivedFile
<1>6. ASSUME NEW c \in Cmd, RestoreCommit(c)
      PROVE  TypeOK'
  BY <1>6, CmdShape DEF ToFileVersions, RestoreCommit, InsertFile, RestoredVersions, Without, FileRow, FileStatus
<1>7. ASSUME NEW c \in Cmd, NEW a \in ArchiveId, PurgeRead(c, a)
      PROVE  TypeOK'
  BY <1>7 DEF FindArchived, PurgeRead, Purging, EntryOf, Entry, Command, ArchivedFile
<1>8. ASSUME NEW c \in Cmd, EmptyTrashRead(c)
      PROVE  TypeOK'
  BY <1>8 DEF FindArchived, EmptyTrashRead, Trashed, Purging, EntryOf, Entry, Command, ArchivedFile
<1>9. ASSUME NEW c \in Cmd, ExpiryRead(c)
      PROVE  TypeOK'
  BY <1>9 DEF FindArchived, FindExpired, ExpiryRead, Purging, EntryOf, Entry, Command, ArchivedFile
<1>10. ASSUME NEW c \in Cmd, PurgeChunk(c)
      PROVE  TypeOK'
  BY <1>10, CmdShape DEF PurgeChunk, Chunks, Without, NextPc, Recorded, Purging, Entry, Command, ArchivedFile
<1>11. ASSUME NEW c \in Cmd, ChunkFail(c)
      PROVE  TypeOK'
  BY <1>11, CmdShape DEF ChunkFail, Chunks, NextPc, KeysAfterFailure, Purging, Command
<1>12. ASSUME NEW c \in Cmd, DeleteObject(c) \/ DeleteNothing(c)
      PROVE  TypeOK'
  BY <1>12, CmdShape DEF RemoveObject, DeleteObject, DeleteNothing, Purging, Command
<1>13. ASSUME NEW c \in Cmd, NEW f \in FileId, NEW name \in Name, RenameRead(c, f, name)
      PROVE  TypeOK'
  BY <1>13 DEF RenameRead, Saving, Command, FileRow, Slot, NoRow
<1>14. ASSUME NEW c \in Cmd, NEW f \in FileId, NEW folder \in Folder, MoveRead(c, f, folder)
      PROVE  TypeOK'
  BY <1>14 DEF MoveRead, Saving, Command, FileRow, Slot, NoRow
<1>15. ASSUME NEW c \in Cmd, UpdateCommit(c)
      PROVE  TypeOK'
  BY <1>15, CmdShape DEF UpdateCommit, CanUpdate, UpdateFile, FileRow
<1>16. ASSUME NEW c \in Cmd, NEW folder \in Folder, DeleteFolderRead(c, folder)
      PROVE  TypeOK'
  BY <1>16 DEF DeleteFolderRead, ActiveIn, MayDelete, DeletingFolder, Command, FileRow, NoRow
<1>17. ASSUME NEW c \in Cmd, DeleteFolderCommit(c)
      PROVE  TypeOK'
  <2> DEFINE list == cmd[c].list
  <2>1. list \in SUBSET [file: FileId, slot: Slot]
    BY <1>17, CmdShape DEF DeleteFolderCommit
  <2>2. archived' \in [ArchiveId -> ArchivedFile \cup {NoRow}]
        /\ expired' \subseteq {a \in ArchiveId : archived'[a] # NoRow}
    BY <1>17, FolderArchives
  <2>3. files' \in [FileId -> FileRow(Slot) \cup {NoRow}]
        /\ versions' \subseteq FileId /\ purged' \subseteq FileId /\ swept' \subseteq FileId
    BY <1>17, <2>1 DEF WithoutVersions, DeleteFolderCommit, DeleteFiles
  <2>4. folders' \subseteq Folder /\ Personal \in folders' /\ cmd' \in [Cmd -> Command \cup {Idle}]
    BY <1>17, CmdShape DEF DeleteFolderCommit
  <2> QED
    BY <1>17, <2>2, <2>3, <2>4 DEF DeleteFolderCommit
<1>18. ASSUME NEW c \in Cmd, RestoreFail(c) \/ UpdateFail(c) \/ DeleteFolderFail(c) \/ Crash(c)
      PROVE  TypeOK'
  BY <1>18 DEF RestoreFail, UpdateFail, DeleteFolderFail, Crash
<1>19. ASSUME NEW a \in ArchiveId, PassRetention(a)
      PROVE  TypeOK'
  BY <1>19 DEF PassRetention
<1>20. CASE UNCHANGED vars
  BY <1>20 DEF vars
<1> QED
  BY <1>1, <1>2, <1>3, <1>4, <1>5, <1>6, <1>7, <1>8, <1>9, <1>10, <1>11, <1>12,
     <1>13, <1>14, <1>15, <1>16, <1>17, <1>18, <1>19, <1>20 DEF Next, TrashFile, RestoreFile, PermanentlyDeleteFile, EmptyTrash,
         TrashExpiryJob, Update, RenameFile, MoveFile, DeleteFolder, Purge

LEMMA InitCInv == Init => CInv
<1> SUFFICES ASSUME Init PROVE CInv
  OBVIOUS
<1>1. TypeOK
  BY InitType
<1>2. RestoresOwnFile
  BY DEF Init, RestoresOwnFile, Idle
<1>3. NoFileLost
  BY DEF Init, NoFileLost, NoRow
<1> QED
  BY <1>1, <1>2, <1>3 DEF CInv

\* A command can only lose the file of the archive it restores by a step that
\* writes the trash; rows of the trash appear under fresh identifiers, and the
\* commands that know an identifier keep the file they read with it.
LEMMA RestoreKept ==
  ASSUME TypeOK, TypeOK', RestoresOwnFile,
         \A a \in ArchiveId :
           archived'[a] = archived[a] \/ archived'[a] = NoRow \/ Fresh(a),
         \A c \in Cmd :
           \/ cmd'[c].pc \notin {"restore_read", "restore"}
           \/ cmd'[c] = cmd[c]
           \/ /\ archived' = archived
              /\ archived[cmd'[c].archive] # NoRow
                   => archived[cmd'[c].archive].file = cmd'[c].file
  PROVE  RestoresOwnFile'
<1> SUFFICES ASSUME NEW c \in Cmd, cmd'[c].pc \in {"restore_read", "restore"},
                    archived'[cmd'[c].archive] # NoRow
             PROVE  archived'[cmd'[c].archive].file = cmd'[c].file
  BY DEF RestoresOwnFile
<1>1. CASE cmd'[c] = cmd[c]
  <2> DEFINE a == cmd[c].archive
  <2>1. a \in ArchiveId
    BY <1>1, CmdShape
  <2>2. ~Fresh(a)
    BY <1>1, <2>1 DEF Fresh, Mentions
  <2>3. archived'[a] = archived[a]
    BY <1>1, <2>1, <2>2
  <2> QED
    BY <1>1, <2>3 DEF RestoresOwnFile
<1>2. CASE cmd'[c] # cmd[c]
  BY <1>2
<1> QED
  BY <1>1, <1>2

\* A step that keeps the files and the rows of the trash, and forgets no purge
\* and no deleted folder, loses no file.
LEMMA NothingLost ==
  ASSUME NoFileLost,
         \A f \in FileId : files[f] # NoRow => files'[f] # NoRow,
         archived' = archived, UNCHANGED lost
  PROVE  NoFileLost'
BY DEF NoFileLost, InTrash, lost

\* A step that touches neither the table of files nor the trash.
LEMMA QuietStep ==
  ASSUME TypeOK, TypeOK', RestoresOwnFile, NoFileLost,
         UNCHANGED <<files, archived, lost>>,
         NEW c \in Cmd, NEW state, Become(c, state),
         \/ state.pc \notin {"restore_read", "restore"}
         \/ archived[state.archive] # NoRow => archived[state.archive].file = state.file
  PROVE  CInv'
<1>1. NoFileLost'
  BY NothingLost
<1>2. \A d \in Cmd : cmd'[d] = IF d = c THEN state ELSE cmd[d]
  BY DEF TypeOK, Become
<1>3. RestoresOwnFile'
  BY <1>2, RestoreKept
<1> QED
  BY <1>1, <1>3 DEF CInv

LEMMA RowIsNotNoRow ==
  \A row \in FileRow(Slot) \cup ArchivedFile : row # NoRow
BY DEF FileRow, FileStatus, ArchivedFile, NoRow

LEMMA NextCInv == CInv /\ [Next]_vars => CInv'
<1> SUFFICES ASSUME CInv, [Next]_vars PROVE CInv'
  OBVIOUS
<1>0. TypeOK /\ TypeOK' /\ RestoresOwnFile /\ NoFileLost
  BY NextType DEF CInv
<1>1. ASSUME NEW c \in Cmd, NEW f \in FileId, TrashRead(c, f)
      PROVE  CInv'
  BY <1>0, <1>1, QuietStep DEF TrashRead, Trashing
<1>2. ASSUME NEW c \in Cmd, TrashVersions(c)
      PROVE  CInv'
  BY <1>0, <1>2, QuietStep DEF TrashVersions, Trashing
<1>3. ASSUME NEW c \in Cmd, NEW a \in ArchiveId, TrashCommit(c, a)
      PROVE  CInv'
  <2> DEFINE f == cmd[c].file
             row == Archive(f, cmd[c].slot, cmd[c].versions)
  <2>1. f \in FileId /\ row \in ArchivedFile /\ row.file = f /\ row # NoRow
    BY <1>0, <1>3, CmdShape DEF TrashCommit, Archive, ToArchived, WithVersions, ArchivedFile, NoRow
  <2>2. archived' = [archived EXCEPT ![a] = row] /\ Fresh(a)
    BY <1>3 DEF TrashCommit, Archived
  <2>3. RestoresOwnFile'
    <3>1. \A d \in Cmd : cmd'[d] = IF d = c THEN Idle ELSE cmd[d]
      BY <1>0, <1>3 DEF TrashCommit, Become, TypeOK
    <3>2. \A b \in ArchiveId : archived'[b] = archived[b] \/ Fresh(b)
      BY <1>0, <2>2 DEF TypeOK
    <3> QED
      BY <1>0, <3>1, <3>2, RestoreKept DEF Idle
  <2>4. \A g \in FileId : g = f => InTrash(g)'
    BY <1>0, <2>1, <2>2 DEF InTrash, TypeOK
  <2>5. ASSUME NEW g \in FileId, InTrash(g) PROVE InTrash(g)'
    BY <1>0, <2>2, <2>5 DEF InTrash, Fresh, TypeOK
  <2>6. \A g \in FileId \ {f} : files'[g] = files[g]
    BY <1>0, <1>3 DEF TrashCommit, TypeOK
  <2>7. purged' = purged \ {f} /\ swept' = swept \ {f}
    BY <1>3 DEF TrashCommit
  <2>8. NoFileLost'
    BY <1>0, <2>4, <2>5, <2>6, <2>7 DEF NoFileLost
  <2> QED
    BY <1>0, <2>3, <2>8 DEF CInv
<1>4. ASSUME NEW c \in Cmd, NEW a \in ArchiveId, NEW folder \in Folder,
             RestoreRead(c, a, folder)
      PROVE  CInv'
  BY <1>0, <1>4, QuietStep DEF FindArchived, RestoreRead, Restoring
<1>5. ASSUME NEW c \in Cmd, RestoreVersions(c)
      PROVE  CInv'
  <2>1. archived[cmd[c].archive] # NoRow => archived[cmd[c].archive].file = cmd[c].file
    BY <1>0, <1>5 DEF RestoreVersions, RestoresOwnFile
  <2> QED
    BY <1>0, <1>5, <2>1, QuietStep DEF RestoreVersions, Restoring
<1>6. ASSUME NEW c \in Cmd, RestoreCommit(c)
      PROVE  CInv'
  <2> DEFINE f == cmd[c].file
             a == cmd[c].archive
  <2>1. f \in FileId /\ a \in ArchiveId
    BY <1>0, <1>6, CmdShape DEF RestoreCommit
  <2>2. archived'[a] = NoRow /\ \A b \in ArchiveId \ {a} : archived'[b] = archived[b]
    BY <1>6, <2>1 DEF RestoreCommit, Without
  <2>3. RestoresOwnFile'
    <3>1. \A d \in Cmd : cmd'[d] = IF d = c THEN Idle ELSE cmd[d]
      BY <1>0, <1>6 DEF RestoreCommit, Become, TypeOK
    <3> QED
      BY <1>0, <2>2, <3>1, RestoreKept DEF Idle
  <2>4. files'[f] # NoRow /\ \A g \in FileId \ {f} : files'[g] = files[g]
    BY <1>0, <1>6, <2>1 DEF RestoreCommit, InsertFile, NoRow, TypeOK
  <2>5. archived[a] # NoRow => archived[a].file = f
    BY <1>0, <1>6 DEF RestoreCommit, RestoresOwnFile
  <2>6. ASSUME NEW g \in FileId \ {f}, InTrash(g) PROVE InTrash(g)'
    BY <2>1, <2>2, <2>5, <2>6 DEF InTrash
  <2>7. purged' = purged \ {f} /\ swept' = swept \ {f}
    BY <1>6 DEF RestoreCommit
  <2>8. NoFileLost'
    BY <1>0, <2>4, <2>6, <2>7 DEF NoFileLost
  <2> QED
    BY <1>0, <2>3, <2>8 DEF CInv
<1>7. ASSUME NEW c \in Cmd,
             (\E a \in ArchiveId : PurgeRead(c, a)) \/ EmptyTrashRead(c) \/ ExpiryRead(c)
      PROVE  CInv'
  BY <1>0, <1>7, QuietStep DEF PurgeRead, EmptyTrashRead, ExpiryRead, Purging
<1>8. ASSUME NEW c \in Cmd, PurgeChunk(c)
      PROVE  CInv'
  <2>1. PICK chunk \in Chunks(cmd[c].left) :
          LET gone == {e.archive : e \in chunk}
              left == cmd[c].left \ chunk
          IN /\ archived' = Without(gone)
             /\ purged' = purged \cup
                  {archived[b].file : b \in {d \in gone : archived[d] # NoRow}}
             /\ Become(c, Purging(NextPc(c, left), left, Recorded(c, chunk)))
    BY <1>8 DEF PurgeChunk
  <2> DEFINE gone == {e.archive : e \in chunk}
             left == cmd[c].left \ chunk
             state == Purging(NextPc(c, left), left, Recorded(c, chunk))
  <2>2. \A b \in ArchiveId : archived'[b] = IF b \in gone THEN NoRow ELSE archived[b]
    BY <2>1 DEF Without
  <2>3. purged' = purged \cup {archived[b].file : b \in {d \in gone : archived[d] # NoRow}}
    BY <2>1
  <2>4. RestoresOwnFile'
    <3>1. \A d \in Cmd : cmd'[d] = IF d = c THEN state ELSE cmd[d]
      BY <1>0, <2>1 DEF Become, TypeOK
    <3>2. state.pc \in {"purge", "expire", "delete"}
      BY <1>8 DEF PurgeChunk, Purging, NextPc
    <3> HIDE DEF state, gone
    <3> QED
      BY <1>0, <2>2, <3>1, <3>2, RestoreKept
  <2>5. ASSUME NEW g \in FileId, InTrash(g) PROVE InTrash(g)' \/ g \in purged'
    <3>1. PICK b \in ArchiveId : archived[b] # NoRow /\ archived[b].file = g
      BY <2>5 DEF InTrash
    <3> QED
      BY <2>2, <2>3, <3>1 DEF InTrash
  <2>6. files' = files /\ swept' = swept /\ purged \subseteq purged'
    BY <1>8, <2>3 DEF PurgeChunk
  <2>7. NoFileLost'
    BY <1>0, <2>5, <2>6 DEF NoFileLost
  <2> QED
    BY <1>0, <2>4, <2>7 DEF CInv
<1>9. ASSUME NEW c \in Cmd, ChunkFail(c) \/ DeleteObject(c) \/ DeleteNothing(c)
      PROVE  CInv'
  BY <1>0, <1>9, QuietStep
     DEF ChunkFail, DeleteObject, DeleteNothing, Purging, NextPc, Idle
<1>10. ASSUME NEW c \in Cmd, NEW f \in FileId,
              \/ \E name \in Name : RenameRead(c, f, name)
              \/ \E folder \in Folder : MoveRead(c, f, folder)
       PROVE  CInv'
  BY <1>0, <1>10, QuietStep DEF RenameRead, MoveRead, Saving
<1>11. ASSUME NEW c \in Cmd, UpdateCommit(c)
       PROVE  CInv'
  <2>1. \A f \in FileId : files[f] # NoRow => files'[f] # NoRow
    <3> SUFFICES ASSUME NEW f \in FileId, files[f] # NoRow PROVE files'[f] # NoRow
      OBVIOUS
    <3>1. files[f].status \in FileStatus
      BY <1>0 DEF TypeOK, FileRow
    <3> QED
      BY <1>0, <1>11, <3>1 DEF UpdateCommit, UpdateFile, TypeOK, FileStatus, NoRow
  <2>2. archived' = archived /\ UNCHANGED lost
    BY <1>11 DEF UpdateCommit
  <2>3. NoFileLost'
    BY <1>0, <2>1, <2>2, NothingLost
  <2>4. \A d \in Cmd : cmd'[d] = IF d = c THEN Idle ELSE cmd[d]
    BY <1>0, <1>11 DEF UpdateCommit, Become, TypeOK
  <2>5. RestoresOwnFile'
    BY <1>0, <2>2, <2>4, RestoreKept DEF Idle
  <2> QED
    BY <1>0, <2>3, <2>5 DEF CInv
<1>12. ASSUME NEW c \in Cmd, NEW folder \in Folder, DeleteFolderRead(c, folder)
       PROVE  CInv'
  BY <1>0, <1>12, QuietStep DEF DeleteFolderRead, ActiveIn, DeletingFolder
<1>13. ASSUME NEW c \in Cmd, DeleteFolderCommit(c)
       PROVE  CInv'
  <2> DEFINE listed == {e.file : e \in cmd[c].list}
             taken == {f \in FileId \ listed :
                         files[f] # NoRow /\ files[f].slot.folder = cmd[c].folder}
  <2>1. /\ \A a \in ArchiveId :
             archived'[a] # archived[a] => Fresh(a) /\ archived'[a] # NoRow
        /\ \A e \in cmd[c].list :
             \E a \in ArchiveId : archived'[a] # NoRow /\ archived'[a].file = e.file
    BY <1>0, <1>13, FolderArchives
  <2>2. RestoresOwnFile'
    <3>1. \A d \in Cmd : cmd'[d] = IF d = c THEN Idle ELSE cmd[d]
      BY <1>0, <1>13 DEF DeleteFolderCommit, Become, TypeOK
    <3> QED
      BY <1>0, <2>1, <3>1, RestoreKept DEF Idle
  <2>3. ASSUME NEW g \in FileId, InTrash(g) PROVE InTrash(g)'
    BY <2>1, <2>3 DEF InTrash, Fresh
  <2>4. \A g \in listed : InTrash(g)'
    BY <2>1 DEF InTrash
  <2>5. /\ \A g \in FileId : g \notin listed \cup taken => files'[g] = files[g]
        /\ purged' = purged \ listed
        /\ swept' = (swept \ listed) \cup taken
    BY <1>0, <1>13 DEF DeleteFolderCommit, DeleteFiles, TypeOK
  <2>6. NoFileLost'
    <3> SUFFICES ASSUME NEW g \in FileId
                 PROVE  files'[g] # NoRow \/ InTrash(g)' \/ g \in purged' \/ g \in swept'
      BY DEF NoFileLost
    <3>1. CASE g \in listed
      BY <2>4, <3>1
    <3>2. CASE g \in taken
      BY <2>5, <3>2
    <3>3. CASE g \notin listed \cup taken
      BY <1>0, <2>3, <2>5, <3>3 DEF NoFileLost
    <3> QED
      BY <3>1, <3>2, <3>3
  <2> QED
    BY <1>0, <2>2, <2>6 DEF CInv
<1>14. ASSUME NEW c \in Cmd, RestoreFail(c) \/ UpdateFail(c) \/ DeleteFolderFail(c) \/ Crash(c)
       PROVE  CInv'
  BY <1>0, <1>14, QuietStep DEF RestoreFail, UpdateFail, DeleteFolderFail, Crash, Idle
<1>15. CASE (\E a \in ArchiveId : PassRetention(a)) \/ UNCHANGED vars
  <2>1. UNCHANGED <<files, archived, lost, cmd>>
    BY <1>15 DEF PassRetention, vars
  <2> QED
    BY <1>0, <2>1 DEF CInv, RestoresOwnFile, NoFileLost, InTrash, lost
<1> QED
  BY <1>1, <1>2, <1>3, <1>4, <1>5, <1>6, <1>7, <1>8, <1>9, <1>10, <1>11, <1>12,
     <1>13, <1>14, <1>15 DEF Next, TrashFile, RestoreFile, PermanentlyDeleteFile, EmptyTrash,
         TrashExpiryJob, Update, RenameFile, MoveFile, DeleteFolder, Purge

\* What the database and the running command owe each other, as CInv says in its
\* parts, holds after every statement, failure and crash.
THEOREM CommandInvariance == Spec => []CInv
BY InitCInv, NextCInv, PTL DEF Spec

\* Every table row and every entity a command holds has the shape the code
\* gives it, the personal folder is never deleted (DeleteFolder refuses it) and
\* only rows of the trash pass their retention.
THEOREM CommandsTypeCorrect == Spec => []TypeOK
<1>1. CInv => TypeOK
  BY DEF CInv
<1> QED
  BY <1>1, CommandInvariance, PTL

\* TrashFile, RestoreFile, the purges, RenameFile, MoveFile and DeleteFolder,
\* any number of them at once and failing anywhere, never make a file vanish
\* from both tables unless a purge or a deleted folder took it.
THEOREM FileNotLost == Spec => []NoFileLost
<1>1. CInv => NoFileLost
  BY DEF CInv
<1> QED
  BY <1>1, CommandInvariance, PTL
-----------------------------------------------------------------------------
(* Objects without a row *)

\* The entry a purge still has to delete belongs to the file whose key it will
\* record.
PurgesOwnFile ==
  \A c \in Cmd : cmd[c].pc \in {"purge", "expire"} =>
    \A e \in cmd[c].left :
      archived[e.archive] # NoRow => archived[e.archive].file = e.file

OInv == CInv /\ PurgesOwnFile /\ OrphanHasCleaner

Orphan(f) == f \in objects /\ files[f] = NoRow /\ ~InTrash(f) /\ f \notin swept

LEMMA PurgeKept ==
  ASSUME TypeOK, PurgesOwnFile,
         \A a \in ArchiveId :
           archived'[a] = archived[a] \/ archived'[a] = NoRow \/ Fresh(a),
         \A c \in Cmd :
           \/ cmd'[c].pc \notin {"purge", "expire"}
           \/ cmd'[c] = cmd[c]
           \/ /\ cmd[c].pc \in {"purge", "expire"}
              /\ cmd'[c].left \subseteq cmd[c].left
           \/ /\ archived' = archived
              /\ \A e \in cmd'[c].left :
                   archived[e.archive] # NoRow => archived[e.archive].file = e.file
  PROVE  PurgesOwnFile'
<1> SUFFICES ASSUME NEW c \in Cmd, cmd'[c].pc \in {"purge", "expire"},
                    NEW e \in cmd'[c].left, archived'[e.archive] # NoRow
             PROVE  archived'[e.archive].file = e.file
  BY DEF PurgesOwnFile
<1>1. CASE /\ cmd[c].pc \in {"purge", "expire"}
           /\ cmd'[c].left \subseteq cmd[c].left
  <2>1. e \in cmd[c].left /\ e.archive \in ArchiveId
    BY <1>1, CmdShape DEF Entry
  <2>2. ~Fresh(e.archive)
    BY <1>1, <2>1 DEF Fresh, Mentions
  <2>3. archived'[e.archive] = archived[e.archive]
    BY <2>1, <2>2
  <2> QED
    BY <1>1, <2>1, <2>3 DEF PurgesOwnFile
<1>2. CASE ~(cmd[c].pc \in {"purge", "expire"} /\ cmd'[c].left \subseteq cmd[c].left)
  BY <1>2
<1> QED
  BY <1>1, <1>2

\* A step that orphans no object and interrupts no purge.
LEMMA CleanerKept ==
  ASSUME OrphanHasCleaner,
         \A f \in FileId : Orphan(f)' => Orphan(f),
         \A c \in Cmd : \/ cmd'[c] = cmd[c]
                        \/ cmd[c].pc \notin {"purge", "expire", "delete"}
  PROVE  OrphanHasCleaner'
BY DEF OrphanHasCleaner, Orphan

\* A step of a command that is not purging.
LEMMA OtherStep ==
  ASSUME TypeOK, PurgesOwnFile, OrphanHasCleaner,
         \A f \in FileId : Orphan(f)' => Orphan(f),
         \A a \in ArchiveId :
           archived'[a] = archived[a] \/ archived'[a] = NoRow \/ Fresh(a),
         NEW c \in Cmd, cmd[c].pc \notin {"purge", "expire", "delete"},
         NEW state, Become(c, state),
         \/ state.pc \notin {"purge", "expire"}
         \/ /\ archived' = archived
            /\ \A e \in state.left :
                 archived[e.archive] # NoRow => archived[e.archive].file = e.file
  PROVE  PurgesOwnFile' /\ OrphanHasCleaner'
<1>1. \A d \in Cmd : cmd'[d] = IF d = c THEN state ELSE cmd[d]
  BY DEF TypeOK, Become
<1>2. PurgesOwnFile'
  BY <1>1, PurgeKept
<1>3. OrphanHasCleaner'
  BY <1>1, CleanerKept
<1> QED
  BY <1>2, <1>3

LEMMA NextOInv ==
  ASSUME ~MayFail, OInv, [Next]_vars
  PROVE  PurgesOwnFile' /\ OrphanHasCleaner'
<1> DEFINE Goal == PurgesOwnFile /\ OrphanHasCleaner
<1>0. TypeOK /\ RestoresOwnFile /\ PurgesOwnFile /\ OrphanHasCleaner
  BY DEF OInv, CInv
<1>1. ASSUME NEW c \in Cmd, NEW f \in FileId,
             \/ TrashRead(c, f)
             \/ \E name \in Name : RenameRead(c, f, name)
             \/ \E folder \in Folder : MoveRead(c, f, folder)
      PROVE  Goal'
  <2>1. UNCHANGED <<files, objects, archived, lost>> /\ cmd[c] = Idle
    BY <1>1 DEF TrashRead, RenameRead, MoveRead
  <2>2. \A g \in FileId : Orphan(g)' => Orphan(g)
    BY <2>1 DEF Orphan, InTrash, lost
  <2>3. PICK state : Become(c, state) /\ state.pc \in {"trash_read", "rename", "move"}
    <3>1. CASE TrashRead(c, f)
      BY <3>1 DEF TrashRead, Trashing
    <3>2. CASE \E name \in Name : RenameRead(c, f, name)
      BY <3>2 DEF RenameRead, Saving
    <3>3. CASE \E folder \in Folder : MoveRead(c, f, folder)
      BY <3>3 DEF MoveRead, Saving
    <3> QED
      BY <1>1, <3>1, <3>2, <3>3
  <2> QED
    BY <1>0, <2>1, <2>2, <2>3, OtherStep DEF Idle
<1>2. ASSUME NEW c \in Cmd, TrashVersions(c) \/ RestoreVersions(c)
      PROVE  Goal'
  <2>1. UNCHANGED <<files, objects, archived, lost>>
    BY <1>2 DEF TrashVersions, RestoreVersions
  <2>2. \A g \in FileId : Orphan(g)' => Orphan(g)
    BY <2>1 DEF Orphan, InTrash, lost
  <2> QED
    BY <1>0, <1>2, <2>1, <2>2, OtherStep
       DEF TrashVersions, RestoreVersions, Trashing, Restoring
<1>3. ASSUME NEW c \in Cmd, NEW a \in ArchiveId, TrashCommit(c, a)
      PROVE  Goal'
  <2> DEFINE f == cmd[c].file
             row == Archive(f, cmd[c].slot, cmd[c].versions)
  <2>1. f \in FileId /\ row.file = f /\ row # NoRow
    BY <1>0, <1>3, CmdShape DEF TrashCommit, Archive, ToArchived, WithVersions, NoRow
  <2>2. archived' = [archived EXCEPT ![a] = row] /\ Fresh(a)
    BY <1>3 DEF TrashCommit, Archived
  <2>3. \A g \in FileId : g = f \/ InTrash(g) => InTrash(g)'
    BY <1>0, <2>1, <2>2 DEF InTrash, Fresh, TypeOK
  <2>4. /\ \A g \in FileId \ {f} : files'[g] = files[g]
        /\ objects' = objects /\ swept' = swept \ {f}
    BY <1>0, <1>3 DEF TrashCommit, TypeOK
  <2>5. \A g \in FileId : Orphan(g)' => Orphan(g)
    BY <2>3, <2>4 DEF Orphan
  <2>6. \A b \in ArchiveId : archived'[b] = archived[b] \/ Fresh(b)
    BY <1>0, <2>2 DEF TypeOK
  <2> QED
    BY <1>0, <1>3, <2>5, <2>6, OtherStep DEF TrashCommit, Idle
<1>4. ASSUME NEW c \in Cmd, NEW a \in ArchiveId, NEW folder \in Folder,
             RestoreRead(c, a, folder)
      PROVE  Goal'
  <2>1. UNCHANGED <<files, objects, archived, lost>> /\ cmd[c] = Idle
    BY <1>4 DEF RestoreRead
  <2>2. \A g \in FileId : Orphan(g)' => Orphan(g)
    BY <2>1 DEF Orphan, InTrash, lost
  <2> QED
    BY <1>0, <1>4, <2>1, <2>2, OtherStep DEF RestoreRead, Restoring, Idle
<1>5. ASSUME NEW c \in Cmd, RestoreCommit(c)
      PROVE  Goal'
  <2> DEFINE f == cmd[c].file
             a == cmd[c].archive
  <2>1. f \in FileId /\ a \in ArchiveId
    BY <1>0, <1>5, CmdShape DEF RestoreCommit
  <2>2. archived'[a] = NoRow /\ \A b \in ArchiveId \ {a} : archived'[b] = archived[b]
    BY <1>5, <2>1 DEF RestoreCommit, Without
  <2>3. \A g \in FileId : /\ g = f => files'[g] # NoRow
                          /\ g # f => files'[g] = files[g]
    BY <1>0, <1>5, <2>1 DEF RestoreCommit, InsertFile, NoRow, TypeOK
  <2>4. archived[a] # NoRow => archived[a].file = f
    BY <1>0, <1>5 DEF RestoreCommit, RestoresOwnFile
  <2>5. \A g \in FileId \ {f} : InTrash(g) => InTrash(g)'
    BY <2>1, <2>2, <2>4 DEF InTrash
  <2>6. objects' = objects /\ swept' = swept \ {f}
    BY <1>5 DEF RestoreCommit
  <2>7. \A g \in FileId : Orphan(g)' => Orphan(g)
    BY <2>3, <2>5, <2>6 DEF Orphan
  <2>8. \A b \in ArchiveId : archived'[b] = archived[b] \/ archived'[b] = NoRow
    BY <2>2
  <2>9. cmd[c].pc = "restore" /\ Become(c, Idle)
    BY <1>5 DEF RestoreCommit
  <2> QED
    BY <1>0, <2>7, <2>8, <2>9, OtherStep DEF Idle
<1>6. ASSUME NEW c \in Cmd,
             (\E a \in ArchiveId : PurgeRead(c, a)) \/ EmptyTrashRead(c) \/ ExpiryRead(c)
      PROVE  Goal'
  <2>1. UNCHANGED <<files, objects, archived, lost>> /\ cmd[c] = Idle
    BY <1>6 DEF PurgeRead, EmptyTrashRead, ExpiryRead
  <2>2. \A g \in FileId : Orphan(g)' => Orphan(g)
    BY <2>1 DEF Orphan, InTrash, lost
  <2>3. PICK pc \in {"purge", "expire"}, as \in SUBSET ArchiveId :
          Become(c, Purging(pc, {EntryOf(a) : a \in as}, {}))
    <3>1. CASE \E a \in ArchiveId : PurgeRead(c, a)
      <4>1. PICK a \in ArchiveId : PurgeRead(c, a)
        BY <3>1
      <4>2. {EntryOf(a)} = {EntryOf(b) : b \in {a}}
        OBVIOUS
      <4> QED
        BY <4>1, <4>2 DEF PurgeRead
    <3>2. CASE EmptyTrashRead(c)
      BY <3>2 DEF EmptyTrashRead, Trashed
    <3>3. CASE ExpiryRead(c)
      BY <1>0, <3>3 DEF FindArchived, FindExpired, ExpiryRead, TypeOK
    <3> QED
      BY <1>6, <3>1, <3>2, <3>3
  <2> DEFINE state == Purging(pc, {EntryOf(a) : a \in as}, {})
  <2>4. ASSUME NEW e \in state.left
        PROVE  archived[e.archive].file = e.file
    <3>1. e \in {EntryOf(a) : a \in as}
      BY <2>4 DEF Purging
    <3>2. PICK a \in as : e = [archive |-> a, file |-> archived[a].file]
      BY <3>1 DEF FindArchived, EntryOf
    <3>3. e.archive = a /\ e.file = archived[a].file
      BY <3>2
    <3> QED
      BY <3>3
  <2> HIDE DEF state
  <2>5. Become(c, state)
    BY <2>3 DEF state
  <2> QED
    BY <1>0, <2>1, <2>2, <2>4, <2>5, OtherStep DEF Idle
<1>7. ASSUME NEW c \in Cmd, PurgeChunk(c)
      PROVE  Goal'
  <2>1. PICK chunk \in Chunks(cmd[c].left) :
          LET gone == {e.archive : e \in chunk}
              left == cmd[c].left \ chunk
          IN /\ archived' = Without(gone)
             /\ Become(c, Purging(NextPc(c, left), left, Recorded(c, chunk)))
    BY <1>7 DEF PurgeChunk
  <2> DEFINE gone == {e.archive : e \in chunk}
             left == cmd[c].left \ chunk
             state == Purging(NextPc(c, left), left, Recorded(c, chunk))
  <2>2. \A b \in ArchiveId : archived'[b] = IF b \in gone THEN NoRow ELSE archived[b]
    BY <2>1 DEF Without
  <2>3. /\ state.pc \in {"purge", "expire", "delete"} /\ state.left \subseteq cmd[c].left
        /\ cmd[c].keys \subseteq state.keys /\ \A e \in chunk : e.file \in state.keys
    BY <1>7 DEF PurgeChunk, Purging, NextPc, Recorded
  <2>4. \A d \in Cmd : cmd'[d] = IF d = c THEN state ELSE cmd[d]
    BY <1>0, <2>1 DEF Become, TypeOK
  <2>5. cmd[c].pc \in {"purge", "expire"} /\ chunk \subseteq cmd[c].left
    BY <1>7 DEF PurgeChunk, Chunks
  <2>6. UNCHANGED <<files, objects, swept>>
    BY <1>7 DEF PurgeChunk
  <2>7. ASSUME NEW b \in gone, archived[b] # NoRow
        PROVE  archived[b].file \in state.keys
    <3>1. PICK e \in chunk : b = e.archive
      BY <2>7
    <3>2. e \in cmd[c].left
      BY <2>5
    <3>3. archived[b].file = e.file
      BY <1>0, <2>5, <2>7, <3>1, <3>2 DEF PurgesOwnFile
    <3> QED
      BY <2>3, <3>1, <3>3
  <2> HIDE DEF state, gone
  <2>8. PurgesOwnFile'
    BY <1>0, <2>2, <2>3, <2>4, <2>5, PurgeKept
  <2>9. ASSUME NEW g \in FileId, Orphan(g)'
        PROVE  \E d \in Cmd : /\ cmd'[d].pc \in {"purge", "expire", "delete"}
                              /\ g \in cmd'[d].keys
    <3>1. CASE InTrash(g)
      <4>1. PICK b \in ArchiveId : archived[b] # NoRow /\ archived[b].file = g
        BY <3>1 DEF InTrash
      <4>2. b \in gone
        BY <2>2, <2>9, <4>1 DEF Orphan, InTrash
      <4> QED
        BY <2>3, <2>4, <2>7, <4>1, <4>2
    <3>2. CASE ~InTrash(g)
      <4>1. PICK d \in Cmd : /\ cmd[d].pc \in {"purge", "expire", "delete"}
                             /\ g \in cmd[d].keys
        BY <1>0, <2>6, <2>9, <3>2 DEF Orphan, OrphanHasCleaner
      <4> QED
        BY <2>3, <2>4, <4>1
    <3> QED
      BY <3>1, <3>2
  <2> QED
    BY <2>8, <2>9 DEF OrphanHasCleaner, Orphan
<1>8. ASSUME NEW c \in Cmd, DeleteObject(c)
      PROVE  Goal'
  <2>1. PICK f \in cmd[c].keys :
          /\ objects' = objects \ {f}
          /\ Become(c, IF cmd[c].keys \ {f} = {} THEN Idle
                       ELSE Purging("delete", {}, cmd[c].keys \ {f}))
    BY <1>8 DEF RemoveObject, DeleteObject
  <2>2. cmd[c].pc = "delete" /\ UNCHANGED <<files, archived, lost>>
    BY <1>8 DEF DeleteObject
  <2>3. \A d \in Cmd : cmd'[d] = IF d # c THEN cmd[d]
                                 ELSE IF cmd[c].keys \ {f} = {} THEN Idle
                                      ELSE Purging("delete", {}, cmd[c].keys \ {f})
    BY <1>0, <2>1 DEF Become, TypeOK
  <2>4. PurgesOwnFile'
    BY <1>0, <2>2, <2>3, PurgeKept DEF Idle, Purging
  <2>5. ASSUME NEW g \in FileId, Orphan(g)'
        PROVE  \E d \in Cmd : /\ cmd'[d].pc \in {"purge", "expire", "delete"}
                              /\ g \in cmd'[d].keys
    <3>1. Orphan(g) /\ g # f
      BY <2>1, <2>2, <2>5 DEF Orphan, InTrash, lost
    <3>2. PICK d \in Cmd : /\ cmd[d].pc \in {"purge", "expire", "delete"}
                           /\ g \in cmd[d].keys
      BY <1>0, <3>1 DEF Orphan, OrphanHasCleaner
    <3>3. CASE d = c
      BY <2>3, <3>1, <3>2, <3>3 DEF Purging
    <3>4. CASE d # c
      BY <2>3, <3>2, <3>4
    <3> QED
      BY <3>3, <3>4
  <2> QED
    BY <2>4, <2>5 DEF OrphanHasCleaner, Orphan
<1>9. ASSUME NEW c \in Cmd, DeleteNothing(c)
      PROVE  Goal'
  <2>1. cmd[c].keys = {} /\ UNCHANGED <<files, objects, archived, lost>>
    BY <1>9 DEF DeleteNothing
  <2>2. \A d \in Cmd : cmd'[d] = IF d = c THEN Idle ELSE cmd[d]
    BY <1>0, <1>9 DEF DeleteNothing, Become, TypeOK
  <2>3. PurgesOwnFile'
    BY <1>0, <2>1, <2>2, PurgeKept DEF Idle
  <2>4. OrphanHasCleaner'
    BY <1>0, <2>1, <2>2 DEF OrphanHasCleaner, InTrash, lost
  <2> QED
    BY <2>3, <2>4
<1>10. ASSUME NEW c \in Cmd, UpdateCommit(c)
       PROVE  Goal'
  <2>1. archived' = archived /\ objects' = objects /\ swept' = swept
    BY <1>10 DEF UpdateCommit, lost
  <2>2. \A g \in FileId : files'[g] = NoRow => files[g] = NoRow
    BY <1>0, <1>10 DEF UpdateCommit, UpdateFile, TypeOK, FileRow, FileStatus, NoRow
  <2>3. \A g \in FileId : Orphan(g)' => Orphan(g)
    BY <2>1, <2>2 DEF Orphan, InTrash
  <2> QED
    BY <1>0, <1>10, <2>1, <2>3, OtherStep DEF UpdateCommit, Idle
<1>11. ASSUME NEW c \in Cmd, NEW folder \in Folder, DeleteFolderRead(c, folder)
       PROVE  Goal'
  <2>1. UNCHANGED <<files, objects, archived, lost>> /\ cmd[c] = Idle
    BY <1>11 DEF DeleteFolderRead, ActiveIn
  <2>2. \A g \in FileId : Orphan(g)' => Orphan(g)
    BY <2>1 DEF Orphan, InTrash, lost
  <2> QED
    BY <1>0, <1>11, <2>1, <2>2, OtherStep DEF DeleteFolderRead, ActiveIn, DeletingFolder, Idle
<1>12. ASSUME NEW c \in Cmd, DeleteFolderCommit(c)
       PROVE  Goal'
  <2> DEFINE listed == {e.file : e \in cmd[c].list}
             taken == {f \in FileId \ listed :
                         files[f] # NoRow /\ files[f].slot.folder = cmd[c].folder}
  <2>1. /\ \A a \in ArchiveId :
             archived'[a] # archived[a] => Fresh(a) /\ archived'[a] # NoRow
        /\ \A e \in cmd[c].list :
             \E a \in ArchiveId : archived'[a] # NoRow /\ archived'[a].file = e.file
    BY <1>0, <1>12, FolderArchives
  <2>2. \A g \in FileId : InTrash(g) => InTrash(g)'
    BY <2>1 DEF InTrash, Fresh
  <2>3. \A g \in listed : InTrash(g)'
    BY <2>1 DEF InTrash
  <2>4. /\ \A g \in FileId : g \notin listed \cup taken => files'[g] = files[g]
        /\ swept' = (swept \ listed) \cup taken
        /\ objects' = objects
    BY <1>0, <1>12 DEF DeleteFolderCommit, DeleteFiles, TypeOK
  <2>5. \A g \in FileId : Orphan(g)' => Orphan(g)
    BY <2>2, <2>3, <2>4 DEF Orphan
  <2>6. cmd[c].pc = "folder" /\ Become(c, Idle)
    BY <1>12 DEF DeleteFolderCommit
  <2> QED
    BY <1>0, <2>1, <2>5, <2>6, OtherStep DEF Idle
<1>13. ASSUME NEW c \in Cmd, RestoreFail(c) \/ UpdateFail(c) \/ DeleteFolderFail(c)
       PROVE  Goal'
  <2>1. /\ UNCHANGED <<files, objects, archived, lost>>
        /\ Become(c, Idle) /\ cmd[c].pc \notin {"purge", "expire", "delete"}
    BY <1>13 DEF RestoreFail, UpdateFail, DeleteFolderFail
  <2>2. \A g \in FileId : Orphan(g)' => Orphan(g)
    BY <2>1 DEF Orphan, InTrash, lost
  <2> QED
    BY <1>0, <2>1, <2>2, OtherStep DEF Idle
<1>14. CASE (\E a \in ArchiveId : PassRetention(a)) \/ UNCHANGED vars
  <2>1. UNCHANGED <<files, objects, archived, lost, cmd>>
    BY <1>14 DEF PassRetention, vars
  <2> QED
    BY <1>0, <2>1 DEF PurgesOwnFile, OrphanHasCleaner, InTrash, lost
<1>15. ASSUME NEW c \in Cmd, ChunkFail(c) \/ Crash(c)
       PROVE  Goal'
  BY <1>15 DEF ChunkFail, Crash
<1> QED
  BY <1>1, <1>2, <1>3, <1>4, <1>5, <1>6, <1>7, <1>8, <1>9, <1>10, <1>11, <1>12, <1>13,
     <1>14, <1>15 DEF Next, TrashFile, RestoreFile, PermanentlyDeleteFile, EmptyTrash,
         TrashExpiryJob, Update, RenameFile, MoveFile, DeleteFolder, Purge

\* As long as nothing fails, no object is forgotten: one whose file is in
\* neither table is known to a purge that has yet to call DeleteObject, although
\* purges of the same file overlap, restores undo them half-way and a file may
\* be in the trash twice.
THEOREM OrphansAreKnown ==
  ASSUME ~MayFail
  PROVE  Spec => []OrphanHasCleaner
<1>1. Init => OInv
  <2> SUFFICES ASSUME Init PROVE OInv
    OBVIOUS
  <2>1. PurgesOwnFile
    BY DEF Init, PurgesOwnFile, Idle
  <2>2. OrphanHasCleaner
    BY DEF Init, OrphanHasCleaner, NoRow
  <2> QED
    BY <2>1, <2>2, InitCInv DEF OInv
<1>2. OInv /\ [Next]_vars => OInv'
  BY NextOInv, NextCInv DEF OInv
<1>3. OInv => OrphanHasCleaner
  BY DEF OInv
<1> QED
  BY <1>1, <1>2, <1>3, PTL DEF Spec

-----------------------------------------------------------------------------
(* One command at a time *)

\* A command starts only after the one before has ended, or died.
Serial == \A c, d \in Cmd : c = d

\* A file has a row or a place in the trash, never both and never two; a row is
\* of an active file, alone under its name, and both keep version and object.
OnePlace ==
  /\ \A f \in FileId : files[f] # NoRow =>
       /\ ~InTrash(f)
       /\ files[f].status = "active" /\ f \in versions /\ f \in objects
  /\ \A f, g \in FileId : files[f] # NoRow /\ files[g] # NoRow /\ files[f].slot = files[g].slot => f = g
  /\ \A a \in ArchiveId : archived[a] # NoRow => archived[a].versions /\ archived[a].file \in objects
  /\ \A a, b \in ArchiveId :
       archived[a] # NoRow /\ archived[b] # NoRow /\ archived[a].file = archived[b].file => a = b

Gone(f) == files[f] = NoRow /\ ~InTrash(f)

\* What the only command has read is still so.
StillTrue(q) ==
  /\ q.pc \in {"trash_read", "trash"} => files[q.file] # NoRow
  /\ q.pc = "trash" => q.versions
  /\ q.pc \in {"restore_read", "restore"} =>
       /\ archived[q.archive] # NoRow /\ archived[q.archive].file = q.file
       /\ \A g \in FileId : files[g] # NoRow => files[g].slot # q.slot
  /\ q.pc = "restore" => q.versions
  /\ q.pc \in {"purge", "expire"} =>
       \A e \in q.left : archived[e.archive] # NoRow /\ archived[e.archive].file = e.file
  /\ q.pc \in {"purge", "expire", "delete"} => \A f \in q.keys : Gone(f)
  /\ q.pc \in {"rename", "move"} =>
       /\ files[q.file] # NoRow
       /\ \A g \in FileId \ {q.file} : files[g] # NoRow => files[g].slot # q.slot
  /\ q.pc = "folder" =>
       /\ q.folder \in folders
       /\ \A f \in FileId :
            files[f] # NoRow /\ files[f].slot.folder = q.folder <=> \E e \in q.list : e.file = f
       /\ \A e \in q.list : e.slot = files[e.file].slot

SInv == TypeOK /\ OnePlace /\ \A c \in Cmd : StillTrue(cmd[c])

\* A step that writes neither table and no object.
LEMMA SerialQuiet ==
  ASSUME Serial, SInv, TypeOK', UNCHANGED <<files, versions, objects, archived, folders>>,
         NEW c \in Cmd, NEW state, Become(c, state), StillTrue(state)
  PROVE  SInv'
<1>1. OnePlace'
  BY DEF SInv, OnePlace, InTrash
<1>2. ASSUME NEW d \in Cmd PROVE StillTrue(cmd[d])'
  <2>1. cmd'[d] = state
    BY DEF Serial, SInv, TypeOK, Become
  <2>2. StillTrue(state)'
    BY DEF StillTrue, Gone, InTrash
  <2> QED
    BY <2>1, <2>2 DEF StillTrue
<1> QED
  BY <1>1, <1>2 DEF SInv

\* The step with which the only command ends.
LEMMA SerialEnd ==
  ASSUME Serial, TypeOK, TypeOK', OnePlace', NEW c \in Cmd, Become(c, Idle)
  PROVE  SInv'
<1>1. \A d \in Cmd : cmd'[d] = Idle
  BY DEF Serial, TypeOK, Become
<1>2. \A d \in Cmd : cmd'[d].pc = "idle"
  BY <1>1 DEF Idle
<1>3. \A d \in Cmd : StillTrue(cmd[d])'
  BY <1>2 DEF StillTrue
<1> QED
  BY <1>3 DEF SInv

\* With all rows active, a name that is not taken is nobody's.
LEMMA FreeSlot ==
  ASSUME SInv, NEW slot, ~SlotTaken(files, slot)
  PROVE  \A g \in FileId : files[g] # NoRow => files[g].slot # slot
BY DEF SInv, OnePlace, TypeOK, SlotTaken

LEMMA SerialReads ==
  ASSUME Serial, SInv, TypeOK', NEW c \in Cmd,
         \/ \E f \in FileId : TrashRead(c, f)
         \/ \E f \in FileId, name \in Name : RenameRead(c, f, name)
         \/ \E f \in FileId, folder \in Folder : MoveRead(c, f, folder)
         \/ \E a \in ArchiveId : PurgeRead(c, a)
         \/ \E a \in ArchiveId, folder \in Folder : RestoreRead(c, a, folder)
         \/ TrashVersions(c) \/ RestoreVersions(c) \/ EmptyTrashRead(c) \/ ExpiryRead(c)
         \/ \E folder \in Folder : DeleteFolderRead(c, folder)
  PROVE  SInv'
<1>0. TypeOK /\ OnePlace /\ StillTrue(cmd[c])
  BY DEF SInv
<1>1. UNCHANGED <<files, versions, objects, archived, folders>>
  BY DEF TrashRead, RenameRead, MoveRead, PurgeRead, RestoreRead, TrashVersions, RestoreVersions,
         EmptyTrashRead, ExpiryRead, DeleteFolderRead
<1>2. ASSUME NEW f \in FileId, TrashRead(c, f) PROVE SInv'
  <2>1. PICK state : state = Trashing("trash_read", f, files[f].slot, FALSE)
    OBVIOUS
  <2>2. Become(c, state) /\ StillTrue(state)
    BY <1>2, <2>1 DEF TrashRead, Trashing, StillTrue, NoRow
  <2> QED
    BY <1>1, <2>2, SerialQuiet
<1>3. ASSUME NEW f \in FileId,
             \/ \E name \in Name : RenameRead(c, f, name)
             \/ \E folder \in Folder : MoveRead(c, f, folder)
      PROVE  SInv'
  <2>0. PICK pc \in {"rename", "move"} :
          \E slot : /\ files[f].status = "active" /\ (slot # files[f].slot => ~SlotTaken(files, slot))
                    /\ Become(c, Saving(pc, f, slot))
    BY <1>3 DEF RenameRead, MoveRead
  <2>1. PICK slot : /\ files[f].status = "active" /\ (slot # files[f].slot => ~SlotTaken(files, slot))
                    /\ Become(c, Saving(pc, f, slot))
    BY <2>0
  <2>2. files[f] # NoRow /\ \A g \in FileId \ {f} : files[g] # NoRow => files[g].slot # slot
    BY <1>0, <2>1, FreeSlot DEF OnePlace, NoRow
  <2>3. StillTrue(Saving(pc, f, slot))
    BY <2>1, <2>2 DEF Saving, StillTrue
  <2> QED
    BY <1>1, <2>1, <2>3, SerialQuiet
<1>4. CASE TrashVersions(c)
  <2>1. PICK state : state = Trashing("trash", cmd[c].file, cmd[c].slot, FindVersions(cmd[c].file))
    OBVIOUS
  <2>2. cmd[c].file \in FileId /\ Become(c, state) /\ files[cmd[c].file] # NoRow
    BY <1>0, <1>4, <2>1, CmdShape DEF TrashVersions, StillTrue
  <2>3. StillTrue(state)
    BY <1>0, <2>1, <2>2 DEF Trashing, StillTrue, FindVersions, OnePlace
  <2> QED
    BY <1>1, <2>2, <2>3, SerialQuiet
<1>5. ASSUME NEW a \in ArchiveId, NEW folder \in Folder, RestoreRead(c, a, folder) PROVE SInv'
  <2>1. PICK slot, state : /\ slot = ToFile(FindArchived(a), folder).slot
                           /\ state = Restoring("restore_read", a, FindArchived(a).file, slot, FALSE)
    OBVIOUS
  <2>2. Become(c, state) /\ archived[a] # NoRow /\ ~SlotTaken(files, slot)
    BY <1>5, <2>1 DEF RestoreRead, FindArchived
  <2>3. StillTrue(state)
    BY <2>1, <2>2, FreeSlot DEF Restoring, StillTrue, FindArchived
  <2> QED
    BY <1>1, <2>2, <2>3, SerialQuiet
<1>6. CASE RestoreVersions(c)
  <2>1. PICK a, state : /\ a = cmd[c].archive
                        /\ state = Restoring("restore", a, cmd[c].file, cmd[c].slot, FindArchivedVersions(a))
    OBVIOUS
  <2>2. Become(c, state) /\ a \in ArchiveId /\ cmd[c].pc = "restore_read"
    BY <1>0, <1>6, <2>1, CmdShape DEF RestoreVersions
  <2>3. /\ archived[a] # NoRow /\ archived[a].file = cmd[c].file
        /\ \A g \in FileId : files[g] # NoRow => files[g].slot # cmd[c].slot
    BY <1>0, <2>1, <2>2 DEF StillTrue
  <2>4. StillTrue(state)
    BY <1>0, <2>1, <2>2, <2>3 DEF Restoring, StillTrue, FindArchivedVersions, OnePlace
  <2> QED
    BY <1>1, <2>2, <2>4, SerialQuiet
<1>7. CASE (\E a \in ArchiveId : PurgeRead(c, a)) \/ EmptyTrashRead(c) \/ ExpiryRead(c)
  <2>1. PICK pc, left :
          /\ pc \in {"purge", "expire"}
          /\ Become(c, Purging(pc, left, {}))
          /\ \A e \in left : \E a \in ArchiveId : archived[a] # NoRow /\ e = EntryOf(a)
    <3>1. ASSUME NEW a \in ArchiveId, PurgeRead(c, a)
          PROVE  \E left : /\ Become(c, Purging("purge", left, {}))
                           /\ \A e \in left : \E b \in ArchiveId : archived[b] # NoRow /\ e = EntryOf(b)
      <4>1. PICK left : left = {EntryOf(a)}
        OBVIOUS
      <4>2. archived[a] # NoRow /\ Become(c, Purging("purge", left, {}))
        BY <3>1, <4>1 DEF PurgeRead, FindArchived
      <4>3. \A e \in left : e = EntryOf(a)
        BY <4>1
      <4> QED
        BY <4>2, <4>3
    <3>2. ASSUME EmptyTrashRead(c)
          PROVE  \E left : /\ Become(c, Purging("purge", left, {}))
                           /\ \A e \in left : \E b \in ArchiveId : archived[b] # NoRow /\ e = EntryOf(b)
      <4>1. PICK left : left = {EntryOf(a) : a \in Trashed}
        OBVIOUS
      <4>2. Become(c, Purging("purge", left, {}))
        BY <3>2, <4>1 DEF EmptyTrashRead
      <4>3. \A e \in left : \E a \in Trashed : e = EntryOf(a)
        BY <4>1
      <4>4. \A a \in Trashed : a \in ArchiveId /\ archived[a] # NoRow
        BY DEF Trashed
      <4> QED
        BY <4>2, <4>3, <4>4
    <3>3. ASSUME ExpiryRead(c)
          PROVE  \E left : /\ Become(c, Purging("expire", left, {}))
                           /\ \A e \in left : \E b \in ArchiveId : archived[b] # NoRow /\ e = EntryOf(b)
      <4>1. PICK left : left = {EntryOf(a) : a \in FindExpired}
        OBVIOUS
      <4>2. Become(c, Purging("expire", left, {}))
        BY <3>3, <4>1 DEF ExpiryRead
      <4>3. \A e \in left : \E a \in FindExpired : e = EntryOf(a)
        BY <4>1
      <4>4. \A a \in FindExpired : a \in ArchiveId /\ archived[a] # NoRow
        BY <1>0 DEF FindExpired, TypeOK
      <4> QED
        BY <4>2, <4>3, <4>4
    <3> QED
      BY <1>7, <3>1, <3>2, <3>3
  <2>2. PICK state : state = Purging(pc, left, {})
    OBVIOUS
  <2>3. state.pc = pc /\ state.left = left /\ state.keys = {}
    BY <2>2 DEF Purging
  <2>4. ASSUME NEW e \in left PROVE archived[e.archive] # NoRow /\ archived[e.archive].file = e.file
    <3>1. PICK a \in ArchiveId : archived[a] # NoRow /\ e = [archive |-> a, file |-> archived[a].file]
      BY <2>1 DEF EntryOf, FindArchived
    <3>2. e.archive = a /\ e.file = archived[a].file
      BY <3>1
    <3> QED
      BY <3>1, <3>2
  <2>5. StillTrue(state)
    BY <2>1, <2>3, <2>4 DEF StillTrue
  <2> QED
    BY <1>1, <2>1, <2>2, <2>5, SerialQuiet
<1>8. ASSUME NEW folder \in Folder, DeleteFolderRead(c, folder) PROVE SInv'
  <2>1. PICK list, state : /\ list = {[file |-> f, slot |-> files[f].slot] : f \in ActiveIn(files, folder)}
                           /\ state = DeletingFolder(folder, list)
    OBVIOUS
  <2>2. Become(c, state) /\ folder \in folders
    BY <1>8, <2>1 DEF DeleteFolderRead, MayDelete
  <2>3. state.pc = "folder" /\ state.folder = folder /\ state.list = list
    BY <2>1 DEF DeletingFolder
  <2>4. \A f \in FileId : files[f] # NoRow /\ files[f].slot.folder = folder <=> f \in ActiveIn(files, folder)
    BY <1>0 DEF ActiveIn, OnePlace, TypeOK, NoRow
  <2>5. /\ \A f \in FileId : f \in ActiveIn(files, folder) <=> \E e \in list : e.file = f
        /\ \A e \in list : e.slot = files[e.file].slot
    <3> DEFINE entry(f) == [file |-> f, slot |-> files[f].slot]
    <3>1. \A e : e \in list <=> \E f \in ActiveIn(files, folder) : e = entry(f)
      BY <2>1
    <3>2. \A f : entry(f).file = f /\ entry(f).slot = files[f].slot
      OBVIOUS
    <3> HIDE DEF entry
    <3> QED
      BY <3>1, <3>2
  <2>6. StillTrue(state)
    BY <2>2, <2>3, <2>4, <2>5 DEF StillTrue
  <2> QED
    BY <1>1, <2>2, <2>6, SerialQuiet
<1> QED
  BY <1>2, <1>3, <1>4, <1>5, <1>6, <1>7, <1>8

LEMMA SerialFails ==
  ASSUME Serial, SInv, TypeOK', NEW c \in Cmd,
         \/ ChunkFail(c) \/ DeleteNothing(c) \/ RestoreFail(c) \/ UpdateFail(c)
         \/ DeleteFolderFail(c) \/ Crash(c)
  PROVE  SInv'
<1>0. TypeOK /\ OnePlace /\ StillTrue(cmd[c])
  BY DEF SInv
<1>1. UNCHANGED <<files, versions, objects, archived, folders>>
  BY DEF ChunkFail, DeleteNothing, RestoreFail, UpdateFail, DeleteFolderFail, Crash
<1>2. CASE Become(c, Idle)
  <2>1. StillTrue(Idle)
    BY DEF StillTrue, Idle
  <2> QED
    BY <1>1, <1>2, <2>1, SerialQuiet
<1>3. CASE ~Become(c, Idle)
  <2>1. PICK chunk, left :
          /\ chunk \in Chunks(cmd[c].left)
          /\ left = cmd[c].left \ chunk
          /\ cmd[c].pc = "expire"
          /\ Become(c, Purging(NextPc(c, left), left, KeysAfterFailure(c, chunk)))
    BY <1>3 DEF ChunkFail, DeleteNothing, RestoreFail, UpdateFail, DeleteFolderFail, Crash
  <2>2. PICK state : state = Purging(NextPc(c, left), left, KeysAfterFailure(c, chunk))
    OBVIOUS
  <2>3. /\ state.pc \in {"expire", "delete"} /\ state.keys = cmd[c].keys
        /\ state.left \subseteq cmd[c].left
    BY <2>1, <2>2 DEF Purging, NextPc, KeysAfterFailure
  <2>4. StillTrue(state)
    BY <1>0, <2>1, <2>3 DEF StillTrue
  <2> QED
    BY <1>1, <2>1, <2>2, <2>4, SerialQuiet
<1> QED
  BY <1>2, <1>3

LEMMA SerialPurges ==
  ASSUME Serial, SInv, TypeOK', NEW c \in Cmd, PurgeChunk(c) \/ DeleteObject(c)
  PROVE  SInv'
<1>0. TypeOK /\ OnePlace /\ StillTrue(cmd[c])
  BY DEF SInv
<1>1. CASE PurgeChunk(c)
  <2>1. PICK chunk, left :
          /\ chunk \in Chunks(cmd[c].left)
          /\ left = cmd[c].left \ chunk
          /\ archived' = Without({e.archive : e \in chunk})
          /\ Become(c, Purging(NextPc(c, left), left, Recorded(c, chunk)))
    BY <1>1 DEF PurgeChunk
  <2>2. PICK state, gone : /\ state = Purging(NextPc(c, left), left, Recorded(c, chunk))
                           /\ gone = {e.archive : e \in chunk}
    OBVIOUS
  <2>3. \A a \in ArchiveId : archived'[a] = IF a \in gone THEN NoRow ELSE archived[a]
    BY <2>1, <2>2 DEF Without
  <2>4. /\ cmd[c].pc \in {"purge", "expire"}
        /\ chunk \subseteq cmd[c].left /\ cmd[c].left \subseteq Entry
        /\ UNCHANGED <<files, versions, objects, folders>>
    BY <2>1, <1>0, <1>1, CmdShape DEF PurgeChunk, Chunks
  <2>5. \A e \in cmd[c].left : /\ e.archive \in ArchiveId /\ archived[e.archive] # NoRow
                               /\ archived[e.archive].file = e.file
    BY <1>0, <2>4 DEF StillTrue, Entry
  <2>6. OnePlace'
    BY <1>0, <2>3, <2>4 DEF OnePlace, InTrash
  <2>7. ASSUME NEW e \in left PROVE archived'[e.archive] # NoRow /\ archived'[e.archive].file = e.file
    <3>1. ASSUME NEW o \in chunk, o.archive = e.archive PROVE FALSE
      <4>1. o.file = e.file
        BY <2>1, <2>4, <2>5, <3>1
      <4>2. o = e
        BY <2>1, <2>4, <3>1, <4>1 DEF Entry
      <4> QED
        BY <2>1, <4>2
    <3> QED
      BY <2>1, <2>2, <2>3, <2>5, <3>1
  <2>8. ASSUME NEW f \in state.keys PROVE Gone(f)'
    <3>1. CASE f \in cmd[c].keys
      <4>1. Gone(f)
        BY <1>0, <2>4, <3>1 DEF StillTrue
      <4> QED
        BY <2>3, <2>4, <4>1 DEF Gone, InTrash
    <3>2. CASE f \notin cmd[c].keys
      <4>1. PICK e \in chunk : e.file = f
        BY <2>2, <3>2 DEF Purging, Recorded
      <4>2. e.archive \in gone /\ e.archive \in ArchiveId /\ archived[e.archive] # NoRow
            /\ archived[e.archive].file = f
        BY <2>2, <2>4, <2>5, <4>1
      <4>3. ~InTrash(f)'
        BY <1>0, <2>3, <4>2 DEF InTrash, OnePlace
      <4>4. f \in FileId
        BY <2>4, <4>1 DEF Entry
      <4>5. files[f] = NoRow
        BY <1>0, <4>2, <4>4 DEF OnePlace, InTrash
      <4> QED
        BY <2>4, <4>3, <4>5 DEF Gone
    <3> QED
      BY <3>1, <3>2
  <2>9. state.pc \in {"purge", "expire", "delete"} /\ state.left = left
    BY <2>2, <2>4 DEF Purging, NextPc
  <2>10. \A d \in Cmd : cmd'[d] = state
    BY <1>0, <2>1, <2>2 DEF Serial, TypeOK, Become
  <2>11. \A d \in Cmd : StillTrue(cmd[d])'
    BY <2>7, <2>8, <2>9, <2>10 DEF StillTrue, Gone, InTrash
  <2> QED
    BY <2>6, <2>11 DEF SInv
<1>2. CASE DeleteObject(c)
  <2>1. PICK f, keys :
          /\ f \in cmd[c].keys
          /\ keys = cmd[c].keys \ {f}
          /\ objects' \in {objects \ {f}, objects}
          /\ Become(c, IF keys = {} THEN Idle ELSE Purging("delete", {}, keys))
    BY <1>2 DEF DeleteObject, RemoveObject
  <2>2. cmd[c].pc = "delete" /\ UNCHANGED <<files, versions, archived, folders>>
    BY <1>2 DEF DeleteObject
  <2>3. \A g \in cmd[c].keys : Gone(g)
    BY <1>0, <2>2 DEF StillTrue
  <2>4. f \in FileId
    BY <2>1, <1>0, <2>2, CmdShape
  <2>5. OnePlace'
    <3>1. \A g \in FileId : g \in objects /\ g \notin objects' => g = f
      BY <2>1
    <3>2. files[f] = NoRow /\ \A a \in ArchiveId : archived[a] # NoRow => archived[a].file # f
      BY <2>1, <2>3 DEF Gone, InTrash
    <3>3. \A a \in ArchiveId : archived[a] # NoRow => archived[a].file \in FileId
      BY <1>0 DEF TypeOK, ArchivedFile
    <3> QED
      BY <1>0, <2>2, <3>1, <3>2, <3>3 DEF OnePlace, InTrash
  <2>6. PICK state : state = IF keys = {} THEN Idle ELSE Purging("delete", {}, keys)
    OBVIOUS
  <2>7. state.pc \in {"idle", "delete"} /\ (state.pc = "delete" => state.keys = keys)
    BY <2>6 DEF Idle, Purging
  <2>8. \A d \in Cmd : cmd'[d] = state
    BY <1>0, <2>1, <2>6 DEF Serial, TypeOK, Become
  <2>9. \A g \in keys : Gone(g)'
    BY <2>1, <2>2, <2>3 DEF Gone, InTrash
  <2>10. \A d \in Cmd : StillTrue(cmd[d])'
    BY <2>7, <2>8, <2>9 DEF StillTrue, Gone, InTrash
  <2> QED
    BY <2>5, <2>10 DEF SInv
<1> QED
  BY <1>1, <1>2

LEMMA SerialRowWrites ==
  ASSUME Serial, SInv, TypeOK', NEW c \in Cmd,
         (\E a \in ArchiveId : TrashCommit(c, a)) \/ RestoreCommit(c) \/ UpdateCommit(c)
  PROVE  SInv'
<1>0. TypeOK /\ OnePlace /\ StillTrue(cmd[c])
  BY DEF SInv
<1>1. ASSUME NEW a \in ArchiveId, TrashCommit(c, a) PROVE OnePlace'
  <2>1. PICK f, slot, row : f = cmd[c].file /\ slot = cmd[c].slot /\ row = Archive(f, slot, cmd[c].versions)
    OBVIOUS
  <2>2. /\ f \in FileId /\ files[f] # NoRow /\ cmd[c].versions
        /\ archived' = [archived EXCEPT ![a] = row] /\ Fresh(a)
        /\ files' = [files EXCEPT ![f] = NoRow] /\ versions' = versions \ {f} /\ objects' = objects
    BY <1>0, <1>1, <2>1, CmdShape DEF TrashCommit, StillTrue, Archived, WithoutVersions
  <2>3. row.file = f /\ row.versions /\ row # NoRow
    BY <2>1, <2>2 DEF Archive, WithVersions, ToArchived, NoRow
  <2>4. ~InTrash(f) /\ f \in objects
    BY <1>0, <2>2 DEF OnePlace
  <2>5. \A b \in ArchiveId : archived'[b] = IF b = a THEN row ELSE archived[b]
    BY <1>0, <2>2 DEF TypeOK
  <2>6. \A g \in FileId : files'[g] = IF g = f THEN NoRow ELSE files[g]
    BY <1>0, <2>2 DEF TypeOK
  <2>7. \A b \in ArchiveId : archived[b] # NoRow => archived[b].file # f
    BY <2>4 DEF InTrash
  <2> QED
    BY <1>0, <2>2, <2>3, <2>4, <2>5, <2>6, <2>7 DEF OnePlace, InTrash
<1>2. ASSUME RestoreCommit(c) PROVE OnePlace'
  <2>1. PICK f, slot, a : f = cmd[c].file /\ slot = cmd[c].slot /\ a = cmd[c].archive
    OBVIOUS
  <2>2. /\ f \in FileId /\ a \in ArchiveId /\ cmd[c].versions /\ files[f] = NoRow
        /\ archived[a] # NoRow /\ archived[a].file = f
        /\ \A g \in FileId : files[g] # NoRow => files[g].slot # slot
        /\ files' = [files EXCEPT ![f] = [status |-> "active", slot |-> slot]]
        /\ objects' = objects /\ f \in versions' /\ versions \subseteq versions'
    BY <1>0, <1>2, <2>1, CmdShape DEF RestoreCommit, StillTrue, CanRestore, InsertFile,
       RestoredVersions, ToFileVersions
  <2>3. \A b \in ArchiveId : archived'[b] = IF b = a THEN NoRow ELSE archived[b]
    BY <1>2, <2>1 DEF RestoreCommit, Without
  <2>4. \A g \in FileId : files'[g] = IF g = f THEN [status |-> "active", slot |-> slot] ELSE files[g]
    BY <1>0, <2>2 DEF TypeOK
  <2>5. f \in objects /\ ~InTrash(f)'
    BY <1>0, <2>2, <2>3 DEF OnePlace, InTrash
  <2>6. ASSUME NEW g \in FileId \ {f}, files'[g] # NoRow PROVE ~InTrash(g)'
    BY <1>0, <2>3, <2>4, <2>6 DEF OnePlace, InTrash
  <2>7. \A g \in FileId : files'[g] # NoRow =>
          ~InTrash(g)' /\ files'[g].status = "active" /\ g \in versions' /\ g \in objects'
    <3> SUFFICES ASSUME NEW g \in FileId, files'[g] # NoRow
                 PROVE  ~InTrash(g)' /\ files'[g].status = "active" /\ g \in versions' /\ g \in objects'
      OBVIOUS
    <3>1. CASE g = f
      BY <2>2, <2>4, <2>5, <3>1
    <3>2. CASE g # f
      <4>1. files'[g] = files[g]
        BY <2>4, <3>2
      <4>2. files[g].status = "active" /\ g \in versions /\ g \in objects
        BY <1>0, <4>1 DEF OnePlace
      <4> QED
        BY <2>2, <2>6, <3>2, <4>1, <4>2
    <3> QED
      BY <3>1, <3>2
  <2>8. \A g, h \in FileId :
          files'[g] # NoRow /\ files'[h] # NoRow /\ files'[g].slot = files'[h].slot => g = h
    BY <1>0, <2>2, <2>4 DEF OnePlace
  <2>9. \A b \in ArchiveId : archived'[b] # NoRow => archived'[b].versions /\ archived'[b].file \in objects'
    BY <1>0, <2>2, <2>3 DEF OnePlace
  <2>10. \A b, d \in ArchiveId :
           archived'[b] # NoRow /\ archived'[d] # NoRow /\ archived'[b].file = archived'[d].file => b = d
    BY <1>0, <2>3 DEF OnePlace
  <2> QED
    BY <2>7, <2>8, <2>9, <2>10 DEF OnePlace
<1>3. ASSUME UpdateCommit(c) PROVE OnePlace'
  <2>1. PICK f, slot, row : f = cmd[c].file /\ slot = cmd[c].slot
                            /\ row = [status |-> files[f].status, slot |-> slot]
    OBVIOUS
  <2>2. /\ f \in FileId /\ files[f] # NoRow
        /\ \A g \in FileId \ {f} : files[g] # NoRow => files[g].slot # slot
        /\ files' = [files EXCEPT ![f] = row]
        /\ UNCHANGED <<versions, objects, archived>>
    BY <1>0, <1>3, <2>1, CmdShape DEF UpdateCommit, StillTrue, UpdateFile
  <2>3. \A g \in FileId : files'[g] = IF g = f THEN row ELSE files[g]
    BY <1>0, <2>2 DEF TypeOK
  <2>4. files[f].status = "active" /\ row.status = "active" /\ row.slot = slot
    BY <1>0, <2>1, <2>2 DEF OnePlace
  <2>5. \A g \in FileId : InTrash(g)' = InTrash(g)
    BY <2>2 DEF InTrash
  <2>6. \A g \in FileId : files'[g] # NoRow =>
          files[g] # NoRow /\ files'[g].status = "active"
    BY <1>0, <2>2, <2>3, <2>4 DEF OnePlace
  <2>7. \A g \in FileId : files'[g] # NoRow =>
          ~InTrash(g)' /\ files'[g].status = "active" /\ g \in versions' /\ g \in objects'
    BY <1>0, <2>2, <2>5, <2>6 DEF OnePlace
  <2>8. \A g, h \in FileId :
          files'[g] # NoRow /\ files'[h] # NoRow /\ files'[g].slot = files'[h].slot => g = h
    BY <1>0, <2>2, <2>3, <2>4 DEF OnePlace
  <2> QED
    BY <1>0, <2>2, <2>7, <2>8 DEF OnePlace
<1>4. CASE \E a \in ArchiveId : TrashCommit(c, a)
  BY <1>0, <1>1, <1>4, SerialEnd DEF TrashCommit
<1>5. CASE RestoreCommit(c)
  BY <1>0, <1>2, <1>5, SerialEnd DEF RestoreCommit
<1>6. CASE UpdateCommit(c)
  BY <1>0, <1>3, <1>6, SerialEnd DEF UpdateCommit
<1> QED
  BY <1>4, <1>5, <1>6

\* What the transaction of DeleteFolder does when nobody else runs: the files it
\* listed are all the files of the folder, and each gets one row in the trash.
LEMMA SerialFolder ==
  ASSUME Serial, SInv, TypeOK', NEW c \in Cmd, DeleteFolderCommit(c)
  PROVE  \E listed \in SUBSET FileId :
           /\ \A f \in FileId : f \in listed <=> files[f] # NoRow /\ files[f].slot.folder = cmd[c].folder
           /\ \A f \in FileId : files'[f] = IF f \in listed THEN NoRow ELSE files[f]
           /\ versions' = versions \ listed
           /\ \A a \in ArchiveId : archived[a] # NoRow => archived'[a] = archived[a]
           /\ \A a \in ArchiveId : archived'[a] # archived[a] =>
                archived'[a] # NoRow /\ archived'[a].file \in listed /\ archived'[a].versions
           /\ \A a, b \in ArchiveId :
                archived'[a] # archived[a] /\ archived'[b] # archived[b]
                  /\ archived'[a].file = archived'[b].file => a = b
           /\ \A f \in listed : \E a \in ArchiveId : archived'[a] # archived[a] /\ archived'[a].file = f
           /\ objects' = objects
<1>0. TypeOK /\ OnePlace /\ StillTrue(cmd[c])
  BY DEF SInv
<1>1. PICK list, listed, taken :
        /\ list = cmd[c].list
        /\ listed = {e.file : e \in list}
        /\ taken = {f \in FileId \ listed : files[f] # NoRow /\ files[f].slot.folder = cmd[c].folder}
  OBVIOUS
<1>2. list \in SUBSET [file: FileId, slot: Slot] /\ cmd[c].pc = "folder"
  BY <1>0, <1>1, CmdShape DEF DeleteFolderCommit
<1>3. /\ \A f \in FileId :
           files[f] # NoRow /\ files[f].slot.folder = cmd[c].folder <=> \E e \in list : e.file = f
      /\ \A e \in list : e.slot = files[e.file].slot
  BY <1>0, <1>1, <1>2 DEF StillTrue
<1>4. \A f : f \in listed <=> \E e \in list : e.file = f
  BY <1>1
<1>5. listed \subseteq FileId
  BY <1>2, <1>4
<1>6. \A f \in FileId : f \in listed <=> files[f] # NoRow /\ files[f].slot.folder = cmd[c].folder
  BY <1>3, <1>4
<1>7. taken = {}
  BY <1>1, <1>6
<1>8. files' = DeleteFiles(files, listed \cup taken) /\ versions' = WithoutVersions(listed \cup taken)
      /\ objects' = objects
  BY <1>1 DEF DeleteFolderCommit
<1>9. /\ \A f \in FileId : files'[f] = IF f \in listed THEN NoRow ELSE files[f]
      /\ versions' = versions \ listed
  BY <1>0, <1>7, <1>8 DEF DeleteFiles, WithoutVersions, TypeOK
<1>10. ASSUME NEW e \in list
       PROVE  LET row == Archive(e.file, e.slot, e.file \in versions)
              IN  row # NoRow /\ row.file = e.file /\ row.versions
  <2>1. e.file \in FileId /\ files[e.file] # NoRow
    BY <1>2, <1>3
  <2>2. e.file \in versions
    BY <1>0, <2>1 DEF OnePlace
  <2> QED
    BY <2>2 DEF Archive, WithVersions, ToArchived, NoRow
<1>11. PICK new :
         /\ \A e \in list : /\ new[e] \in ArchiveId /\ Fresh(new[e])
                            /\ archived'[new[e]] = Archive(e.file, e.slot, e.file \in versions)
         /\ \A a \in ArchiveId : (\E e \in list : new[e] = a) \/ archived'[a] = archived[a]
  BY <1>0, <1>1, FolderRows
<1>12. \A e \in list : /\ new[e] \in ArchiveId /\ archived[new[e]] = NoRow
                       /\ archived'[new[e]] # NoRow /\ archived'[new[e]].file = e.file
                       /\ archived'[new[e]].versions
  BY <1>10, <1>11 DEF Fresh
<1>13. \A a \in ArchiveId : archived[a] # NoRow => archived'[a] = archived[a]
  BY <1>11, <1>12
<1>14. \A a \in ArchiveId : archived'[a] # archived[a] => \E e \in list : new[e] = a
  BY <1>11
<1>15. \A a \in ArchiveId : archived'[a] # archived[a] =>
         archived'[a] # NoRow /\ archived'[a].file \in listed /\ archived'[a].versions
  BY <1>4, <1>12, <1>14
<1>16. \A e, o \in list : e.file = o.file => e = o
  BY <1>2, <1>3
<1>17. \A a, b \in ArchiveId :
         archived'[a] # archived[a] /\ archived'[b] # archived[b]
           /\ archived'[a].file = archived'[b].file => a = b
  BY <1>12, <1>14, <1>16
<1>18. \A f \in listed : \E a \in ArchiveId : archived'[a] # archived[a] /\ archived'[a].file = f
  BY <1>4, <1>12
<1> QED
  BY <1>5, <1>6, <1>8, <1>9, <1>13, <1>15, <1>17, <1>18

LEMMA SerialFolderWrites ==
  ASSUME Serial, SInv, TypeOK', NEW c \in Cmd, DeleteFolderCommit(c)
  PROVE  SInv'
<1>0. TypeOK /\ OnePlace
  BY DEF SInv
<1>1. PICK listed \in SUBSET FileId :
        /\ \A f \in FileId : f \in listed <=> files[f] # NoRow /\ files[f].slot.folder = cmd[c].folder
        /\ \A f \in FileId : files'[f] = IF f \in listed THEN NoRow ELSE files[f]
        /\ versions' = versions \ listed
        /\ \A a \in ArchiveId : archived[a] # NoRow => archived'[a] = archived[a]
        /\ \A a \in ArchiveId : archived'[a] # archived[a] =>
             archived'[a] # NoRow /\ archived'[a].file \in listed /\ archived'[a].versions
        /\ \A a, b \in ArchiveId :
             archived'[a] # archived[a] /\ archived'[b] # archived[b]
               /\ archived'[a].file = archived'[b].file => a = b
        /\ objects' = objects
  BY SerialFolder
<1>2. ASSUME NEW f \in FileId, files'[f] # NoRow
      PROVE  /\ f \notin listed /\ ~InTrash(f)' /\ files'[f] = files[f]
             /\ files'[f].status = "active" /\ f \in versions' /\ f \in objects'
  <2>1. f \notin listed /\ files'[f] = files[f] /\ files[f] # NoRow
    BY <1>1, <1>2
  <2>2. ~InTrash(f)'
    BY <1>0, <1>1, <2>1 DEF OnePlace, InTrash
  <2> QED
    BY <1>0, <1>1, <2>1, <2>2 DEF OnePlace
<1>3. ASSUME NEW a \in ArchiveId, archived'[a] # NoRow
      PROVE  archived'[a].versions /\ archived'[a].file \in objects'
  BY <1>0, <1>1, <1>3 DEF OnePlace
<1>4. ASSUME NEW a \in ArchiveId, NEW b \in ArchiveId, archived'[a] # NoRow, archived'[b] # NoRow,
             archived'[a].file = archived'[b].file
      PROVE  a = b
  <2>1. \A x, y \in ArchiveId :
          archived[x] # NoRow /\ archived'[y] # archived[y] => archived[x].file # archived'[y].file
    BY <1>0, <1>1 DEF OnePlace, InTrash
  <2> QED
    BY <1>0, <1>1, <1>4, <2>1 DEF OnePlace
<1>5. \A f, g \in FileId : files'[f] # NoRow /\ files'[g] # NoRow /\ files'[f].slot = files'[g].slot => f = g
  BY <1>0, <1>2 DEF OnePlace
<1>6. OnePlace'
  BY <1>2, <1>3, <1>4, <1>5 DEF OnePlace
<1> QED
  BY <1>0, <1>6, SerialEnd DEF DeleteFolderCommit

LEMMA InitSInv == Init => SInv
<1> SUFFICES ASSUME Init PROVE SInv
  OBVIOUS
<1>1. OnePlace
  <2>1. \A f \in FileId : files[f].status = "active"
    BY DEF Init
  <2> QED
    BY <2>1 DEF Init, OnePlace, InTrash, NoRow
<1>2. \A c \in Cmd : StillTrue(cmd[c])
  <2>1. \A c \in Cmd : cmd[c].pc = "idle"
    BY DEF Init, Idle
  <2> QED
    BY <2>1 DEF StillTrue
<1> QED
  BY <1>1, <1>2, InitType DEF SInv

LEMMA NextSInv ==
  ASSUME Serial
  PROVE  SInv /\ [Next]_vars => SInv'
<1> SUFFICES ASSUME SInv, [Next]_vars PROVE SInv'
  OBVIOUS
<1>0. TypeOK'
  BY NextType DEF SInv
<1>1. ASSUME NEW c \in Cmd,
             \/ \E f \in FileId : TrashRead(c, f)
             \/ \E f \in FileId, name \in Name : RenameRead(c, f, name)
             \/ \E f \in FileId, folder \in Folder : MoveRead(c, f, folder)
             \/ \E a \in ArchiveId : PurgeRead(c, a)
             \/ \E a \in ArchiveId, folder \in Folder : RestoreRead(c, a, folder)
             \/ TrashVersions(c) \/ RestoreVersions(c) \/ EmptyTrashRead(c) \/ ExpiryRead(c)
             \/ \E folder \in Folder : DeleteFolderRead(c, folder)
      PROVE  SInv'
  BY <1>0, <1>1, SerialReads
<1>2. ASSUME NEW c \in Cmd,
             \/ ChunkFail(c) \/ DeleteNothing(c) \/ RestoreFail(c) \/ UpdateFail(c)
             \/ DeleteFolderFail(c) \/ Crash(c)
      PROVE  SInv'
  BY <1>0, <1>2, SerialFails
<1>3. ASSUME NEW c \in Cmd, PurgeChunk(c) \/ DeleteObject(c)
      PROVE  SInv'
  BY <1>0, <1>3, SerialPurges
<1>4. ASSUME NEW c \in Cmd,
             (\E a \in ArchiveId : TrashCommit(c, a)) \/ RestoreCommit(c) \/ UpdateCommit(c)
      PROVE  SInv'
  BY <1>0, <1>4, SerialRowWrites
<1>5. ASSUME NEW c \in Cmd, DeleteFolderCommit(c)
      PROVE  SInv'
  BY <1>0, <1>5, SerialFolderWrites
<1>6. ASSUME UNCHANGED <<files, versions, objects, archived, folders, cmd>>
      PROVE  SInv'
  <2>1. OnePlace'
    BY <1>6 DEF SInv, OnePlace, InTrash
  <2>2. \A c \in Cmd : StillTrue(cmd[c])'
    BY <1>6 DEF SInv, StillTrue, Gone, InTrash
  <2> QED
    BY <1>0, <2>1, <2>2 DEF SInv
<1>7. ASSUME NEW a \in ArchiveId, PassRetention(a)
      PROVE  SInv'
  BY <1>6, <1>7 DEF PassRetention
<1>8. CASE UNCHANGED vars
  BY <1>6, <1>8 DEF vars
<1>9. ASSUME NEW c \in Cmd, TrashFile(c) \/ RestoreFile(c)
      PROVE  SInv'
  BY <1>1, <1>2, <1>4, <1>9 DEF TrashFile, RestoreFile
<1>10. ASSUME NEW c \in Cmd, PermanentlyDeleteFile(c) \/ EmptyTrash(c) \/ TrashExpiryJob(c)
       PROVE  SInv'
  BY <1>1, <1>2, <1>3, <1>10 DEF PermanentlyDeleteFile, EmptyTrash, TrashExpiryJob, Purge
<1>11. ASSUME NEW c \in Cmd, RenameFile(c) \/ MoveFile(c)
       PROVE  SInv'
  <2>1. CASE \E f \in FileId, name \in Name : RenameRead(c, f, name)
    BY <1>1, <2>1
  <2>2. CASE \E f \in FileId, folder \in Folder : MoveRead(c, f, folder)
    BY <1>1, <2>2
  <2>3. CASE Update(c)
    BY <1>2, <1>4, <2>3 DEF Update
  <2> QED
    BY <1>11, <2>1, <2>2, <2>3 DEF RenameFile, MoveFile
<1>12. ASSUME NEW c \in Cmd, DeleteFolder(c)
       PROVE  SInv'
  BY <1>1, <1>2, <1>5, <1>12 DEF DeleteFolder
<1> QED
  BY <1>2, <1>7, <1>8, <1>9, <1>10, <1>11, <1>12 DEF Next

LEMMA SerialInvariance ==
  ASSUME Serial
  PROVE  Spec => []SInv
BY InitSInv, NextSInv, PTL DEF Spec

\* Whatever fails in them, as long as commands follow each other, every file a
\* user sees has its latest version and an object its URL leads to, and nothing
\* in the trash has lost the object it would be restored with.
THEOREM ContentIsThere ==
  ASSUME Serial
  PROVE  Spec => []ContentFollowsFile
<1>1. SInv => ContentFollowsFile
  <2> SUFFICES ASSUME SInv, NEW f \in FileId
               PROVE  /\ files[f] # NoRow => /\ ListFileVersions(f).latest
                                             /\ GetDownloadURL(f) # NoRow
                                             /\ GetDownloadURL(f).key \in objects
                      /\ InTrash(f) => f \in objects
    BY DEF ContentFollowsFile
  <2>1. ASSUME files[f] # NoRow
        PROVE  f \in versions /\ f \in objects /\ files[f].status = "active"
    BY <2>1 DEF SInv, OnePlace
  <2>2. ASSUME files[f] # NoRow
        PROVE  GetDownloadURL(f) = [status |-> "signed", key |-> f] /\ ListFileVersions(f).latest
    BY <2>1, <2>2 DEF ListFileVersions, GetDownloadURL, FindLatestVersion, FindVersions, GenerateGetURL, NoRow
  <2>3. ASSUME InTrash(f) PROVE f \in objects
    BY <2>3 DEF SInv, OnePlace, InTrash
  <2> QED
    BY <2>1, <2>2, <2>3 DEF NoRow
<1> QED
  BY <1>1, SerialInvariance, PTL

-----------------------------------------------------------------------------
(* One command at a time implements Trash *)

\* Where SInv says a file is: in its folder, in the trash once, or nowhere.
Where(f) ==
  IF files[f] # NoRow THEN TrashBin!InFolder(files[f].slot)
  ELSE IF InTrash(f) THEN TrashBin!InTrash ELSE TrashBin!Nowhere

\* Place never answers "twice".
WellPlaced == Place = [f \in FileId |-> Where(f)]

LEMMA SerialPlace == SInv => WellPlaced
<1> SUFFICES ASSUME SInv PROVE Place = [f \in FileId |-> Where(f)]
  BY DEF WellPlaced
<1> DEFINE copies(f) == {a \in ArchiveId : archived[a] # NoRow /\ archived[a].file = f}
           place(f) ==
             CASE files[f] # NoRow /\ copies(f) = {} -> [in |-> "folder", slot |-> files[f].slot]
               [] files[f] = NoRow /\ Cardinality(copies(f)) = 1 -> [in |-> "trash"]
               [] files[f] = NoRow /\ copies(f) = {} -> [in |-> "nowhere"]
               [] OTHER -> [in |-> "twice"]
<1>1. ASSUME NEW f \in FileId PROVE place(f) = Where(f)
  <2>1. InTrash(f) <=> copies(f) # {}
    BY DEF InTrash
  <2>2. \A a, b \in copies(f) : a = b
    BY DEF SInv, OnePlace
  <2>3. files[f] # NoRow => copies(f) = {}
    BY <2>1 DEF SInv, OnePlace
  <2>4. CASE copies(f) = {}
    <3>1. Cardinality(copies(f)) = 0
      BY <2>4, FS_EmptySet
    <3>2. Cardinality(copies(f)) # 1
      BY <3>1
    <3> HIDE DEF copies
    <3> QED
      BY <2>1, <2>4, <3>2 DEF Where, TrashBin!InFolder, TrashBin!Nowhere
  <2>5. CASE copies(f) # {}
    <3>1. PICK a : copies(f) = {a}
      BY <2>2, <2>5
    <3>2. Cardinality(copies(f)) = 1
      BY <3>1, FS_Singleton
    <3>3. files[f] = NoRow /\ InTrash(f)
      BY <2>1, <2>3, <2>5
    <3> HIDE DEF copies
    <3> QED
      BY <2>5, <3>2, <3>3 DEF Where, TrashBin!InTrash
  <2> QED
    BY <2>4, <2>5
<1>2. Place = [f \in FileId |-> place(f)]
  BY DEF Place
<1> HIDE DEF place
<1> QED
  BY <1>1, <1>2

LEMMA StillPlaced == SInv' => WellPlaced'
BY SerialPlace, PTL

LEMMA Kinds ==
  \A s, t : /\ TrashBin!InFolder(s) \notin {TrashBin!InTrash, TrashBin!Nowhere}
            /\ TrashBin!InFolder(s) = TrashBin!InFolder(t) => s = t
            /\ TrashBin!InTrash # TrashBin!Nowhere
<1>1. ASSUME NEW s, NEW t, TrashBin!InFolder(s) = TrashBin!InFolder(t) PROVE s = t
  <2>1. TrashBin!InFolder(s).slot = s /\ TrashBin!InFolder(t).slot = t
    BY DEF TrashBin!InFolder
  <2> QED
    BY <1>1, <2>1
<1>2. \A s : TrashBin!InFolder(s).in = "folder"
  BY DEF TrashBin!InFolder
<1>3. TrashBin!InTrash.in = "trash" /\ TrashBin!Nowhere.in = "nowhere"
  BY DEF TrashBin!InTrash, TrashBin!Nowhere
<1> QED
  BY <1>1, <1>2, <1>3

LEMMA InitTrash == Init => TrashBin!Init
<1> SUFFICES ASSUME Init PROVE TrashBin!Init
  OBVIOUS
<1>1. Place = [f \in FileId |-> Where(f)]
  BY InitSInv, SerialPlace DEF WellPlaced
<1>2. \A f \in FileId : files[f] # NoRow /\ files[f].slot \in Slot
  BY DEF Init, NoRow
<1>3. \A f \in FileId : Place[f] = TrashBin!InFolder(files[f].slot)
  BY <1>1, <1>2 DEF Where
<1>4. Place \in [FileId -> {TrashBin!InFolder(slot) : slot \in Slot}]
  BY <1>1, <1>2, <1>3
<1>5. \A f, g \in FileId : Place[f] = Place[g] => f = g
  BY <1>3, Kinds DEF Init
<1>6. objects = FileId
  BY DEF Init
<1> QED
  BY <1>4, <1>5, <1>6 DEF TrashBin!Init

\* A file put where no other is, by a rename, a move or a restore.
LEMMA PutsFile ==
  ASSUME SInv, SInv', NEW f \in FileId, NEW slot \in Slot,
         files[f] # NoRow \/ InTrash(f),
         \A g \in FileId : files[g] # NoRow => files[g].slot # slot,
         files'[f] # NoRow /\ files'[f].slot = slot,
         \A g \in FileId \ {f} : files'[g] = files[g] /\ InTrash(g)' = InTrash(g),
         objects' = objects
  PROVE  TrashBin!Next
<1>1. Place = [g \in FileId |-> Where(g)] /\ Place' = [g \in FileId |-> Where(g)']
  BY SerialPlace, StillPlaced DEF WellPlaced
<1>2. Place[f] # TrashBin!Nowhere
  BY <1>1, Kinds DEF Where
<1>3. TrashBin!Free(slot)
  BY <1>1, Kinds DEF Where, TrashBin!Free
<1>4. Where(f)' = TrashBin!InFolder(slot)
  BY DEF Where
<1>5. \A g \in FileId \ {f} : Where(g)' = Where(g)
  BY DEF Where
<1>6. Place' = [Place EXCEPT ![f] = TrashBin!InFolder(slot)]
  BY <1>1, <1>4, <1>5
<1>7. TrashBin!Put(f, slot)
  BY <1>2, <1>3, <1>6 DEF TrashBin!Put
<1> QED
  BY <1>7 DEF TrashBin!Next

\* Files of folders that get their row in the trash.
LEMMA DiscardsFiles ==
  ASSUME SInv, SInv', NEW fs \in SUBSET FileId,
         \A f \in fs : files[f] # NoRow /\ files'[f] = NoRow /\ InTrash(f)',
         \A g \in FileId \ fs : files'[g] = files[g] /\ InTrash(g)' = InTrash(g),
         objects' = objects
  PROVE  TrashBin!Next
<1>1. Place = [g \in FileId |-> Where(g)] /\ Place' = [g \in FileId |-> Where(g)']
  BY SerialPlace, StillPlaced DEF WellPlaced
<1>2. \A f \in fs : Place[f] \notin {TrashBin!InTrash, TrashBin!Nowhere}
  BY <1>1, Kinds DEF Where
<1>3. \A f \in FileId : Where(f)' = IF f \in fs THEN TrashBin!InTrash ELSE Where(f)
  BY DEF Where
<1>4. Place' = [f \in FileId |-> IF f \in fs THEN TrashBin!InTrash ELSE Place[f]]
  BY <1>1, <1>3
<1>5. TrashBin!Discard(fs)
  BY <1>2, <1>4 DEF TrashBin!Discard
<1> QED
  BY <1>5 DEF TrashBin!Next

\* Files whose rows in the trash are deleted for good.
LEMMA PurgesFiles ==
  ASSUME SInv, SInv', NEW fs \in SUBSET FileId,
         \A f \in fs : InTrash(f) /\ ~InTrash(f)',
         \A g \in FileId \ fs : InTrash(g)' = InTrash(g),
         files' = files, objects' = objects
  PROVE  TrashBin!Next
<1>1. Place = [g \in FileId |-> Where(g)] /\ Place' = [g \in FileId |-> Where(g)']
  BY SerialPlace, StillPlaced DEF WellPlaced
<1>2. \A f \in fs : files[f] = NoRow
  BY DEF SInv, OnePlace
<1>3. \A f \in fs : Place[f] = TrashBin!InTrash
  BY <1>1, <1>2 DEF Where
<1>4. \A f \in FileId : Where(f)' = IF f \in fs THEN TrashBin!Nowhere ELSE Where(f)
  BY <1>2 DEF Where
<1>5. Place' = [f \in FileId |-> IF f \in fs THEN TrashBin!Nowhere ELSE Place[f]]
  BY <1>1, <1>4
<1>6. TrashBin!Purge(fs)
  BY <1>3, <1>5 DEF TrashBin!Purge
<1> QED
  BY <1>6 DEF TrashBin!Next

LEMMA SamePlaces ==
  ASSUME UNCHANGED <<files, archived, objects>>
  PROVE  UNCHANGED TrashBin!vars
BY DEF TrashBin!vars, Place

LEMMA TrashRowWrites ==
  ASSUME Serial, SInv, SInv', NEW c \in Cmd,
         (\E a \in ArchiveId : TrashCommit(c, a)) \/ RestoreCommit(c) \/ UpdateCommit(c)
  PROVE  [TrashBin!Next]_TrashBin!vars
<1>0. TypeOK /\ OnePlace /\ StillTrue(cmd[c])
  BY DEF SInv
<1>1. ASSUME NEW a \in ArchiveId, TrashCommit(c, a) PROVE TrashBin!Next
  <2>1. PICK f, row : f = cmd[c].file /\ row = Archive(f, cmd[c].slot, cmd[c].versions)
    OBVIOUS
  <2>2. /\ f \in FileId /\ files[f] # NoRow
        /\ archived' = [archived EXCEPT ![a] = row] /\ archived[a] = NoRow
        /\ files' = [files EXCEPT ![f] = NoRow] /\ objects' = objects
    BY <1>0, <1>1, <2>1, CmdShape DEF TrashCommit, StillTrue, Archived, Fresh
  <2>3. row.file = f /\ row # NoRow
    BY <2>1 DEF Archive, WithVersions, ToArchived, NoRow
  <2>4. \A b \in ArchiveId : archived'[b] = IF b = a THEN row ELSE archived[b]
    BY <1>0, <2>2 DEF TypeOK
  <2>5. \A g \in FileId : files'[g] = IF g = f THEN NoRow ELSE files[g]
    BY <1>0, <2>2 DEF TypeOK
  <2>6. InTrash(f)' /\ \A g \in FileId \ {f} : InTrash(g)' = InTrash(g)
    BY <2>2, <2>3, <2>4 DEF InTrash
  <2>7. PICK fs \in SUBSET FileId : fs = {f}
    BY <2>2
  <2> QED
    BY <2>2, <2>5, <2>6, <2>7, DiscardsFiles
<1>2. ASSUME RestoreCommit(c) PROVE TrashBin!Next
  <2>1. PICK f, slot, a : f = cmd[c].file /\ slot = cmd[c].slot /\ a = cmd[c].archive
    OBVIOUS
  <2>2. /\ f \in FileId /\ slot \in Slot /\ a \in ArchiveId
        /\ archived[a] # NoRow /\ archived[a].file = f
        /\ \A g \in FileId : files[g] # NoRow => files[g].slot # slot
        /\ files' = [files EXCEPT ![f] = [status |-> "active", slot |-> slot]]
        /\ objects' = objects
    BY <1>0, <1>2, <2>1, CmdShape DEF RestoreCommit, StillTrue, InsertFile
  <2>3. \A b \in ArchiveId : archived'[b] = IF b = a THEN NoRow ELSE archived[b]
    BY <1>2, <2>1 DEF RestoreCommit, Without
  <2>4. \A g \in FileId : files'[g] = IF g = f THEN [status |-> "active", slot |-> slot] ELSE files[g]
    BY <1>0, <2>2 DEF TypeOK
  <2>5. files'[f] # NoRow /\ files'[f].slot = slot
    BY <2>2, <2>4 DEF NoRow
  <2>6. InTrash(f) /\ \A g \in FileId \ {f} : files'[g] = files[g] /\ InTrash(g)' = InTrash(g)
    BY <2>2, <2>3, <2>4 DEF InTrash
  <2> QED
    BY <2>2, <2>5, <2>6, PutsFile
<1>3. ASSUME UpdateCommit(c) PROVE [TrashBin!Next]_TrashBin!vars
  <2>1. PICK f, slot, row : f = cmd[c].file /\ slot = cmd[c].slot
                            /\ row = [status |-> files[f].status, slot |-> slot]
    OBVIOUS
  <2>2. /\ f \in FileId /\ slot \in Slot /\ files[f] # NoRow
        /\ \A g \in FileId \ {f} : files[g] # NoRow => files[g].slot # slot
        /\ files' = [files EXCEPT ![f] = row]
        /\ UNCHANGED <<objects, archived>>
    BY <1>0, <1>3, <2>1, CmdShape DEF UpdateCommit, StillTrue, UpdateFile
  <2>3. \A g \in FileId : files'[g] = IF g = f THEN row ELSE files[g]
    BY <1>0, <2>2 DEF TypeOK
  <2>4. \A g \in FileId : InTrash(g)' = InTrash(g)
    BY <2>2 DEF InTrash
  <2>5. files[f].status = "active" /\ row.slot = slot /\ row # NoRow
    BY <1>0, <2>1, <2>2 DEF OnePlace, NoRow
  <2>6. CASE files[f].slot = slot
    <3>1. Where(f)' = Where(f)
      BY <2>2, <2>3, <2>5, <2>6 DEF Where
    <3>2. \A g \in FileId \ {f} : Where(g)' = Where(g)
      BY <2>3, <2>4 DEF Where
    <3>3. Place' = Place
      BY <3>1, <3>2, SerialPlace, StillPlaced DEF WellPlaced
    <3> QED
      BY <2>2, <3>3 DEF TrashBin!vars
  <2>7. CASE files[f].slot # slot
    <3>1. files'[f] # NoRow /\ files'[f].slot = slot
      BY <2>2, <2>3, <2>5
    <3>2. \A g \in FileId : files[g] # NoRow => files[g].slot # slot
      BY <2>2, <2>7
    <3> QED
      BY <2>2, <2>3, <2>4, <3>1, <3>2, PutsFile
  <2> QED
    BY <2>6, <2>7
<1>4. CASE \E a \in ArchiveId : TrashCommit(c, a)
  BY <1>1, <1>4
<1> QED
  BY <1>2, <1>3, <1>4

LEMMA TrashFolderWrites ==
  ASSUME Serial, SInv, SInv', NEW c \in Cmd, DeleteFolderCommit(c)
  PROVE  TrashBin!Next
<1>1. TypeOK' /\ OnePlace
  BY DEF SInv
<1>2. PICK listed \in SUBSET FileId :
        /\ \A f \in FileId : f \in listed <=> files[f] # NoRow /\ files[f].slot.folder = cmd[c].folder
        /\ \A f \in FileId : files'[f] = IF f \in listed THEN NoRow ELSE files[f]
        /\ versions' = versions \ listed
        /\ \A a \in ArchiveId : archived[a] # NoRow => archived'[a] = archived[a]
        /\ \A a \in ArchiveId : archived'[a] # archived[a] =>
             archived'[a] # NoRow /\ archived'[a].file \in listed /\ archived'[a].versions
        /\ \A a, b \in ArchiveId :
             archived'[a] # archived[a] /\ archived'[b] # archived[b]
               /\ archived'[a].file = archived'[b].file => a = b
        /\ \A f \in listed : \E a \in ArchiveId : archived'[a] # archived[a] /\ archived'[a].file = f
        /\ objects' = objects
  BY <1>1, SerialFolder, Zenon
<1>3. \A f \in listed : files[f] # NoRow /\ files'[f] = NoRow /\ InTrash(f)'
  BY <1>2 DEF InTrash
<1>4. \A g \in FileId \ listed : files'[g] = files[g] /\ InTrash(g)' = InTrash(g)
  BY <1>2 DEF InTrash
<1> QED
  BY <1>2, <1>3, <1>4, DiscardsFiles

LEMMA TrashPurges ==
  ASSUME Serial, SInv, SInv', NEW c \in Cmd, PurgeChunk(c) \/ DeleteObject(c)
  PROVE  [TrashBin!Next]_TrashBin!vars
<1>0. TypeOK /\ OnePlace /\ StillTrue(cmd[c])
  BY DEF SInv
<1>1. CASE PurgeChunk(c)
  <2>1. PICK chunk, gone, fs :
          /\ chunk \in Chunks(cmd[c].left)
          /\ archived' = Without(gone)
          /\ gone = {e.archive : e \in chunk} /\ fs = {e.file : e \in chunk}
    BY <1>1 DEF PurgeChunk
  <2>2. /\ cmd[c].pc \in {"purge", "expire"}
        /\ chunk \subseteq cmd[c].left /\ cmd[c].left \subseteq Entry
        /\ UNCHANGED <<files, objects>>
    BY <2>1, <1>0, <1>1, CmdShape DEF PurgeChunk, Chunks
  <2>3. \A e \in chunk : /\ e.archive \in ArchiveId /\ archived[e.archive] # NoRow
                         /\ archived[e.archive].file = e.file /\ e.file \in FileId
    BY <1>0, <2>2 DEF StillTrue, Entry
  <2>4. \A a \in ArchiveId : archived'[a] = IF a \in gone THEN NoRow ELSE archived[a]
    BY <2>1 DEF Without
  <2>5. fs \in SUBSET FileId
    BY <2>1, <2>3
  <2>6. \A f \in fs : \E a \in gone : a \in ArchiveId /\ archived[a] # NoRow /\ archived[a].file = f
    BY <2>1, <2>3
  <2>7. \A a \in gone : a \in ArchiveId /\ archived[a] # NoRow /\ archived[a].file \in fs
    BY <2>1, <2>3
  <2>8. ASSUME NEW f \in fs PROVE InTrash(f) /\ ~InTrash(f)'
    <3>1. PICK a \in gone : a \in ArchiveId /\ archived[a] # NoRow /\ archived[a].file = f
      BY <2>6
    <3>2. \A b \in ArchiveId : archived[b] # NoRow /\ archived[b].file = f => b = a
      BY <1>0, <3>1 DEF OnePlace
    <3> QED
      BY <2>4, <3>1, <3>2 DEF InTrash
  <2>9. \A g \in FileId \ fs : InTrash(g)' = InTrash(g)
    BY <2>4, <2>7 DEF InTrash
  <2> QED
    BY <2>2, <2>5, <2>8, <2>9, PurgesFiles
<1>2. CASE DeleteObject(c)
  <2>1. PICK f \in cmd[c].keys : objects' \in {objects \ {f}, objects}
    BY <1>2 DEF DeleteObject, RemoveObject
  <2>2. cmd[c].pc = "delete" /\ UNCHANGED <<files, archived>>
    BY <1>2 DEF DeleteObject
  <2>3. f \in FileId /\ Gone(f)
    BY <1>0, <2>1, <2>2, CmdShape DEF StillTrue
  <2>4. Place' = Place
    BY <2>2 DEF Place
  <2>5. Place[f] = TrashBin!Nowhere
    BY <2>3, SerialPlace DEF WellPlaced, Where, Gone
  <2>6. objects' = objects \ {f} => TrashBin!Erase(f)
    BY <2>4, <2>5 DEF TrashBin!Erase
  <2> QED
    BY <2>1, <2>3, <2>4, <2>6 DEF TrashBin!Next, TrashBin!vars
<1> QED
  BY <1>1, <1>2

LEMMA NextTrash ==
  ASSUME Serial
  PROVE  SInv /\ SInv' /\ [Next]_vars => [TrashBin!Next]_TrashBin!vars
<1> SUFFICES ASSUME SInv, SInv', [Next]_vars PROVE [TrashBin!Next]_TrashBin!vars
  OBVIOUS
<1> DEFINE Goal == [TrashBin!Next]_TrashBin!vars
<1>1. ASSUME UNCHANGED <<files, archived, objects>> PROVE Goal
  BY <1>1, SamePlaces
<1>2. ASSUME NEW c \in Cmd,
             (\E a \in ArchiveId : TrashCommit(c, a)) \/ RestoreCommit(c) \/ UpdateCommit(c)
      PROVE  Goal
  BY <1>2, TrashRowWrites
<1>3. ASSUME NEW c \in Cmd, DeleteFolderCommit(c) PROVE Goal
  BY <1>3, TrashFolderWrites
<1>4. ASSUME NEW c \in Cmd, PurgeChunk(c) \/ DeleteObject(c) PROVE Goal
  BY <1>4, TrashPurges
<1> HIDE DEF Goal
<1>5. ASSUME NEW c \in Cmd, TrashFile(c) PROVE Goal
  BY <1>1, <1>2, <1>5 DEF TrashFile, TrashRead, TrashVersions
<1>6. ASSUME NEW c \in Cmd, RestoreFile(c) PROVE Goal
  BY <1>1, <1>2, <1>6 DEF RestoreFile, RestoreRead, RestoreVersions, RestoreFail
<1>7. ASSUME NEW c \in Cmd, Purge(c) \/ ChunkFail(c) PROVE Goal
  BY <1>1, <1>4, <1>7 DEF Purge, ChunkFail, DeleteNothing
<1>8. ASSUME NEW c \in Cmd, PermanentlyDeleteFile(c) \/ EmptyTrash(c) \/ TrashExpiryJob(c) PROVE Goal
  BY <1>1, <1>7, <1>8 DEF PermanentlyDeleteFile, EmptyTrash, TrashExpiryJob, PurgeRead, EmptyTrashRead, ExpiryRead
<1>9. ASSUME NEW c \in Cmd, RenameFile(c) \/ MoveFile(c) PROVE Goal
  BY <1>1, <1>2, <1>9 DEF RenameFile, MoveFile, Update, RenameRead, MoveRead, UpdateFail
<1>10. ASSUME NEW c \in Cmd, DeleteFolder(c) PROVE Goal
  BY <1>1, <1>3, <1>10 DEF DeleteFolder, DeleteFolderRead, DeleteFolderFail
<1>11. ASSUME NEW c \in Cmd, Crash(c) PROVE Goal
  BY <1>1, <1>11 DEF Crash
<1>12. ASSUME NEW a \in ArchiveId, PassRetention(a) PROVE Goal
  BY <1>1, <1>12 DEF PassRetention
<1>13. ASSUME UNCHANGED vars PROVE Goal
  BY <1>1, <1>13 DEF vars
<1>14. Goal
  BY <1>5, <1>6, <1>8, <1>9, <1>10, <1>11, <1>12, <1>13 DEF Next
<1> QED
  BY <1>14 DEF Goal

\* One command at a time, whatever fails in it, is the trash a user expects: a
\* file is in one place, a rename, move or restore puts it where no other file
\* is, only a purge takes it out of the trash, and its content goes last.
THEOREM CommandsImplementTrash ==
  ASSUME Serial
  PROVE  Spec => IsTrash
BY InitTrash, NextTrash, SerialInvariance, PTL DEF Spec, IsTrash, TrashBin!Spec
=============================================================================
