---------------------------- MODULE FileCommands ---------------------------
(***************************************************************************)
(* The commands on a stored file: move to the trash, restore, delete for   *)
(* good (one file, the whole trash, or everything past its retention),     *)
(* rename, move, and delete with the folder, running concurrently over     *)
(* PostgreSQL and MinIO.  Folders are flat here.                           *)
(*                                                                         *)
(* As in Upload, a command reads rows with statements of their own, keeps  *)
(* the entities, and writes them back in a later transaction.  DELETE and  *)
(* the inserts of the trash never look at what the rows have become; only  *)
(* primary keys, foreign keys and UPDATE ... RETURNING do.                 *)
(***************************************************************************)
EXTENDS FileTable, FiniteSets

CONSTANTS
  FileId,      \* files, which are also the keys of their objects
  ArchiveId,   \* identifiers uuid.New() may return for an archived file
  Folder, Name,
  Personal,    \* the personal folder of the owner, which is never deleted
  Cmd,         \* commands running at the same time
  ChunkSize,   \* archived files deleted in one transaction
  JobStarted,  \* TRUE: TrashExpiryJob runs (main.go never starts it)
  MayFail      \* TRUE: transactions, MinIO calls and processes may fail

ASSUME CommandAssumption ==
  /\ Personal \in Folder
  /\ ChunkSize \in Nat \ {0}
  /\ JobStarted \in BOOLEAN /\ MayFail \in BOOLEAN

VARIABLES
  files,     \* table files
  versions,  \* files with their row in table file_versions
  objects,   \* keys with an object in the MinIO bucket (a file of several
             \* parts never has one, see Upload)
  archived,  \* table archived_files, with its archived_file_versions
  expired,   \* archived files past their retention
  folders,   \* table folders
  purged,    \* history: files whose archive was deleted for good
  swept,     \* history: files a deleted folder took along
  cmd        \* the commands

lost == <<purged, swept>>
vars == <<files, versions, objects, archived, expired, folders, lost, cmd>>

Slot == [folder: Folder, name: Name]

ArchivedFile == [status: {"archived"}, file: FileId, slot: Slot, versions: BOOLEAN]

\* What an archived file means to the commands that delete it.
Entry == [archive: ArchiveId, file: FileId]

\* A command between two steps, and the entities it holds.
Idle == [pc |-> "idle"]
Trashing(pc, f, slot, v) == [pc |-> pc, file |-> f, slot |-> slot, versions |-> v]
Restoring(pc, a, f, slot, v) ==
  [pc |-> pc, archive |-> a, file |-> f, slot |-> slot, versions |-> v]
Purging(pc, left, keys) == [pc |-> pc, left |-> left, keys |-> keys]
Saving(pc, f, slot) == [pc |-> pc, file |-> f, slot |-> slot]
DeletingFolder(d, list) == [pc |-> "folder", folder |-> d, list |-> list]

Command ==
  [pc: {"trash_read", "trash"}, file: FileId, slot: Slot, versions: BOOLEAN]
    \cup
  [pc: {"restore_read", "restore"}, archive: ArchiveId, file: FileId,
   slot: Slot, versions: BOOLEAN]
    \cup
  [pc: {"purge", "expire", "delete"}, left: SUBSET Entry, keys: SUBSET FileId]
    \cup
  [pc: {"rename", "move"}, file: FileId, slot: Slot]
    \cup
  [pc: {"folder"}, folder: Folder \ {Personal}, list: SUBSET [file: FileId, slot: Slot]]

TypeOK ==
  /\ files \in [FileId -> FileRow(Slot) \cup {NoRow}]
  /\ versions \subseteq FileId
  /\ objects \subseteq FileId
  /\ archived \in [ArchiveId -> ArchivedFile \cup {NoRow}]
  /\ expired \subseteq {a \in ArchiveId : archived[a] # NoRow}
  /\ folders \subseteq Folder /\ Personal \in folders
  /\ purged \subseteq FileId /\ swept \subseteq FileId
  /\ cmd \in [Cmd -> Command \cup {Idle}]

\* Uploads of a single PUT have completed; no two of them claimed one name.
Init ==
  /\ files \in [FileId -> [status: {"active"}, slot: Slot]]
  /\ \A f, g \in FileId : files[f].slot = files[g].slot => f = g
  /\ versions = FileId
  /\ objects = FileId
  /\ archived = [a \in ArchiveId |-> NoRow]
  /\ expired = {}
  /\ folders = Folder
  /\ purged = {} /\ swept = {}
  /\ cmd = [c \in Cmd |-> Idle]

Become(c, state) == cmd' = [cmd EXCEPT ![c] = state]

Mentions(c, a) ==
  \/ cmd[c].pc \in {"restore_read", "restore"} /\ cmd[c].archive = a
  \/ cmd[c].pc \in {"purge", "expire"} /\ \E e \in cmd[c].left : e.archive = a

Fresh(a) == archived[a] = NoRow /\ \A c \in Cmd : ~Mentions(c, a)

-----------------------------------------------------------------------------
(* The repositories *)

\* FileVersionRepository.FindByFileID, FindLatestByFileID, DeleteByFileID.
FindVersions(f) == f \in versions

FindLatestVersion(f) == IF f \in versions THEN [file |-> f] ELSE NoRow

WithoutVersions(fs) == versions \ fs

\* ArchivedFileRepository.FindByID, FindByOwner (the whole trash of the user),
\* FindExpired.
FindArchived(a) == archived[a]

Trashed == {a \in ArchiveId : archived[a] # NoRow}

FindExpired == expired

\* ArchivedFileVersionRepository.FindByArchivedFileID.
FindArchivedVersions(a) == archived[a] # NoRow /\ archived[a].versions

\* Mutant: the archive stays in the trash.
WithoutNothing(as) == archived

\* ArchivedFileRepository.Delete.
Without(as) == [a \in ArchiveId |-> IF a \in as THEN NoRow ELSE archived[a]]

-----------------------------------------------------------------------------
(* TrashFile *)

TrashRead(c, f) ==
  /\ cmd[c] = Idle
  /\ files[f].status = "active"
  /\ Become(c, Trashing("trash_read", f, files[f].slot, FALSE))
  /\ UNCHANGED <<files, versions, objects, archived, expired, folders, lost>>

\* The versions are read by a statement of their own.
TrashVersions(c) ==
  /\ cmd[c].pc = "trash_read"
  /\ Become(c, Trashing("trash", cmd[c].file, cmd[c].slot, FindVersions(cmd[c].file)))
  /\ UNCHANGED <<files, versions, objects, archived, expired, folders, lost>>

\* File.ToArchived, of the entity as it was read.
ToArchived(f, slot) ==
  [status |-> "archived", file |-> f, slot |-> slot, versions |-> FALSE]

\* ArchivedFileVersionRepository.BulkCreate, which has nothing to do without
\* versions.
WithVersions(row, v) == IF v THEN [row EXCEPT !.versions = TRUE] ELSE row

Archive(f, slot, v) == WithVersions(ToArchived(f, slot), v)

\* Mutant: an archive row only for files with versions.
ArchivedWithVersions(c, a) ==
  IF cmd[c].versions
    THEN [archived EXCEPT ![a] = Archive(cmd[c].file, cmd[c].slot, TRUE)]
    ELSE archived

Archived(c, a) ==
  [archived EXCEPT ![a] = Archive(cmd[c].file, cmd[c].slot, cmd[c].versions)]

\* The transaction: insert the archive, delete versions and file, whether or
\* not they are still there.
TrashCommit(c, a) ==
  /\ cmd[c].pc = "trash"
  /\ Fresh(a)
  /\ archived' = Archived(c, a)
  /\ versions' = WithoutVersions({cmd[c].file})
  /\ files' = [files EXCEPT ![cmd[c].file] = NoRow]
  /\ purged' = purged \ {cmd[c].file}
  /\ Become(c, Idle)
  /\ swept' = swept \ {cmd[c].file}
  /\ UNCHANGED <<objects, expired, folders>>

-----------------------------------------------------------------------------
(* RestoreFile *)

\* determineRestoreFolder: the folder the client names, if it exists, else the
\* original one while that exists, else the personal folder.
RestoreFolders(row) ==
  folders \cup {IF row.slot.folder \in folders THEN row.slot.folder ELSE Personal}

\* The file an archived file becomes.
ToFile(row, folder) ==
  [status |-> "active", slot |-> [folder |-> folder, name |-> row.slot.name]]

RestoreRead(c, a, folder) ==
  LET row  == FindArchived(a)
      slot == ToFile(row, folder).slot
  IN /\ cmd[c] = Idle
     /\ row # NoRow
     /\ a \notin expired
     /\ folder \in RestoreFolders(row)
     /\ ~SlotTaken(files, slot)
     /\ Become(c, Restoring("restore_read", a, row.file, slot, FALSE))
     /\ UNCHANGED <<files, versions, objects, archived, expired, folders, lost>>

RestoreVersions(c) ==
  LET a == cmd[c].archive IN
  /\ cmd[c].pc = "restore_read"
  /\ Become(c, Restoring("restore", a, cmd[c].file, cmd[c].slot,
                         FindArchivedVersions(a)))
  /\ UNCHANGED <<files, versions, objects, archived, expired, folders, lost>>

\* Primary key of the file, foreign key of its folder.
CanRestore(c) == files[cmd[c].file] = NoRow /\ cmd[c].slot.folder \in folders

\* The versions that were archived, as versions of the file.
ToFileVersions(c) == IF cmd[c].versions THEN {cmd[c].file} ELSE {}

RestoredVersions(c) == versions \cup ToFileVersions(c)

RestoreCommit(c) ==
  /\ cmd[c].pc = "restore"
  /\ CanRestore(c)
  /\ files' = InsertFile(files, cmd[c].file, cmd[c].slot, "active")
  /\ versions' = RestoredVersions(c)
  /\ archived' = Without({cmd[c].archive})
  /\ expired' = expired \ {cmd[c].archive}
  /\ purged' = purged \ {cmd[c].file}
  /\ Become(c, Idle)
  /\ swept' = swept \ {cmd[c].file}
  /\ UNCHANGED <<objects, folders>>

RestoreFail(c) ==
  /\ cmd[c].pc = "restore"
  /\ ~CanRestore(c)
  /\ Become(c, Idle)
  /\ UNCHANGED <<files, versions, objects, archived, expired, folders, lost>>

-----------------------------------------------------------------------------
(* PermanentlyDeleteFile, EmptyTrash, TrashExpiryJob *)

EntryOf(a) == [archive |-> a, file |-> FindArchived(a).file]

PurgeRead(c, a) ==
  /\ cmd[c] = Idle
  /\ FindArchived(a) # NoRow
  /\ Become(c, Purging("purge", {EntryOf(a)}, {}))
  /\ UNCHANGED <<files, versions, objects, archived, expired, folders, lost>>

EmptyTrashRead(c) ==
  /\ cmd[c] = Idle
  /\ Trashed # {}
  /\ Become(c, Purging("purge", {EntryOf(a) : a \in Trashed}, {}))
  /\ UNCHANGED <<files, versions, objects, archived, expired, folders, lost>>

ExpiryRead(c) ==
  /\ JobStarted
  /\ cmd[c] = Idle
  /\ FindExpired # {}
  /\ Become(c, Purging("expire", {EntryOf(a) : a \in FindExpired}, {}))
  /\ UNCHANGED <<files, versions, objects, archived, expired, folders, lost>>

\* The order of the list is of no consequence: a chunk is any ChunkSize
\* entries of it, or all that are left.
Chunks(left) ==
  {chunk \in SUBSET left : IF Cardinality(left) > ChunkSize
                             THEN Cardinality(chunk) = ChunkSize
                             ELSE chunk = left}

\* Mutant: the key is not recorded.
RecordedNone(c, chunk) == cmd[c].keys

\* Storage keys are recorded for the chunks whose transaction committed.
Recorded(c, chunk) == cmd[c].keys \cup {e.file : e \in chunk}

\* After the last chunk the objects are deleted.
NextPc(c, left) == IF left = {} THEN "delete" ELSE cmd[c].pc

\* The transaction of one chunk: archive rows are deleted if they still exist,
\* the keys are recorded in either case.
PurgeChunk(c) ==
  /\ cmd[c].pc \in {"purge", "expire"}
  /\ \E chunk \in Chunks(cmd[c].left) :
       LET gone == {e.archive : e \in chunk}
           left == cmd[c].left \ chunk
       IN /\ archived' = Without(gone)
          /\ expired' = expired \ gone
          /\ purged' = purged \cup
               {archived[a].file : a \in {b \in gone : archived[b] # NoRow}}
          /\ Become(c, Purging(NextPc(c, left), left, Recorded(c, chunk)))
  /\ UNCHANGED <<files, versions, objects, folders, swept>>

\* Mutant: the keys of a failed chunk are recorded as well.
KeysAfterFailureAll(c, chunk) == Recorded(c, chunk)

KeysAfterFailure(c, chunk) == cmd[c].keys

\* A chunk fails: the request gives up, objects of earlier chunks included;
\* the job goes on with the next chunk.
ChunkFail(c) ==
  /\ MayFail
  /\ cmd[c].pc \in {"purge", "expire"}
  /\ IF cmd[c].pc = "purge"
       THEN Become(c, Idle)
       ELSE \E chunk \in Chunks(cmd[c].left) :
              LET left == cmd[c].left \ chunk IN
              Become(c, Purging(NextPc(c, left), left, KeysAfterFailure(c, chunk)))
  /\ UNCHANGED <<files, versions, objects, archived, expired, folders, lost>>

\* StorageService.DeleteObject, or DeleteObjects key by key for the job.  Deleting
\* what is not there is no error.
RemoveObject(f) == objects \ {f}

\* One call; an error is logged and forgotten.
DeleteObject(c) ==
  /\ cmd[c].pc = "delete"
  /\ \E f \in cmd[c].keys :
       LET keys == cmd[c].keys \ {f} IN
       /\ objects' \in {RemoveObject(f)} \cup (IF MayFail THEN {objects} ELSE {})
       /\ Become(c, IF keys = {} THEN Idle ELSE Purging("delete", {}, keys))
  /\ UNCHANGED <<files, versions, archived, expired, folders, lost>>

\* A job none of whose chunks committed has nothing to delete.
DeleteNothing(c) ==
  /\ cmd[c].pc = "delete"
  /\ cmd[c].keys = {}
  /\ Become(c, Idle)
  /\ UNCHANGED <<files, versions, objects, archived, expired, folders, lost>>

-----------------------------------------------------------------------------
(* RenameFile, MoveFile *)

RenameRead(c, f, name) ==
  LET slot == [files[f].slot EXCEPT !.name = name] IN
  /\ cmd[c] = Idle
  /\ files[f].status = "active"
  /\ slot # files[f].slot => ~SlotTaken(files, slot)
  /\ Become(c, Saving("rename", f, slot))
  /\ UNCHANGED <<files, versions, objects, archived, expired, folders, lost>>

\* Moving to the folder the file is in answers success and changes nothing.
MoveRead(c, f, folder) ==
  LET slot == [files[f].slot EXCEPT !.folder = folder] IN
  /\ cmd[c] = Idle
  /\ files[f].status = "active"
  /\ folder # files[f].slot.folder
  /\ folder \in folders
  /\ ~SlotTaken(files, slot)
  /\ Become(c, Saving("move", f, slot))
  /\ UNCHANGED <<files, versions, objects, archived, expired, folders, lost>>

CanUpdate(c) == files[cmd[c].file] # NoRow /\ cmd[c].slot.folder \in folders

\* UPDATE writes folder and name of the entity, the column that the command
\* did not mean to change included.
UpdateCommit(c) ==
  /\ cmd[c].pc \in {"rename", "move"}
  /\ CanUpdate(c)
  /\ files' = UpdateFile(files, cmd[c].file, cmd[c].slot, files[cmd[c].file].status)
  /\ Become(c, Idle)
  /\ UNCHANGED <<versions, objects, archived, expired, folders, lost>>

UpdateFail(c) ==
  /\ cmd[c].pc \in {"rename", "move"}
  /\ ~CanUpdate(c)
  /\ Become(c, Idle)
  /\ UNCHANGED <<files, versions, objects, archived, expired, folders, lost>>

-----------------------------------------------------------------------------
(* DeleteFolder *)

MayDelete(folder) == folder \in folders \ {Personal}

\* The active files of the folder are listed before the transaction.
DeleteFolderRead(c, folder) ==
  LET listed == ActiveIn(files, folder) IN
  /\ cmd[c] = Idle
  /\ MayDelete(folder)
  /\ Become(c, DeletingFolder(folder, {[file |-> f, slot |-> files[f].slot] : f \in listed}))
  /\ UNCHANGED <<files, versions, objects, archived, expired, folders, lost>>

\* The transaction archives the listed files, wherever they are by now; the
\* foreign key then takes every file still in the folder along with it.
DeleteFolderCommit(c) ==
  /\ cmd[c].pc = "folder"
  /\ cmd[c].folder \in folders
  /\ LET listed == {e.file : e \in cmd[c].list}
         taken  == {f \in FileId \ listed :
                      files[f] # NoRow /\ files[f].slot.folder = cmd[c].folder}
     IN /\ \E new \in [cmd[c].list -> {a \in ArchiveId : Fresh(a)}] :
             /\ \A e, o \in cmd[c].list : new[e] = new[o] => e = o
             /\ archived' = [a \in ArchiveId |->
                  IF \E o \in cmd[c].list : new[o] = a
                    THEN LET e == CHOOSE o \in cmd[c].list : new[o] = a
                         IN  Archive(e.file, e.slot, FindVersions(e.file))
                    ELSE archived[a]]
        /\ files' = DeleteFiles(files, listed \cup taken)
        /\ versions' = WithoutVersions(listed \cup taken)
        /\ purged' = purged \ listed
        /\ swept' = (swept \ listed) \cup taken
  /\ folders' = folders \ {cmd[c].folder}
  /\ Become(c, Idle)
  /\ UNCHANGED <<objects, expired>>

\* Another command deleted the folder: an error, or nothing left to delete.
DeleteFolderFail(c) ==
  /\ cmd[c].pc = "folder"
  /\ cmd[c].folder \notin folders
  /\ Become(c, Idle)
  /\ UNCHANGED <<files, versions, objects, archived, expired, folders, lost>>

-----------------------------------------------------------------------------
PassRetention(a) ==
  /\ archived[a] # NoRow
  /\ a \notin expired
  /\ expired' = expired \cup {a}
  /\ UNCHANGED <<files, versions, objects, archived, folders, lost, cmd>>

\* The process dies, or a statement or transaction fails and rolls back.
Crash(c) ==
  /\ MayFail
  /\ cmd[c] # Idle
  /\ Become(c, Idle)
  /\ UNCHANGED <<files, versions, objects, archived, expired, folders, lost>>

Purge(c) == PurgeChunk(c) \/ DeleteObject(c) \/ DeleteNothing(c)

(* The requests, each served by one of the commands, and the job. *)

TrashFile(c) ==
  \/ \E f \in FileId : TrashRead(c, f)
  \/ TrashVersions(c)
  \/ \E a \in ArchiveId : TrashCommit(c, a)

RestoreFile(c) ==
  \/ \E a \in ArchiveId, folder \in Folder : RestoreRead(c, a, folder)
  \/ RestoreVersions(c)
  \/ RestoreCommit(c)
  \/ RestoreFail(c)

PermanentlyDeleteFile(c) ==
  (\E a \in ArchiveId : PurgeRead(c, a)) \/ Purge(c) \/ ChunkFail(c)

EmptyTrash(c) == EmptyTrashRead(c) \/ Purge(c) \/ ChunkFail(c)

TrashExpiryJob(c) == ExpiryRead(c) \/ Purge(c) \/ ChunkFail(c)

Update(c) == UpdateCommit(c) \/ UpdateFail(c)

RenameFile(c) == (\E f \in FileId, name \in Name : RenameRead(c, f, name)) \/ Update(c)

MoveFile(c) == (\E f \in FileId, folder \in Folder : MoveRead(c, f, folder)) \/ Update(c)

DeleteFolder(c) ==
  \/ \E folder \in Folder : DeleteFolderRead(c, folder)
  \/ DeleteFolderCommit(c)
  \/ DeleteFolderFail(c)

Next ==
  \/ \E c \in Cmd :
       \/ TrashFile(c) \/ RestoreFile(c)
       \/ PermanentlyDeleteFile(c) \/ EmptyTrash(c) \/ TrashExpiryJob(c)
       \/ RenameFile(c) \/ MoveFile(c) \/ DeleteFolder(c)
       \/ Crash(c)
  \/ \E a \in ArchiveId : PassRetention(a)

Spec == Init /\ [][Next]_vars

\* A purge that started runs to its end.
FairSpec == Spec /\ \A c \in Cmd : WF_vars(Purge(c))

-----------------------------------------------------------------------------
(* What the queries answer to the owner *)

\* A presigned URL; whether the object exists is not asked.
GenerateGetURL(key) == [status |-> "signed", key |-> key]

\* The newest version of an active file, with the key its URL is signed for.
GetDownloadURL(f) ==
  LET version == FindLatestVersion(f) IN
  IF files[f].status = "active" /\ version # NoRow
    THEN GenerateGetURL(version.file) ELSE NoRow

\* Whether the version marked as the current one is in the list.
ListFileVersions(f) ==
  IF files[f] # NoRow THEN [status |-> "found", latest |-> FindVersions(f)] ELSE NoRow

-----------------------------------------------------------------------------
(* Properties *)

InTrash(f) == \E a \in ArchiveId : archived[a] # NoRow /\ archived[a].file = f

\* No interleaving makes a file disappear: it is a row, or in the trash, or
\* its archive was deleted for good, or a folder deletion took it along.
NoFileLost ==
  \A f \in FileId : files[f] # NoRow \/ InTrash(f) \/ f \in purged \/ f \in swept

\* Unless something fails, an object that no row refers to has a purge under
\* way that knows its key.
OrphanHasCleaner ==
  \A f \in FileId :
    f \in objects /\ files[f] = NoRow /\ ~InTrash(f) /\ f \notin swept
      => \E c \in Cmd : /\ cmd[c].pc \in {"purge", "expire", "delete"}
                        /\ f \in cmd[c].keys

\* A purged file loses its object in the end.  docs/03-domains/file.md, R-AF004
\* and I-ST002, promise it without the condition that nothing fails.
PurgedObjectGoes ==
  \A f \in FileId : (f \in purged) ~> (f \notin objects \/ f \notin purged)

\* docs/03-domains/file.md, I-VR002: current_version points to a version.  Every
\* file a user sees in a folder has a latest version, no URL is signed for an
\* object that is gone, and nothing in the trash has lost the object it would be
\* restored with: purges delete rows first, and no object of a failed chunk.
ContentFollowsFile ==
  \A f \in FileId :
    /\ files[f] # NoRow => /\ ListFileVersions(f).latest
                           /\ GetDownloadURL(f) # NoRow
                           /\ GetDownloadURL(f).key \in objects
    /\ InTrash(f) => f \in objects

-----------------------------------------------------------------------------
(* FileCommands with one command at a time implements Trash *)

\* Where a user finds a file; one that is in both tables, or in the trash twice
\* (entity/file.go: trashing moves a file to another table), has no place Trash knows.
Place ==
  [f \in FileId |->
     LET copies == {a \in ArchiveId : archived[a] # NoRow /\ archived[a].file = f} IN
     CASE files[f] # NoRow /\ copies = {} -> [in |-> "folder", slot |-> files[f].slot]
       [] files[f] = NoRow /\ Cardinality(copies) = 1 -> [in |-> "trash"]
       [] files[f] = NoRow /\ copies = {} -> [in |-> "nowhere"]
       [] OTHER -> [in |-> "twice"]]

TrashBin == INSTANCE Trash WITH place <- Place, content <- objects

\* One command at a time, whatever fails in it, a file leaves only by a purge of
\* the trash, is never in two places, takes nobody's name and is erased last.
IsTrash == TrashBin!Spec
=============================================================================
