----------------------------- MODULE FolderTree -----------------------------
(***************************************************************************)
(* The folders of one owner, kept three times: the column parent_id of     *)
(* table folders, the closure table folder_paths, and the parent rows of   *)
(* table relationships that permissions are inherited along.               *)
(*                                                                         *)
(* A command reads one statement at a time, decides on what it read, and   *)
(* ends with one transaction.  Transactions are atomic steps: what they    *)
(* write by primary key, the foreign keys (ON DELETE CASCADE) and the      *)
(* primary key of folder_paths decide whether they commit.                 *)
(***************************************************************************)
EXTENDS Naturals, FiniteSets, SequencesExt

CONSTANTS
  FolderId,        \* identifiers uuid.New() may return, each used once
  Home,            \* the personal folder of the owner
  Name,
  File,
  Cmd,             \* commands running at the same time
  MaxFolderDepth,
  MaxMoves,        \* bound: no move begins after so many have committed
  Root, Unborn, Gone, Trash, Lost   \* model values, see the type below

VARIABLES
  folders,     \* table folders: a row, Unborn, or Gone
  paths,       \* table folder_paths
  relations,   \* table relationships: folder --parent--> folder
  files,       \* the folder of a file, Unborn, Trash (archived) or Lost
  cmd,         \* the commands under way
  moves,       \* history: moves that committed
  overlap      \* history: two commands overlapped

tables == <<folders, paths, relations, files>>
history == <<moves, overlap>>
vars == <<tables, cmd, history>>

Parent == FolderId \cup {Root}
Folder == [parent: Parent, name: Name, depth: 0..MaxFolderDepth]
FolderPath == [anc: FolderId, desc: FolderId, len: Nat]
Live == {f \in FolderId : folders[f] \notin {Unborn, Gone}}

ASSUME FolderAssumption ==
  /\ Home \in FolderId /\ IsFiniteSet(FolderId)
  /\ MaxFolderDepth \in Nat /\ MaxMoves \in Nat
  /\ {Unborn, Gone} \cap Folder = {} /\ Unborn # Gone
  /\ {Root, Unborn, Trash, Lost} \cap FolderId = {} /\ Lost \notin {Unborn, Trash}

Idle == [at |-> "idle"]

\* What a command holds between its statements.
Pending ==
  [at: {"create_name"}, parent: Parent, name: Name, depth: 0..(MaxFolderDepth + 1)]
    \cup [at: {"create"}, parent: Parent, name: Name, depth: 0..MaxFolderDepth]
    \cup [at: {"rename_name", "rename"}, id: FolderId, was: Folder, name: Name]
    \cup [at: {"move_to"}, id: FolderId, was: Folder, to: Parent]
    \cup [at: {"move_below"}, id: FolderId, was: Folder, to: Parent, depth: 0..(MaxFolderDepth + 1)]
    \cup [at: {"move_name", "move"}, id: FolderId, was: Folder, to: Parent,
          depth: 0..MaxFolderDepth, below: SUBSET FolderId]
    \cup [at: {"delete_files"}, id: FolderId, set: SUBSET FolderId]
    \cup [at: {"delete"}, id: FolderId, set: SUBSET FolderId,
          files: UNION {[found -> FolderId] : found \in SUBSET File}]

TypeOK ==
  /\ cmd \in [Cmd -> Pending \cup {Idle}]
  /\ folders \in [FolderId -> Folder \cup {Unborn, Gone}]
  /\ paths \subseteq FolderPath
  /\ \A p \in paths : {p.anc, p.desc} \subseteq Live
  /\ \A p, q \in paths : p.anc = q.anc /\ p.desc = q.desc => p = q
  /\ relations \subseteq FolderId \X FolderId
  /\ files \in [File -> Live \cup {Unborn, Trash, Lost}]
  /\ moves \in Nat
  /\ overlap \in BOOLEAN

Self(f) == [anc |-> f, desc |-> f, len |-> 0]

\* The personal folder is there from the registration on.
Init ==
  /\ \E n \in Name : folders = [f \in FolderId |->
       IF f = Home THEN [parent |-> Root, name |-> n, depth |-> 0] ELSE Unborn]
  /\ paths = {Self(Home)}
  /\ relations = {}
  /\ files = [f \in File |-> Unborn]
  /\ cmd = [c \in Cmd |-> Idle]
  /\ moves = 0 /\ overlap = FALSE

-----------------------------------------------------------------------------
(* The repositories *)

\* The closure table.  The queries leave the folder itself out.
FindDescendantsWithDepth(f) == {p \in paths : p.anc = f /\ p.len > 0}
FindAncestorPaths(f)        == {p \in paths : p.desc = f /\ p.len > 0}
FindDescendantIDs(f)        == {p.desc : p \in FindDescendantsWithDepth(f)}

\* The nearest first.
FindAncestorIDs(f) ==
  LET sorted == CHOOSE s \in SetToSeqs(FindAncestorPaths(f)) :
                  \A i, j \in DOMAIN s : i < j => s[i].len <= s[j].len
  IN [i \in DOMAIN sorted |-> sorted[i].anc]

InsertAncestorPaths(new) == paths \cup new

\* What is left when a folder and all it is an ancestor of lose their paths.
DeleteSubtreePaths(f) ==
  {p \in paths : [anc |-> f, desc |-> p.desc] \notin {[anc |-> q.anc, desc |-> q.desc] : q \in paths}}

\* Table folders.
FindByParentID(f)     == {x \in Live : folders[x].parent = f}
FindRootByOwner       == {x \in Live : folders[x].parent = Root}
FindByFolderID(f)     == {x \in File : files[x] = f}
FindByFolderIDs(set)  == {x \in File : files[x] \in set}

Inserted(f, row) == [folders EXCEPT ![f] = row]

\* ExistsByNameAndParent and ExistsByNameAndOwnerRoot.
NameTaken(parent, name) ==
  \E f \in Live : folders[f].parent = parent /\ folders[f].name = name

Depth(f) == IF f = Root THEN 0 ELSE folders[f].depth + 1

Below(parentOf, f) ==
  LET Within[n \in 0..Cardinality(FolderId)] ==
        IF n = 0 THEN {f}
        ELSE LET near == Within[n - 1] IN near \cup {x \in DOMAIN parentOf : parentOf[x] \in near}
  IN Within[Cardinality(FolderId)]

Parents == [f \in Live |-> folders[f].parent]

\* A deleted folder takes along what ON DELETE CASCADE reaches by parent_id.
Cascade(set) == UNION {Below(Parents, f) : f \in set \cap Live}

\* FolderRepository.Update writes the entity, a NULL parent_id excepted.
MaySave(f, e) == f \in Live /\ e.parent \in Live \cup {Root}
Saved(f, e) ==
  [folders EXCEPT ![f] = [e EXCEPT !.parent = IF @ = Root THEN folders[f].parent ELSE @]]

-----------------------------------------------------------------------------
(* Commands: Idle, or the next step with what has been read. *)

Become(c, state) == cmd' = [cmd EXCEPT ![c] = state]

Begin(c, state) ==
  /\ cmd[c] = Idle
  /\ Become(c, state)
  /\ overlap' = (overlap \/ \E d \in Cmd \ {c} : cmd[d] # Idle)
  /\ UNCHANGED <<tables, moves>>

\* A command that finds an obstacle returns an error and writes nothing.
Return(c) ==
  /\ Become(c, Idle)
  /\ UNCHANGED <<tables, history>>

Proceed(c, state) ==
  /\ Become(c, state)
  /\ UNCHANGED <<tables, history>>

\* R-FD009: it is neither renamed, nor moved, nor deleted.
NotPersonal(f) == f # Home

\* A file arrives in a folder (Upload) while commands may be under way.
PutFile(f, folder) ==
  /\ files[f] = Unborn
  /\ files' = [files EXCEPT ![f] = folder]
  /\ overlap' = (overlap \/ \E c \in Cmd : cmd[c] # Idle)
  /\ UNCHANGED <<folders, paths, relations, cmd, moves>>

-----------------------------------------------------------------------------
(* CreateFolder *)

CreateRead(c, parent, name) ==
  /\ Begin(c, [at |-> "create_name", parent |-> parent, name |-> name, depth |-> Depth(parent)])

CreateName(c) ==
  /\ cmd[c].at = "create_name"
  /\ IF NameTaken(cmd[c].parent, cmd[c].name) \/ cmd[c].depth > MaxFolderDepth
     THEN Return(c)
     ELSE Proceed(c, [cmd[c] EXCEPT !.at = "create"])

\* Mutant: only the parent becomes an ancestor.
PathsOfParent(f, parent) ==
  {Self(f)} \cup {[anc |-> p, desc |-> f, len |-> 1] : p \in {parent} \ {Root}}

PathsOfNew(f, parent) ==
  {Self(f)} \cup
    (IF parent = Root THEN {}
     ELSE {[anc |-> parent, desc |-> f, len |-> 1]} \cup
          {[anc |-> p.anc, desc |-> f, len |-> p.len + 1] : p \in FindAncestorPaths(parent)})

Create(c) ==
  /\ cmd[c].at = "create"
  /\ IF cmd[c].parent \notin Live \cup {Root}
     THEN Return(c)
     ELSE \E f \in FolderId :
            /\ folders[f] = Unborn
            /\ folders' = Inserted(f, [parent |-> cmd[c].parent, name |-> cmd[c].name,
                                       depth |-> cmd[c].depth])
            /\ paths' = InsertAncestorPaths(PathsOfNew(f, cmd[c].parent))
            /\ relations' = relations \cup ({<<cmd[c].parent, f>>} \ {<<Root, f>>})
            /\ Become(c, Idle)
            /\ UNCHANGED <<files, history>>

-----------------------------------------------------------------------------
(* RenameFolder *)

\* Rename writes the whole entity, parent and depth as they were read.
RenameRead(c, f, name) ==
  /\ NotPersonal(f)
  /\ Begin(c, [at |-> "rename_name", id |-> f, was |-> folders[f], name |-> name])

\* Mutant: the name is not looked up.
NameFree(c) == TRUE

MayRename(c) ==
  \/ cmd[c].name = cmd[c].was.name
  \/ ~NameTaken(cmd[c].was.parent, cmd[c].name)

RenameName(c) ==
  /\ cmd[c].at = "rename_name"
  /\ IF MayRename(c) THEN Proceed(c, [cmd[c] EXCEPT !.at = "rename"]) ELSE Return(c)

Rename(c) ==
  /\ cmd[c].at = "rename"
  /\ IF ~MaySave(cmd[c].id, cmd[c].was)
     THEN Return(c)
     ELSE /\ folders' = Saved(cmd[c].id, [cmd[c].was EXCEPT !.name = cmd[c].name])
          /\ Become(c, Idle)
          /\ UNCHANGED <<paths, relations, files, history>>

-----------------------------------------------------------------------------
(* MoveFolder *)

\* A move to the parent the folder has already returns at once.
MoveRead(c, f, to) ==
  /\ moves < MaxMoves
  /\ NotPersonal(f)
  /\ to # folders[f].parent
  /\ Begin(c, [at |-> "move_to", id |-> f, was |-> folders[f], to |-> to])

MoveTo(c) ==
  /\ cmd[c].at = "move_to"
  /\ IF cmd[c].to \notin Live \cup {Root}
     THEN Return(c)
     ELSE Proceed(c, [at |-> "move_below", id |-> cmd[c].id, was |-> cmd[c].was,
                      to |-> cmd[c].to, depth |-> Depth(cmd[c].to)])

Height(f) ==
  IF FindDescendantsWithDepth(f) = {} THEN 0
  ELSE CHOOSE n \in {p.len : p \in FindDescendantsWithDepth(f)} : \A p \in FindDescendantsWithDepth(f) : p.len <= n

\* Mutant: no limit for moves.
CanMoveDeeper(f, to, depth, below) == to # f /\ to \notin below

\* Folder.CanMoveTo, asked with the height of the subtree added.
CanMoveTo(f, to, depth, below) == to # f /\ to \notin below /\ depth <= MaxFolderDepth

MoveBelow(c) ==
  /\ cmd[c].at = "move_below"
  /\ IF CanMoveTo(cmd[c].id, cmd[c].to, cmd[c].depth + Height(cmd[c].id), FindDescendantIDs(cmd[c].id))
     THEN Proceed(c, [at |-> "move_name", id |-> cmd[c].id, was |-> cmd[c].was, to |-> cmd[c].to,
                      depth |-> cmd[c].depth, below |-> FindDescendantIDs(cmd[c].id)])
     ELSE Return(c)

MoveName(c) ==
  /\ cmd[c].at = "move_name"
  /\ IF NameTaken(cmd[c].to, cmd[c].was.name)
     THEN Return(c)
     ELSE Proceed(c, [cmd[c] EXCEPT !.at = "move"])

\* The orders "ORDER BY path_length" may return the subtree in.
Rankings(f) ==
  {rank \in [FindDescendantIDs(f) -> 1..Cardinality(FindDescendantIDs(f))] :
     \A p, q \in FindDescendantsWithDepth(f) :
        /\ rank[p.desc] = rank[q.desc] => p = q
        /\ p.len < q.len => rank[p.desc] < rank[q.desc]}

\* MoveSubtree.  The ancestors of the new parent are passed without the new
\* parent, the subtree loses the paths within it, and a descendant is put as
\* deep below the ancestors as its place in the list.
Moved(f, ancestors, rank) ==
  LET subtree == {f} \cup FindDescendantIDs(f)
  IN {p \in paths : p.desc \notin subtree}
       \cup {Self(x) : x \in subtree}
       \cup {[anc |-> p.anc, desc |-> f, len |-> p.len + 1] : p \in ancestors}
       \cup {[anc |-> a.anc, desc |-> x, len |-> a.len + 1 + rank[x]] :
               a \in ancestors, x \in FindDescendantIDs(f)}

\* No path may be inserted twice: the primary key fails the transaction.
MayMove(f, to, ancestors) ==
  /\ MaySave(f, [parent |-> to])
  /\ \A p \in ancestors : p.anc \notin {f} \cup FindDescendantIDs(f)

\* BulkUpdateDepth finds in the new paths whom to update.
Deepened(rows, c) ==
  [x \in FolderId |->
     IF cmd[c].below # {} /\ \E p \in paths' : p.anc = cmd[c].id /\ p.desc = x /\ p.len > 0
     THEN [rows[x] EXCEPT !.depth = cmd[c].depth + 
             (CHOOSE p \in paths' : p.anc = cmd[c].id /\ p.desc = x).len]
     ELSE rows[x]]

Move(c) ==
  LET f == cmd[c].id
      ancestors == FindAncestorPaths(cmd[c].to)
  IN /\ cmd[c].at = "move"
     /\ IF ~MayMove(f, cmd[c].to, ancestors)
        THEN Return(c)
        ELSE /\ \E rank \in Rankings(f) : paths' = Moved(f, ancestors, rank)
             /\ folders' = Deepened(Saved(f, [cmd[c].was EXCEPT !.parent = cmd[c].to,
                                                               !.depth = cmd[c].depth]), c)
             /\ moves' = moves + 1
             /\ Become(c, Idle)
             /\ UNCHANGED <<relations, files, overlap>>

-----------------------------------------------------------------------------
(* DeleteFolder *)

\* Mutant: the folder alone, its descendants are left to the foreign key.
ItselfOnly(f) == {f}

FoldersToDelete(f) == {f} \cup FindDescendantIDs(f)

DeleteRead(c, f) ==
  /\ NotPersonal(f)
  /\ Begin(c, [at |-> "delete_files", id |-> f, set |-> FoldersToDelete(f)])

DeleteFiles(c) ==
  /\ cmd[c].at = "delete_files"
  /\ Proceed(c, [at |-> "delete", id |-> cmd[c].id, set |-> cmd[c].set,
                 files |-> [f \in FindByFolderIDs(cmd[c].set) |-> files[f]]])

\* buildFilePath reads every ancestor of the folder the file was found in.
MayArchive(found) ==
  \A f \in DOMAIN found : {found[f]} \cup ToSet(FindAncestorIDs(found[f])) \subseteq Live

Delete(c) ==
  LET gone == Cascade(cmd[c].set)
      found == cmd[c].files
  IN /\ cmd[c].at = "delete"
     /\ IF ~MayArchive(found)
        THEN Return(c)
        ELSE /\ folders' = [f \in FolderId |-> IF f \in gone THEN Gone ELSE folders[f]]
             /\ paths' = {p \in DeleteSubtreePaths(cmd[c].id) : {p.anc, p.desc} \cap gone = {}}
             /\ files' = [f \in File |->
                            CASE f \in DOMAIN found -> Trash
                              [] f \notin DOMAIN found /\ files[f] \in gone -> Lost
                              [] OTHER -> files[f]]
             /\ Become(c, Idle)
             /\ UNCHANGED <<relations, history>>

-----------------------------------------------------------------------------
(* The requests FolderHandler accepts: any folder, any name, at any time. *)

CreateFolder(c) == \E parent \in Live \cup {Root}, name \in Name : CreateRead(c, parent, name)
RenameFolder(c) == \E f \in Live, name \in Name : RenameRead(c, f, name)
MoveFolder(c)   == \E f \in Live, to \in Live \cup {Root} : MoveRead(c, f, to)
DeleteFolder(c) == \E f \in Live : DeleteRead(c, f)

Command(c) ==
  \/ CreateFolder(c)
  \/ CreateName(c)
  \/ Create(c)
  \/ RenameFolder(c)
  \/ RenameName(c)
  \/ Rename(c)
  \/ MoveFolder(c)
  \/ MoveTo(c)
  \/ MoveBelow(c)
  \/ MoveName(c)
  \/ Move(c)
  \/ DeleteFolder(c)
  \/ DeleteFiles(c)
  \/ Delete(c)

Next ==
  \/ \E c \in Cmd : Command(c)
  \/ \E f \in File, folder \in Live : PutFile(f, folder)

Spec == Init /\ [][Next]_vars

-----------------------------------------------------------------------------
(* What the queries show *)

GetFolder(f) == [id |-> f, name |-> folders[f].name, parent |-> folders[f].parent]

\* GetAncestorsQuery, from the closure table: the root of the path first.
GetAncestors(f) == Reverse(FindAncestorIDs(f))

\* FolderHandler.GetAncestors, the breadcrumbs.
Breadcrumbs(f) ==
  LET ancestors == GetAncestors(f) IN [i \in DOMAIN ancestors |-> GetFolder(ancestors[i])]

\* ListFolderContentsQuery, from parent_id.  No file is outside a folder.
Contents(f) ==
  [folders |-> IF f = Root THEN FindRootByOwner ELSE FindByParentID(f),
   files   |-> IF f = Root THEN {} ELSE FindByFolderID(f)]

\* FolderHandler.ListFolderContents; "root" has no folder of its own.
ListFolderContents(f) ==
  [self |-> {GetFolder(x) : x \in {f} \ {Root}},
   folders |-> {GetFolder(x) : x \in Contents(f).folders},
   files |-> Contents(f).files]

\* The page of a link to a folder, and the files the link lets out.
FetchResourceInfo(f)            == FindByFolderID(f)
VerifyFileInFolderSubtree(f, x) == files[x] \in FindDescendantIDs(f)

(* Properties *)

RealAncestors(f) == {a \in Live \ {f} : f \in Below(Parents, a)}

\* The three records of the tree agree while no move has committed, however
\* creations, renames, deletions and moves under way overlap: the breadcrumbs
\* lead from the root to the folder through the pages that list it, depth
\* limits count them, and permissions are inherited along them.  A link to a
\* folder lets out the files of the folders below it and no others; that it
\* refuses those of the folder itself, which its page lists, contradicts the
\* documents.  The personal folder stays where registration put it, moves or not.
RecordsAgree ==
  /\ Home \in Live /\ folders[Home].parent = Root /\ folders[Home].depth = 0
  /\ moves = 0 =>
     \A f \in Live :
       LET crumbs == Breadcrumbs(f)
           way(i) == IF i = 0 THEN Root ELSE crumbs[i].id
       IN /\ Len(crumbs) = folders[f].depth
          /\ \A i \in DOMAIN crumbs : crumbs[i] \in ListFolderContents(way(i - 1)).folders
          /\ GetFolder(f) \in ListFolderContents(way(Len(crumbs))).folders
          /\ \A p \in FindAncestorPaths(f) : p.len = folders[f].depth - folders[p.anc].depth
          /\ ToSet(FindAncestorIDs(f)) = RealAncestors(f)
          /\ Contents(f).folders = {x \in Live : <<f, x>> \in relations}
          /\ {x \in File : VerifyFileInFolderSubtree(f, x)}
               = UNION {FetchResourceInfo(d) : d \in Below(Parents, f) \ {f}}

\* Commands that do not overlap leave no two folders of one name side by
\* side, moves to a place where the name is taken and moves to the root
\* included.
NamesUnique ==
  ~overlap =>
    \A f, g \in Live :
      f # g /\ folders[f].parent = folders[g].parent => folders[f].name # folders[g].name

\* A deleted folder sends every file below it to the trash, when no command
\* runs beside it and no folder has been moved before.
FilesKept == moves = 0 /\ ~overlap => \A f \in File : files[f] # Lost

\* A folder is never moved into itself or one of its descendants
\* (Folder.CanMoveTo), so parent_id always leads to the root.
NoCycle == \A f \in Live : folders[f].parent = Root \/ folders[f].parent \notin Below(Parents, f)
=============================================================================
