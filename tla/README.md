# Verification of gc-storage

gc-storage is a file storage service: a Go API (`src/backend`) over PostgreSQL, Redis and MinIO, and a web
client (`src/frontend`). This directory holds TLA+ models of its core logic, the TLC configurations that
check them, and TLAPS proofs of the invariants that matter most. Paths below are relative to
`src/backend/internal/` unless they begin with `src/`.

    tlc -config upload.cfg MCUpload             # any run of PROJECT.json
    tlapm UploadProofs.tla                      # or any other ...Proofs module

## 1. The system

### 1.1 How the program runs

One Echo server handles every HTTP request in its own goroutine. A handler calls one *command* (`usecase/*/command`)
or *query*. Commands nearly all have one shape:

1. read rows, **each with a statement of its own**, outside any transaction;
2. decide on the entities now held in memory (permission, state machine, name clash);
3. open a transaction (`infrastructure/database/transaction.go`) and write the entities back **by primary key**;
4. call MinIO or Redis after the commit, mostly dropping errors.

Nothing is locked (`SELECT ... FOR UPDATE` and version columns do not occur) and PostgreSQL runs at READ COMMITTED. What
a write asks of the current rows is therefore only what SQL asks: `UPDATE ... RETURNING` fails when the row is gone,
inserts obey primary keys, foreign keys and UNIQUE constraints, and `DELETE` and `UPDATE` queries of kind `:exec` succeed
whether they hit a row or not. Everything hard about this code follows from that shape, so it is the shape of the models:

- each command is a **process**; its state holds the entities it read;
- each read outside a transaction is a step when another command can come between it and the next one;
- each transaction is **one** action. A transaction here writes a few rows by key; what it waits for are the row locks of
  other such transactions, and rows inserted below a parent it is deleting go with the parent (`ON DELETE CASCADE`), so two of them leave
  what one after the other leaves. `AbortCommit`, whose transaction reads the file again, is one step by the same
  locks: it updates the session before the file and a completion the file before the session, so the two run one after the other or deadlock,
  and then PostgreSQL rolls one of them back, which is a `Crash`;
- a command may fail or die between any two steps (`Crash`, `Fail`), which is also what a rolled back transaction is.

### 1.2 Inventory

| component | state | operations | interacts with |
|---|---|---|---|
| **Upload workflow** (`usecase/storage/command/{initiate,complete,abort}_upload.go`) | `files`, `file_versions`, `upload_sessions`, `upload_parts`; objects in the bucket | InitiateUpload, CompleteUpload (the handler of upload reports), AbortUpload | client PUTs to MinIO and reports |
| **File commands and trash** (`{trash,restore,rename,move}_file.go`, `permanently_delete_file.go`, `empty_trash.go`, `job/trash_expiry.go`) | `files`, `file_versions`, `archived_files`, `archived_file_versions`; objects in the bucket | trash, restore, three purges, rename, move | DeleteFolder archives and deletes their rows; upload creates them |
| **Folder tree** (`{create,rename,move,delete}_folder.go`, `folder_closure_repository.go`) | `folders`, closure table `folder_paths`, parent rows of `relationships` | create, rename, move, delete a folder; breadcrumbs, contents | files by foreign key; folder links and authorization walk it |
| **Groups and memberships** (`usecase/collaboration/command`, `job/invitation_expiry.go`) | `groups`, `memberships`, `invitations` | create, update, transfer, delete; invite, accept, decline, cancel; change role, remove, leave | authorization reads memberships |
| **Share links** (`usecase/sharing`, `job/share_link_expiry.go`) | `share_links`, `share_link_accesses` | create, update, revoke, access, download, expire | files, folders, MinIO presigning |
| **Authorization** (`domain/authz`, `infrastructure/authz`, `usecase/authz`) | `relationships`, `permission_grants` | resolve, grant, revoke | every command asks it |
| **Authentication and sessions** (`usecase/auth`, `infrastructure/cache/session_store.go`, `interface/middleware/session_auth.go`) | `users`, two tables of tokens, `oauth_accounts`; Redis sessions with a set per user | register, verify, login, OAuth login, logout, change/set/reset password, sliding refresh | every request passes it |
| **Profile and user settings** (`usecase/profile`) | `user_profiles`, `users` | update the profile, rename the user | writes the row the password commands write |
| **Rate limiter** (`infrastructure/cache/rate_limiter.go`, `interface/middleware/rate_limit.go`) | a sorted set per client in Redis | Allow | before the login and password routes |
| **Background worker** (`infrastructure/worker`, `internal/job`) | jobs, context, wait group | Start, Shutdown | `cmd/api/main.go` registers only a health check: **no job of `internal/job` ever runs** |
| PostgreSQL access, MinIO adapter | none of their own | repositories, transactions, object calls | modelled inside the commands that use them |
| HTTP layer | – | one handler per command | modelled as the actions that group the steps of a command |
| Audit log, e-mail, OAuth clients, wiring, web client | – | – | not modelled, section 7 |

### 1.3 What is hard, and what makes each component correct

- **Upload.** Reports of one session are handled concurrently, may come twice, late or not at all, race an
  abort and the deadline, and a handler may die between its part row and its session row. Correct: an upload completes as a
  whole; parts are counted without gaps; completed is final; an upload whose parts arrived ends.
- **File commands.** Two commands read one file and write it in either order; purges delete objects after their commit,
  in several transactions. Correct: no file disappears; the trash is a move between tables; a row leads to an object;
  an object without a row is being cleaned up; names are unique in a folder.
- **Folder tree.** One tree is recorded three times, and moves validate against what they read earlier. Correct: the records
  agree, names are unique, a deleted folder sends its files to the trash, the tree has no cycle.
- **Groups.** Transfers race other transfers, role changes, leaves and a stale write of the group row. Correct: one
  owner, and only one somebody named; a deleted group leaves no member and no invitation; answers to invitations are final.
- **Share links.** The count is read, checked and written back with the whole row, in three places. Correct: the books agree,
  the maximum holds, closed stays closed, a setting changes only when asked for.
- **Sessions.** The refresh writes back what it read; counting, evicting and saving are separate calls; a password change drops
  and restores sessions. Correct: nobody gets in past the longest lifetime, logout is final, the limit holds, an old password opens nothing.
- **Accounts.** Every command writes the whole user row as it read it. Correct: nobody is locked out, active means verified,
  the password is the last one set, a token works once.
- **Authorization.** Roles and permissions come from two recursive walks, and who may change roles is decided by levels.
  Correct: the walks agree, inheritance only adds, nobody raises himself or changes somebody of his rank.
- **Rate limiter.** Scripts run in another order than their time stamps, and again when an answer is lost. Correct: no window lets
  more through than it should, nobody is refused without reason, and the time promised is right.

## 2. Modules

| module | role |
|---|---|
| `FileTable` | rows of `files` and the questions asked of the table, shared by `Upload` and `FileCommands` |
| `Upload` | the upload workflow with MinIO, the clients and the clock |
| `AtomicUpload` | what the workflow promises: an abstract upload, which `Upload` implements |
| `FileCommands` | the commands on stored files, the trash, the deletion of objects |
| `Trash` | what those commands promise one at a time: folder, trash, nowhere; `FileCommands` implements it then |
| `FolderTree` | the folders of one owner and their three records |
| `GroupMembership` | one group with its members and invitations |
| `UploadHistory` | `Upload`, remembering which reports were handled: what holds as long as none is handled twice |
| `GroupHistory` | `GroupMembership`, remembering whether commands overlapped: what holds as long as none did |
| `ShareLinks` | links to a resource with their limits, history and expiry |
| `Sessions` | the sessions of one user in Redis |
| `Accounts` | one account: user, profile, OAuth link, tokens |
| `Permissions` | owners, parents, grants, the resolver, grant and revoke |
| `RateLimiter` | one sliding window and the requests that ask it |
| `MC…` | the instances TLC checks, one module for each of the above with state |
| `UploadProofs`, `FileCommandsProofs`, `FolderProofs`, `GroupProofs`, `ShareLinksProofs`, `SessionsProofs`, `AccountsProofs` | theorems about the module of that name and their proofs; the first also has the refinement of `AtomicUpload` and `UploadHistory`, the second that of `Trash`, `GroupProofs` also `GroupHistory` |
| `GuardProofs` | the theorems about who gets through: those of `Permissions` and those of `RateLimiter`, in one module since it extends both |

A definition that stands for code has an entry in the `map` of `PROJECT.json` with its lines. A definition whose comment
begins with `Mutant:` is a plausible bug of the definition after it; each checked property names one that breaks it.

Conventions shared by the modules: a request or command is a process in `req` or `cmd` (`calls` in the rate limiter), `Idle` or a record of where it is and what it
has read; `Begin` and `Become` move it on; an operator named like a repository method (`FindByID`, `ExistsBy…`, `Update`) is
that method. History variables (`overlap`, `past`, `moves`, `served`, …) remember what properties speak about and decide nothing.
Many properties say "as long as requests do not overlap" (or "as long as nothing fails"): this is where the code keeps its word. What
breaks when they do overlap is listed in 3.2.

### 2.1 Upload

`files`, `versions`, `sessions`, `parts` are the tables. A row is a record or `NoRow`; identifiers are never reused
(`Fresh`). `sessions` is indexed by the file, as the code creates exactly one session per file and keeps no other way to it.
`puts` are the objects in the bucket, `notices` the PUTs still to be reported.
`overdue` is the clock: a session is before or after its `expires_at`; `PassDeadline` may come at any moment.

| code | actions |
|---|---|
| `InitiateUploadCommand.Execute` | `InitiateUpload` (checks), `InitiateCommit` |
| client PUT | `PutPart` |
| `CompleteUploadCommand.Execute` | `WebhookReceive`, `RecordPart` (insert outside the transaction), `SaveProgress`, `CompleteCommit`, `WebhookFail` |
| `AbortUploadCommand.Execute` | `AbortUpload`, `AbortCommit`, `AbortFail` |

The multipart service (`infrastructure/storage/multipart.go`) does not use MinIO's multipart uploads: creating, completing and aborting one
are stubs that answer success, and each part is PUT as an object of its own, `key.part<n>`. Its key is refused by
`NewStorageKeyFromString`, so every report names the file's key; it is the client, or whoever is configured to forward MinIO's events, that reports.

Details the model keeps because they decide something: the part number is the session's counter plus one and *not* the part
that arrived; `upload_parts` has `UNIQUE (session_id, part_number)`; `UPDATE files` does not carry the status; the entity's status
is checked on the copy read before the transaction. Checks on names, sizes and folder permission have no effect on
other requests and are left out. The client is the nondeterminism of `PutPart`; it owes nothing.
`AtLeastOnce` says whether a report may come again after it was taken.

`AtomicUpload` is an upload as the user sees it: open, ticked off part by part, stored in one step with nothing missing, then unchanging.
It does not promise that an abort is final, because a handler that read the session earlier completes it (3.2).

### 2.2 FileCommands

`files`, `versions`, `archived` (with the archived versions as a flag), `folders` are tables, `objects` is the bucket,
`expired` the archives past their 30 days; `purged` and `swept` are history: files whose archive row a purge deleted, and
files a deleted folder took along by the foreign key. It starts with files whose upload by a single PUT completed.

| code | actions |
|---|---|
| `TrashFileCommand` | `TrashRead`, `TrashVersions`, `TrashCommit` |
| `RestoreFileCommand` | `RestoreRead`, `RestoreVersions`, `RestoreCommit`, `RestoreFail` |
| `PermanentlyDeleteFile`, `EmptyTrash`, `TrashExpiryJob` | `PurgeRead`, `EmptyTrashRead`, `ExpiryRead`, then `PurgeChunk` per transaction, `ChunkFail`, and one `DeleteObject` per key |
| `RenameFile`, `MoveFile` | `RenameRead`, `MoveRead`, `UpdateCommit`, `UpdateFail` |
| `DeleteFolder` | `DeleteFolderRead`, `DeleteFolderCommit`, `DeleteFolderFail`: what it does to files, with folders flat |

A command on one archive and a request to empty the trash differ in what they list and in what they do after a failed
chunk: a request gives up, and with it the keys of the chunks that committed; the job goes on. A file has one version here, as no code
creates a second one. The bucket is unversioned here: the code passes no version id to `RemoveObject`, and
presigned GETs name the key only, so with bucket versioning on, an object "gone" here is one behind a delete marker.

`JobStarted` puts `TrashExpiryJob` in or out. The job is complete code that `cmd/api/main.go:126` never starts; runs with
`JobStarted = TRUE` check the commands *with* it, that is, that starting it would be safe.

### 2.3 FolderTree

`folders` (parent, name, depth), `paths` (the closure table), `relations` (the parent rows permissions follow) and `files`. Each command reads
statement by statement and ends with one transaction; foreign keys cascade (`Cascade`). `Moved` is
`MoveSubtree` as written: it gets the ancestors of the new parent *without* the new parent, and places descendants by their rank in a list that
SQL orders by path length only, hence the choice among `Rankings`.

### 2.4 GroupMembership

Groups share no rows, so one group is the component. `group`, `members`, `invites` are the tables, `lapsed` the clock of the
invitations, `deleted` and `named` history (users the group was created by or transferred to). An e-mail address is the user it belongs to.
Each command has a read per statement after which it decides, and a commit. `Fail` covers refusals, failed
statements and death: all commands write only in their last step.
Two reads are merged with their neighbour: that the group exists, where the actor's membership is read next (a membership exists
only with its group, by the foreign key), and the two memberships `TransferOwnership` reads (both are only used as keys).

### 2.5 ShareLinks

`link` holds the rows, `accesses` the number of log rows of each, `served` (history) what was really let out, `asked` the settings last
requested. A request reads the row, decides, and writes **all** of it back (`Saved`), with COALESCE on the settings. `CanAccess` is status, expiry and
limit; the password is compared in between. The conversions of the counters to 32 bits are left out: no limit of these is near.

### 2.6 Sessions

One user. `data` are the keys with their expiry, `list` the set of identifiers, `expelled` what a background SREM will take off it. Every
Redis command is a step, every pipeline one step. Ending a session on sight, logging out, changing and resetting the password and the middleware's sliding refresh
all interleave. `Save` gives an entity that expired a whole new TTL. The 30-day expiry of the list key itself is left out: it is renewed with
every save and outlives every session on it.

### 2.7 Accounts

One account: `user`, `profile`, `link` (the OAuth account), `token`. `Saved` writes the row as it was read, except that a
missing time of verification keeps the stored one. Registration and OAuth sign-up end at unique indexes. Mailing a token deletes the old ones and creates a
new one in two statements, and ignores an error of the first.

### 2.8 Permissions

`owner` and `parent` are the rows of `relationships`, which CreateFolder writes and nothing changes: `MoveFolder` and `DeleteFolder` leave them. `grants` has the
UNIQUE constraint of its table. The resolver is two recursive functions over the parents (`CollectPermissions`, `GetEffectiveRole`), as in the code.
Its answer is one step: the rows it walks along do not change, grants and memberships may be read between two changes of them, which is also what one of the two orders gives
for a single change. `GrantCheck` and `RevokeCheck` decide, `GrantCommit` and `RevokeCommit` write.

### 2.9 RateLimiter

The sorted set with its expiry and four kinds of steps of a request: take a stamp (`Stamp`), run the script (`Admit`, `Deny`), lose its answer and run it again
(`Lose`), give up on Redis and let the request through (`Unchecked`). The client library makes `MaxRetries + 1` runs; when the last answer is lost too, the request
goes through with whatever its runs recorded. A member is `stamp:math.random()`, so two requests of one millisecond may
draw the same member and count once (`Draw`). `MaxDelay` bounds how late a script may run after its stamp: the client library gives
up after its retries of 3 seconds each, far less than a window of a minute. One clock is assumed for the servers and Redis.

## 3. Runs

The bounds are the sets below; nothing counts without a bound of its own.

| run | instance | checks | states |
|---|---|---|---|
| `upload` | 2 handlers, 1 file, plans of 1, 2 and 3 parts, repeated reports, crashes, fairness | `ActivationIsAtomic`, `PartsFollowCounter`, `ActiveHasAll`, `IsAtomicUpload`, `UploadEnds` | 10 979 |
| `files_races` | 2 commands, 1 file, 2 archives, 2 folders, the job, no failures, fairness | `NoFileLost`, `OrphanHasCleaner`, `PurgedObjectGoes` | 270 322 |
| `files_serial` | 1 command at a time, 2 files, 2 names, failures, crashes, the job | `ContentFollowsFile`, `IsTrash` | 1 756 |
| `groups` | 2 commands and the job, 2 users, 3 memberships, 2 invitations | `NothingLeft`, `NoEscalation`, `OwnerAgreesAlone`, `OneWayInAlone`, `AnswerIsFinalAlone` | 1 087 247 |
| `folder_tree` | 2 commands, the personal folder and 2 more, 2 names, 1 file, 2 moves | `TypeOK`, `RecordsAgree`, `NamesUnique`, `FilesKept` | 182 325 |
| `folder_cycle` | 1 command at a time, 2 moves | `NoCycle` **violated** | – |
| `sessions` | 2 requests, 2 sessions, limit 1, TTL and lifetime 2, 3 ticks, 2 passwords, failures | `TypeOK`, `WithinLifetime`, `LiveSessionsKnown`, `SessionsFollowPassword` | 2 303 688 |
| `accounts` | 2 requests, 2 tokens, 2 passwords, failures | `TypeOK`, `NotLockedOut`, `StatusFollowsProof`, `PasswordKept`, `SettingsKept` | 586 653 |
| `shares` | 2 requests, 1 link, limits of 1 and 2, 1 tick, failures | `TypeOK`, `BooksAgree`, `SettingsKept`, `ClosedForGood`, `LimitHolds` | 1 351 434 |
| `permissions` | 2 requests, 2 users, 1 group, a folder in the personal one, 2 grants | `TypeOK`, `ResolversAgree`, `ContentManagerFromOwner`, `RankRespected` | 533 138 |
| `grant_own_role` | the same | `OwnRoleGrantable` **violated** | – |
| `rate_limit` | 4 requests, limit 2, window 3, delay 1, 1 retry, 5 ticks | `LimiterTypeOK`, `WindowLimit`, `RefusedForReason` | 1 907 101 |

The type invariants of `Upload`, `FileCommands` and `GroupMembership`, and `CompletedIsFinal`, are proved for all constants (section 5); no run repeats
them. Each inductive invariant of section 5 was also evaluated by TLC in every state of the instance above before it was proved.

Why these bounds are enough to be interesting:

- *Two processes* meet every race of two commands, on one row or on two. A third would add three-way races. Of those the theorems of section 5 speak, with any number of
  processes (`WriterAhead` of Upload is about two writers and an observer).
- *One file under two commands* has every race on its rows; *two files under one* let names clash, and with `ChunkSize = 1` two archives make a
  purge take two transactions (the code uses 100).
- *Three member identifiers* let a user leave and come back while the old row is still in somebody's memory.
- *Plans of one, two and three parts*: one is the single PUT; two the shortest with a middle state, three the shortest in which a
  counter can be two behind.
- *Three folders* make a chain, the smallest tree with a path inside a subtree; a depth limit of 2 can be reached by creation and by a move.
- *A lifetime of one TTL* is outlived by a session extended once; *a limit of one session* makes every second login evict.
- *Two tokens* are the old and the new one; *two passwords* the stale and the current one.
- *A folder in a folder, a group, a user who is not the owner*: the smallest case in which direct, group and inherited roles combine.
- `folder_tree` follows a behaviour until a move has committed *and* commands have overlapped (`MovedAlone`): all that is claimed for the time after that is `TypeOK` and
  the place of the personal folder, which are proved.
- *Four requests at a limit of two over nearly two windows*, late by a third of one, put admissions on both sides of every edge.

Deadlock is not checked (`CHECK_DEADLOCK FALSE`): identifiers run out in a finite instance, and a system without requests may
rest. Symmetry is used in runs of invariants and of action properties, which are checked state by state and step by step; the runs of liveness properties use none.
`shares` looks at states through a `VIEW` that forgets what no step reads and, once requests have overlapped, no property does.

### 3.1 What the runs show

*Upload.* With crashes and repeated reports, activation is atomic, part rows follow the
counter and `completed` is final. This rests on a single constraint: the unique part
number makes the loser of a race fail before it can write its stale counter; the mutant without it breaks
`ActivationIsAtomic`. An active file has all its parts unless a report came twice (`ActiveHasAll`). The workflow implements `AtomicUpload`. Every upload
whose parts arrived ends, except for one way to get stuck: a handler that dies between `INSERT upload_parts`
and `UPDATE upload_sessions` leaves a part number every later report collides with (`Wedged`).

*File commands.* Whatever interleaves, no file disappears, and while nothing fails, an object without a row is known to a purge
under way, so it is deleted in the end (`files_races`). One command at a time, with failures, the commands implement `Trash`: a file is in one place
and takes nobody's name; files keep their version and rows their object (`files_serial`). Each of these breaks when two commands interleave.

*Folder tree.* Until a move commits, the closure table, the parent column, the depths and the permission rows agree, however commands overlap
(including a move whose checks have begun), and a folder link lets out exactly the files of the folders below; the first committed move can break all of it. Names stay unique without overlap, moves included, and deletion keeps the files.

*Groups.* A deleted group leaves no member and no invitation (grants to it do stay, 3.2), and no interleaving makes a member an owner nobody named.
Without overlap, the owner column and the owner role agree, there is one pending invitation per address, members have
none, and answers are final; with overlap each of these breaks.

*Sessions.* No request gets in later than the longest lifetime, whatever overlaps and fails: the check of `created` holds the sliding expiry. Without
overlap the limit and logouts hold and the list names every usable session; without failures as well, a finished password change leaves no session of the old password.

*Accounts.* Whatever overlaps and fails, an account has a way in and an active one is verified. Without overlap the rest holds.

*Share links.* The count never runs ahead of what was served. Without overlap, count, history and what was served agree, the limit holds, closed links stay closed.

*Permissions.* Both walks agree with each other, although grants are compared by level and commands by permission, and those who may grant by level
are exactly those with `permission:grant`. Only owners make content managers, even with overlap. Without overlap, no way around (a group the granter is in, a folder
further down, a revocation) changes the role of somebody of the same rank.

*Rate limiter.* A window shortened by the delay never admits more than the limit; with the whole window it may, since a script that runs late finds that a later one
dropped entries it should still count.

### 3.2 Where the code does not do what its documents say

Runs with `expect: violation` and a finding in `PROJECT.json`:

- `folder_cycle` – `MoveSubtree` never records the new parent as an ancestor, so the next move into a descendant passes its check: two moves, one after the other, make a cycle.
- `grant_own_role` – `CanGrant` (`domain/authz/role.go:71`) is strict: nobody can grant the role he has himself. `docs/03-domains/permission.md:59` lets a Content Manager
  grant Content Manager and line 60 a Contributor Contributor; line 65, R-PG005 (line 90) and line 254 say "own role or lower", as does line 38 of `docs/04-specs/features/permission-management.md`.
  `ContentManagerFromOwner` states what the code keeps instead; it would be false of the documents' rule.

The following were met while modelling. They have no run of their own; the shortest way the code breaks them is given.

*Upload*
- An abort is undone: a completion that read the session before the abort committed completes it; both requests answer success and the file is active.
- A report that comes twice counts as two parts; a two-part file becomes active with one part (`R-MN003` of the requirements asks for idempotence).
- `abort_upload.go:87` sets upload_failed on the entity; `UPDATE files` has no status column, so the row stays `uploading` and **keeps its name taken**.
- Nothing calls CompleteMultipartUpload, which is a stub besides: after an upload of several parts the file is active and no object has its key. An abort leaves the objects of the parts (AbortMultipartUpload is a stub; `I-UP002` in `docs/` says they are removed).
- The web client (`src/frontend/src/features/files/hooks/use-file-upload.ts:76`) PUTs a file of several parts whole to the URL of its first part, reports once and shows success without looking at `completed`. It reports completion itself, against `I-UP003`, and does not repeat a report that failed.
- Two initiations of one name both pass the check; no unique index backs it. No code looks for overdue sessions outside a request on them.

*Files and trash*
- Restore reads the archive, a purge deletes it, restore commits (its DELETE asks for no row), the purge deletes the object: an active file without content.
- Two requests trash one file: two archives. Restoring one leaves the other; the second read no versions, and its archive restores a file without one.
- A rename writes the folder it read before a move; a move and a rename can claim one name.
- A crash between commit and RemoveObject, an error of RemoveObject, or a failed later chunk of EmptyTrash leaves an object nothing refers to.
- A file moved in after DeleteFolder listed its files is deleted by the cascade, without archive, its object left behind.
- `list_trash.go:77` continues a page with `id < cursor` on rows ordered by time with random identifiers: entries are skipped or shown twice.
- The original path of an archived file is built from ancestors that come nearest first (`trash_file.go:130`, `delete_folder.go:202`): below two folders it reads backwards.
- No job of `internal/job` runs: nothing expires by itself.

*Folders and permissions*
- Besides the cycle, after a move depths, breadcrumbs and what a deletion finds differ from the tree, and after two moves a folder link still lets out files that were moved elsewhere.
- A folder created or moved in after DeleteFolder read the descendants goes with the cascade, without its files being archived.
- `MoveFolder` never updates the parent rows permissions are inherited along. Uploads write neither owner nor parent rows, so nobody can grant anything on a file.
- Grants of deleted folders, and of granters whose role was revoked, remain. With overlap, a grant is written by somebody who lost the role after the check.
- Contributors grant Viewer. The table of `docs/03-domains/permission.md:60` allows it; a skipped test (`src/backend/tests/integration/permission_test.go:532`, R-RL005) asks for Content Managers and says that it is not implemented.

*Groups*
- `delete_group.go:59` deletes invitations, memberships and the group; grants to the group stay, although `docs/03-domains/group.md:230` and I-GD003 (line 433) say that they go.
- A member reads its own membership to leave, is made owner, and leaves: the group's owner is no member.
- Two transfers of one owner both commit and leave two owner roles; a ChangeRole read before a transfer demotes the new owner; UpdateGroup writes the owner it read.
- Accept and cancel of one invitation, and two invitations of one address, are checked and written by separate statements. A lapsed invitation stays pending and blocks a new one, since its job does not run.

*Sessions and accounts*
- A refresh saves the session as it was read and revives one that a logout or a password change deleted in between. Two logins count before either saves and exceed the limit.
- A session that was added after `DeleteByUserID` read the list drops off it and survives later password changes. A crash between the commit of a reset and the deletion leaves the sessions.
- The cookie lasts 7 days from the login and is never renewed although the session slides.
- A rename that overlaps a password reset brings the old password back, one that overlaps a verification the pending status; profile updates that overlap undo each other; two requests can use one reset token; a bio cannot be emptied (COALESCE).

*Share links*
- The page of a link to a folder lists the files that lie directly in it; the download accepts only files of folders further down (`get_download_via_share.go:179`), since `FindDescendantIDs` leaves the folder itself out. The comment above it says "自身を含む", and `docs/04-specs/features/sharing.md:268` (AC-07) promises the files of the folder.
- Accesses that overlap lose counts and exceed the limit; an access that read before a revocation opens the link again and undoes an update of its settings; an update brings back the count it read; the expiry job, which runs nowhere, would mark revoked links it listed before as expired. A password cannot be removed. Deleting a resource leaves its links valid (`docs/03-domains/sharing.md:589` says otherwise).

*Rate limiter*
- `docs` (API.md) announce a token bucket of 10 requests a minute and a header X-RateLimit-Limit; the code is a sliding window of 5 and sends no such header. Login, OAuth, and the four password routes share one counter per address.

## 4. Fairness

Runs of safety properties use `Spec` without fairness. Two runs state it:

- **upload** (`Upload!Fairness`). WF on the steps of a handler that accepted a request: a goroutine runs on until it returns. SF on `RecordPart`
  and `CompleteCommit` of a file: a report is tried again, each try may crash (`MayCrash`), and it is assumed that the
  statement does not fail for ever. SF on the delivery of a notice: it is assumed that a report is repeated until it is answered with success, as MinIO does with its
  events (the web client of this repository does not), and a handler is free again and again, not always. Nothing is assumed of clients' PUTs, aborts or the clock, so the conclusion allows for
  each of them.
- **files_races** (`FileCommands!FairSpec`). WF on `Purge(c)`: a purge that started runs on. Nothing on starting one, nothing on the job.

## 5. Proofs

Eight modules hold theorems; TLAPS checks each from nothing. Every safety property of a run that passes is a theorem. Constants are arbitrary sets, up to the named assumptions, which TLC evaluates in every run of the module:

- identifiers that mean "no row" (`NoRow`, `Null`, `NoKey`, `Unborn`, …) are no rows, as NULL is none (`AccountsAssumption`, `ShareLinksAssumption`,
  `SessionsAssumption`, `FolderAssumption`, `PermissionsAssumption`);
- limits and times are natural numbers, positive where the configuration makes them so (`PlanAssumption`, `CommandAssumption`, `LimiterAssumption`);
- `FolderId` of the folder tree and the `Call` of the rate limiter are finite: a table and the requests so far are. Nothing bounds how many there are;
- the home folder is a folder and its owner a user (`PermissionsAssumption`);
- switches are Boolean, so a theorem holds with the jobs and without, with crashes and without, unless it says otherwise.

All theorems are about `Spec` (`LimiterSpec`), which has no fairness, or `HistorySpec`, which adds a history to it (`HistoryOnlyWatches`, `HistoryWatches`: its steps are steps
of `Spec`).

Hardly a property is inductive. What makes them true is what the processes hold in memory, so every invariant has two parts: what the tables satisfy, and
what a copy in a request's memory still has to do with them. Where a property is about requests that do not overlap, the
second part is strong (`Current`, `CopiesCurrent`, `StillTrue`: what the one request has read is still so) and guarded by the history; where it holds
despite overlaps, that part is what no other request can take away.

**UploadProofs**: `TypeCorrect`, `Invariance`, `UploadIsAtomic`, `PartsInOrder`, `CompletionIsFinal`, `UploadImplements`, `HistoryInvariance`, `ActiveIsWhole`.
A handler about to commit a stale copy would break the properties; `IInv` says why there is none. *Copies* are sessions in memory; a
*writer* has inserted its part row and not yet saved the session. `CountersBacked`: every counter, in the table or in memory, is backed by part
rows 1..n. `WriterAhead`: a writer's count is the number of rows, strictly above the row's and every other copy's.
So a second handler that wants to insert is at or below the writer, collides with the unique part number, and fails. Hence
writers are unique, a `completed` session is never overwritten, and activation stays in step with the version row.

`UploadImplements`: `Upload` implements `AtomicUpload` under `AtomicState` and `AtomicMissing`. Every action is a step of the abstract upload
or a stutter, action by action, from `IInv`: `RecordPart` ticks off the least missing part because the counter it held equals the number of rows; `CompleteCommit`
stores with nothing missing because a writer has counted them all.

`ActiveIsWhole` connects the counter, which never looks at *which* part arrived, with the bucket. `Counted(f)` are the reports of a file that a handler took and no
handler holds uncounted; `CountersHeard` bounds every counter, in a row or a copy, by their number, and `NoticesHeld` says that a handler holds its report alone and
that what was reported was PUT. Distinct reports name distinct parts, so at the end an injection of
`total` reports into the parts of the plan leaves none out. Both parts are guarded by `~repeated`.

**FileCommandsProofs**: `CommandsTypeCorrect`; `FileNotLost`, by `CInv`: types and `RestoresOwnFile` – a restore that holds
an archive still in the table holds it for its own file, so deleting it loses no other one; `DeleteFolder`, whose commit archives a whole set, is
handled by the lemma `FolderArchives`. `OrphansAreKnown` (assuming `~MayFail`, without which it is false), by `OInv`: `PurgesOwnFile` – what
a purge holds of an archive still names the archive's file, which is why recording its key covers the row it deletes. Both need that identifiers
are fresh: an archive identifier in somebody's memory is not given out again (`PurgeKept`).

`ContentIsThere` and `CommandsImplementTrash` assume `Serial`, one command at a time, without which they are false (3.2), and allow failures and crashes. `SInv`:
a file has a row or one place in the trash, both with version and object, and names differ (`OnePlace`); what the command has read still is so
(`StillTrue`): above all, the keys a purge has collected belong to files that are nowhere. From it every step maps to a step of `Trash` or a stutter.

**FolderProofs**: `FolderTypeCorrect`, `RecordsStayInAgreement`, `NamesStayUnique`, `DeletedFilesAreKept`, for trees of any size. `FolderInv` says, until the first move
commits, that the closure rows of each folder are those its creation computes from its parent's (`InPlace`), that the depth follows the parent's and that the
permission row is the parent's; `Placed` says the same of what commands hold; without overlap, `Serial`. `RecordsAgree` compares the table
with the tree of parents itself, which is recursive. TLAPS cannot instantiate an induction scheme with an operator, so `LeastNumber` states induction once
for *sets* of numbers, and what is needed of the tree follows by looking at the least depth at which it would fail. The proof found that
the guards of two cases in the model of `Delete` overlapped; they are disjoint now.

**GroupProofs**: `GroupTypeCorrect`, `DeletionIsComplete`, `OwnersWereNamed`, by `GInv`: types, both properties and `CopiesAgree` – a command that will
write the owner column holds a named owner, one that will change a role never says owner, and a transfer promotes the membership of the user it
names, which again needs that a membership identifier in memory is not given out again. A deleted group stays deleted because every insert needs
its row by foreign key and every update needs the row it writes. `OwnerColumnAgrees`, `InvitationsAreUnique` and `AnswersAreFinal` are about `GroupHistory`: `Alone` adds that
the one command finds what it read as it was, whatever commands before it failed half-way.

**ShareLinksProofs**: `ShareLinksTypeCorrect`, `BooksAlwaysAgree`, `SettingsStay`, `ClosedStaysClosed`, `LimitIsKept`. `CountsBehind`: no count, in the table or in a copy
however old, is ahead of what was served, since a copy was once the row and what was served only grows. `EntriesKnown`: log entries and the requests still to write
one (`Pending`) account for each access. Without overlap, `RowsCurrent` and `CopiesCurrent`.

**SessionsProofs**: `SessionsTypeCorrect`, `LifetimeIsKept`, `ListKnowsSessions`, `PasswordRulesSessions`. Three invariants, each on the one before. `Lineage`
(whatever overlaps): nothing is saved but what a login opened, with the time of that login, so the check of the lifetime is about the login however often the key is renewed.
`Orderly` (no overlap): what a request carries to save is neither logged out nor to be swept off the list, and there is room for it below the limit. `UpToDate` (no failure either): what
is there, and what is carried, speaks for the password, except between the change of the password and the end of the old sessions.

**AccountsProofs**: `AccountsTypeCorrect`, `NobodyLockedOut`, `StatusIsProved`, `PasswordIsKept`, `SettingsAreKept`. `RowsSound`: every row a request holds is one that may be
written back at any later time, because it has a password, or a link exists, which is never removed; this is why `NotLockedOut` survives overlaps
although every write is stale. The rest is `Undisturbed` and `CopiesCurrent`, without overlap, and `TokensReplaced`, without failures too.

**GuardProofs**, about `Permissions`: `PermissionsTypeCorrect`, `WalksOfResolverAgree`, `ContentManagersAreGivenByOwners`, `RankIsRespected`, for any users, groups, folders and
number of requests. Nothing in the tables says that the parent rows have no cycle, and the walks would not end in one. So `PermissionsInv` has a rank, of each folder above
its parent's (`WellRanked`): a new folder has an identifier no row mentions (`Linked`), so it can be ranked above its parent, and the ranks below stay.
By induction on the rank there is exactly one function that the text of each walk describes (`WalkExists`, from `LeastNumber`); `EffectiveIs` and `CollectIs` are what
one step of the walks says, and `WalksAgree` compares them folder by folder. `ContentManagerFromOwner` survives overlaps because nobody loses the ownership that a request was checked against:
owner rows are only added, and a folder keeps its parents (`OwnersAsk`). `RankIsRespected` needs a check that is still true when it is acted on (`Alone`,
without overlap), and that one more or one less grant of a role on one folder changes nobody who has a higher one there (`RoleChange`).

**GuardProofs**, about `RateLimiter`: `RateTypeCorrect`, `LimitIsKept`, `RefusalsAreJustified`. `AdmittedStored`: who was admitted is in the set until its
entry is older than what a script that is on time can miss, so a shortened window injects into the set. `Traced`: each entry comes from a run of the script of its own
(`MayRecord`), also when its answer was lost; the trace is a function the invariant claims to exist and each step extends.

*Only model-checked*: the liveness properties `UploadEnds` and `PurgedObjectGoes`, as TLAPS does not handle fairness. The
runs `folder_cycle` and `grant_own_role` show violations, of which there is nothing to prove.

## 6. Plan

Done: every module of section 2 and the theorems of section 5. What is left: the worker's shutdown, once a job is registered, and the log anonymization of share links.

## 7. Not modelled, and why

- Audit log, e-mail, OAuth clients: output to external services; what an OAuth provider reports is chosen freely.
- Binding, validation, CSRF, CORS, headers, presentation, wiring, configuration: no behaviour of their own. The JWT service and its blacklist are built and used by no route.
- The worker: it only runs a health check.
- The web client: its requests are the nondeterminism of the models.
- MinIO: external. Modelled as the code uses it: presigned PUT and GET, RemoveObject.
- Redis and PostgreSQL: external. Modelled as atomic commands, pipelines and scripts, and as transactions that constraints may refuse.
- Permission checks before a command of another component: a refusal ends the command before its first write, so every command is modelled
  as permitted; what a check that became stale means is the subject of `Permissions`.
- The pages of the trash list and the rows of the access log beyond their number; the renewal of OAuth tokens; `LogoutCommand.ExecuteAll`, which no route reaches.
