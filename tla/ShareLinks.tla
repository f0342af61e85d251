----------------------------- MODULE ShareLinks -----------------------------
(***************************************************************************)
(* Share links: rows that anybody with the token may use, until they are   *)
(* revoked, run out of time or of accesses.  Every command reads the whole *)
(* row, changes a copy and writes all of it back, in no transaction; other *)
(* requests act in between.                                                *)
(*                                                                         *)
(* Whether a user may share the resource is the matter of Permissions;     *)
(* here the requests are those that are let through.  The permission of a  *)
(* link never changes; what an access does is one that it allows.          *)
(***************************************************************************)
EXTENDS Naturals, FiniteSets

CONSTANTS
  LinkId,
  Req,         \* requests served at the same time
  Password,    \* passwords other than none
  NoPassword,
  MaxLimit,    \* bound: values of max_access_count
  MaxAccess,   \* bound: accesses of a link
  MaxTime,     \* bound: the clock stops here
  Null,
  MayFail      \* TRUE: a statement, the storage or the process may fail

VARIABLES
  now,
  link,      \* rows of share_links
  accesses,  \* number of rows of share_link_accesses
  req,       \* the requests
  served,    \* history: accesses counted, for each link
  asked,     \* history: the settings a link was last given
  past       \* history: requests overlapped, a request failed half-way

history == <<served, asked, past>>
vars == <<now, link, accesses, req, history>>

\* A link that ends when the clock stops never does.
Deadline == {e \in 0..MaxTime : e < MaxTime}

Limit == 1..MaxLimit

Settings == [password : Password \cup {NoPassword},
             expires  : Deadline \cup {Null},
             limit    : Limit \cup {Null}]

ShareLink == [set : Settings, count : 0..MaxAccess, status : {"active", "revoked", "expired"}]

ASSUME ShareLinksAssumption ==
  /\ {MaxLimit, MaxAccess, MaxTime} \subseteq Nat
  /\ MayFail \in BOOLEAN
  /\ NoPassword \notin Password
  /\ Null \notin Password \cup {NoPassword} \cup Settings \cup ShareLink

\* What an update asks for; Null leaves a setting alone.
Wish == [password : Password \cup {Null},
         expires  : Deadline \cup {Null},
         limit    : Limit \cup {Null}]

Idle == [at |-> "idle"]

\* What a request holds between its steps: the link and the row it read.
Request ==
  [at: {"access", "revoke"}, link: LinkId, row: ShareLink]
    \cup [at: {"update"}, link: LinkId, row: ShareLink, set: Wish]
    \cup [at: {"log"}, link: LinkId]
    \cup [at: {"job"}, links: SUBSET LinkId]

TypeOK ==
  /\ req \in [Req -> Request \cup {Idle}]
  /\ now \in 0..MaxTime
  /\ link \in [LinkId -> ShareLink \cup {Null}]
  /\ accesses \in [LinkId -> 0..MaxAccess]
  /\ served \in [LinkId -> 0..MaxAccess]
  /\ asked \in [LinkId -> Settings \cup {Null}]
  /\ past \subseteq {"overlap", "failure"}
  /\ \A l \in LinkId : link[l] = Null => asked[l] = Null

Init ==
  /\ now = 0
  /\ link = [l \in LinkId |-> Null]
  /\ accesses = [l \in LinkId |-> 0]
  /\ req = [r \in Req |-> Idle]
  /\ served = [l \in LinkId |-> 0]
  /\ asked = [l \in LinkId |-> Null]
  /\ past = {}

Tick ==
  /\ now < MaxTime
  /\ now' = now + 1
  /\ UNCHANGED <<link, accesses, req, history>>

-----------------------------------------------------------------------------
(* Requests *)

Become(r, state) == req' = [req EXCEPT ![r] = state]

Begin(r, state) ==
  /\ req[r] = Idle
  /\ Become(r, state)
  /\ past' = past \cup (IF \E q \in Req \ {r} : req[q] # Idle THEN {"overlap"} ELSE {})
  /\ UNCHANGED <<now, link, accesses, served, asked>>

Fail(r) ==
  /\ MayFail
  /\ req[r] # Idle
  /\ Become(r, Idle)
  /\ past' = past \cup {"failure"}
  /\ UNCHANGED <<now, link, accesses, served, asked>>

-----------------------------------------------------------------------------
(* The rows *)

IsActive(row) == row.status = "active"

IsExpired(row) == row.set.expires # Null /\ now > row.set.expires

\* Mutant: one access more than the limit.
HasPassedMaxAccess(row) == row.set.limit # Null /\ row.count > row.set.limit

HasReachedMaxAccess(row) == row.set.limit # Null /\ row.count >= row.set.limit

CanAccess(row) ==
  /\ IsActive(row)
  /\ ~IsExpired(row)
  /\ ~HasReachedMaxAccess(row)

Coalesce(new, old) == IF new = Null THEN old ELSE new

\* Mutant: a time or a limit that is not given is taken away.
MergedNull(l, row, set) == [set EXCEPT !.password = Coalesce(@, row.set.password)]

\* Mutant: no password stands for an empty column.
MergedPassword(l, row, set) ==
  [password |-> set.password,
   expires  |-> Coalesce(Coalesce(set.expires, row.set.expires), link[l].set.expires),
   limit    |-> Coalesce(Coalesce(set.limit, row.set.limit), link[l].set.limit)]

\* What the command gives, else what it read; COALESCE keeps what is stored if
\* that is null.
Merged(l, row, set) ==
  [password |-> Coalesce(set.password, row.set.password),
   expires  |-> Coalesce(Coalesce(set.expires, row.set.expires), link[l].set.expires),
   limit    |-> Coalesce(Coalesce(set.limit, row.set.limit), link[l].set.limit)]

\* ShareLinkRepository.FindByID, for its creator, and FindByToken, for everybody.
FindByID(l)    == link[l]
FindByToken(l) == link[l]

\* ShareLinkRepository.Create.
Inserted(l, set) ==
  link' = [link EXCEPT ![l] = [set |-> set, count |-> 0, status |-> "active"]]

\* ShareLinkRepository.Update writes every column.
Saved(l, row, set) ==
  link' = [link EXCEPT ![l] = [row EXCEPT !.set = Merged(l, row, set)]]

Unset == [password |-> Null, expires |-> Null, limit |-> Null]

-----------------------------------------------------------------------------
(* CreateShareLinkCommand *)

Create(r, l) ==
  /\ req[r] = Idle
  /\ link[l] = Null
  /\ \E set \in Settings :
       /\ Inserted(l, set)
       /\ asked' = [asked EXCEPT ![l] = set]
  /\ UNCHANGED <<now, accesses, req, served, past>>

\* POST /files/:id/share and /folders/:id/share.
CreateShareLink(r) == \E l \in LinkId : Create(r, l)

-----------------------------------------------------------------------------
(* AccessShareLinkQuery *)

\* ShareLink.ValidatePassword
Opens(row, password) == row.set.password \in {NoPassword, password}

AccessRead(r, l, password) ==
  /\ FindByToken(l) # Null
  /\ CanAccess(FindByToken(l))
  /\ Opens(FindByToken(l), password)
  /\ Begin(r, [at |-> "access", link |-> l, row |-> FindByToken(l)])

\* Mutant: the copy that is written back is the one that was read.
CountLost(row) == row

IncrementAccessCount(row) == [row EXCEPT !.count = @ + 1]

\* In between: the resource is looked up and the storage signs a URL.
AccessCommit(r) ==
  LET l == req[r].link IN
  /\ req[r].at = "access"
  /\ served[l] < MaxAccess
  /\ Saved(l, IncrementAccessCount(req[r].row), Unset)
  /\ served' = [served EXCEPT ![l] = @ + 1]
  /\ Become(r, [at |-> "log", link |-> l])
  /\ UNCHANGED <<now, accesses, asked, past>>

\* ShareLinkAccessRepository.Create.
Logged(l) == accesses' = [accesses EXCEPT ![l] = @ + 1]

\* An access that is not logged is granted all the same.
AccessLog(r) ==
  /\ req[r].at = "log"
  /\ Logged(req[r].link)
  /\ Become(r, Idle)
  /\ UNCHANGED <<now, link, history>>

\* ShareLinkHandler.AccessShareLink; a view reads and counts nothing.
AccessShareLink(r) ==
  \/ \E l \in LinkId, p \in Password : AccessRead(r, l, p)
  \/ AccessCommit(r)
  \/ AccessLog(r)

-----------------------------------------------------------------------------
(* GetDownloadViaShareQuery: one file of a shared folder, counted like any access. *)

GetDownloadViaShare(r) == \E l \in LinkId, p \in Password : AccessRead(r, l, p)

-----------------------------------------------------------------------------
(* RevokeShareLinkCommand *)

RevokeRead(r, l) ==
  /\ FindByID(l) # Null
  /\ IsActive(FindByID(l))
  /\ Begin(r, [at |-> "revoke", link |-> l, row |-> FindByID(l)])

\* ShareLink.Revoke
Revoke(row) == [row EXCEPT !.status = "revoked"]

RevokeCommit(r) ==
  /\ req[r].at = "revoke"
  /\ Saved(req[r].link, Revoke(req[r].row), Unset)
  /\ Become(r, Idle)
  /\ UNCHANGED <<now, accesses, history>>

RevokeShareLink(r) == (\E l \in LinkId : RevokeRead(r, l)) \/ RevokeCommit(r)

-----------------------------------------------------------------------------
(* UpdateShareLinkCommand *)

\* The API does not take a password away.
UpdateRead(r, l) ==
  /\ FindByID(l) # Null
  /\ IsActive(FindByID(l))
  /\ \E set \in Wish :
       Begin(r, [at |-> "update", link |-> l, row |-> FindByID(l), set |-> set])

UpdateCommit(r) ==
  LET l == req[r].link IN
  /\ req[r].at = "update"
  /\ Saved(l, req[r].row, req[r].set)
  /\ asked' = [asked EXCEPT ![l] = [f \in DOMAIN @ |-> Coalesce(req[r].set[f], @[f])]]
  /\ Become(r, Idle)
  /\ UNCHANGED <<now, accesses, served, past>>

UpdateShareLink(r) == (\E l \in LinkId : UpdateRead(r, l)) \/ UpdateCommit(r)

-----------------------------------------------------------------------------
(* ShareLinkExpiryJob, one run.  Nothing starts the job yet.                 *)

\* Mutant: revoked links expire as well.
OverdueAll == {l \in LinkId : link[l] # Null /\ IsExpired(link[l])}

FindExpired == {l \in LinkId : link[l] # Null /\ IsActive(link[l]) /\ IsExpired(link[l])}

JobRead(r) ==
  /\ FindExpired # {}
  /\ Begin(r, [at |-> "job", links |-> FindExpired])

\* The status is written by identifier, whatever it is by now.
JobCommit(r) ==
  /\ req[r].at = "job"
  /\ link' = [l \in LinkId |-> IF l \in req[r].links THEN [link[l] EXCEPT !.status = "expired"]
                                                     ELSE link[l]]
  /\ Become(r, Idle)
  /\ UNCHANGED <<now, accesses, history>>

ExpiryJob(r) == JobRead(r) \/ JobCommit(r)

-----------------------------------------------------------------------------
Next ==
  \/ Tick
  \/ \E r \in Req :
       \/ CreateShareLink(r)
       \/ AccessShareLink(r)
       \/ GetDownloadViaShare(r)
       \/ RevokeShareLink(r)
       \/ UpdateShareLink(r)
       \/ ExpiryJob(r)
       \/ Fail(r)

Spec == Init /\ [][Next]_vars

-----------------------------------------------------------------------------
(* What the queries show *)

\* ShareLinkRepository.FindByResource: whatever their status.
FindByResource == {l \in LinkId : link[l] # Null}

ListShareLinks == {[id |-> l, set |-> FindByID(l).set, count |-> FindByID(l).count] :
                     l \in FindByResource}

\* The page of a link, open to everybody who has its token and while it lasts;
\* it tells of a password but not which.
GetShareLinkInfo(l) ==
  [open      |-> CanAccess(FindByToken(l)),
   protected |-> FindByToken(l).set.password # NoPassword]

\* ShareLinkAccessRepository.CountByShareLinkID.
CountByShareLinkID(l) == accesses[l]

FindByShareLinkIDWithPagination(l, limit, offset) ==
  {n \in 1..accesses[l] : n > offset /\ n <= offset + limit}

DefaultHistoryLimit == 20
MaxHistoryLimit     == 100

HistoryLimit(limit) ==
  IF limit <= 0 THEN DefaultHistoryLimit
  ELSE IF limit > MaxHistoryLimit THEN MaxHistoryLimit
  ELSE limit

HistoryOffset(offset) == IF offset < 0 THEN 0 ELSE offset

\* The rows of one page and the number of all of them.
GetShareLinkHistory(l, limit, offset) ==
  [rows  |-> FindByShareLinkIDWithPagination(l, HistoryLimit(limit), HistoryOffset(offset)),
   total |-> CountByShareLinkID(l)]

\* What a reader sees who turns the pages from row to row.
HistoryRows(l) ==
  UNION {GetShareLinkHistory(l, 0, offset).rows : offset \in 0..CountByShareLinkID(l)}

(* Properties *)

\* The count is never ahead of what was served: accesses that overlap lose a count
\* between them, and nothing but that makes the two differ.  Without overlap the
\* history of GetShareLinkHistoryQuery agrees as well whenever no request is under
\* way; a failure may cost an entry of the history but never the count.
BooksAgree ==
  \A row \in ListShareLinks :
    LET total == GetShareLinkHistory(row.id, 0, 0).total IN
    /\ row.count <= served[row.id]
    /\ "overlap" \notin past => row.count = served[row.id] /\ total <= served[row.id]
    /\ past = {} /\ (\A r \in Req : req[r] = Idle) => Cardinality(HistoryRows(row.id)) = served[row.id]

\* A revoked or expired link is closed for good (R-SL005), and no update, access
\* or job run opens it, unless they overlap.
ClosedForGood ==
  [][\A l \in LinkId :
       "overlap" \notin past /\ link[l] # Null /\ link'[l].status # link[l].status =>
         IsActive(link[l])]_vars

\* max_access_count is a limit (R-SL004), unless accesses overlap: what the last
\* command set it to holds for every access that begins after it.
LimitHolds ==
  [][\A l \in LinkId :
       "overlap" \notin past /\ served'[l] > served[l] =>
         asked[l].limit = Null \/ served[l] < asked[l].limit]_vars

\* Time and limit and password are those last asked for, unless commands
\* overlap: an access does not bring back older ones, and the page of the link
\* tells the same.
SettingsKept ==
  "overlap" \notin past =>
    \A row \in ListShareLinks :
      /\ row.set = asked[row.id]
      /\ GetShareLinkInfo(row.id).open =>
           (GetShareLinkInfo(row.id).protected <=> asked[row.id].password # NoPassword)
=============================================================================
