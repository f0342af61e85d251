-------------------------- MODULE ShareLinksProofs --------------------------
(***************************************************************************)
(* What ShareLinks keeps for every number of links and requests: the count *)
(* of a link is never ahead of the accesses, every access has its entry in *)
(* the history or is about to write it, and a link obeys its settings as   *)
(* long as requests do not overlap.                                        *)
(***************************************************************************)
EXTENDS ShareLinks, FiniteSetTheorems, TLAPS

\* A row that is not there has served nobody; no count is ahead, in the table or
\* in a copy, however old.
CountsBehind ==
  /\ \A l \in LinkId : IF link[l] = Null
                       THEN served[l] = 0
                       ELSE asked[l] \in Settings /\ link[l].count <= served[l]
  /\ \A r \in Req : /\ req[r].at \in {"access", "revoke", "update"} =>
                         /\ link[req[r].link] # Null
                         /\ req[r].row.count <= served[req[r].link]
                    /\ req[r].at = "job" => \A l \in req[r].links : link[l] # Null

\* Requests that have counted an access and not logged it yet.
Pending(l) == {r \in Req : req[r].at = "log" /\ req[r].link = l}

EntriesKnown ==
  \A l \in LinkId :
    /\ IsFiniteSet(Pending(l))
    /\ accesses[l] + Cardinality(Pending(l)) <= served[l]
    /\ past = {} => accesses[l] + Cardinality(Pending(l)) = served[l]

\* The table as long as requests do not overlap.
RowsCurrent ==
  \A l \in LinkId :
    link[l] # Null => link[l].set = asked[l] /\ link[l].count = served[l]

\* The one request there is then holds the row as it is, and found it usable.
CopiesCurrent ==
  /\ \A r, q \in Req : req[r] # Idle /\ req[q] # Idle => r = q
  /\ \A r \in Req :
       /\ req[r].at \in {"access", "revoke", "update"} =>
            req[r].row = link[req[r].link] /\ IsActive(req[r].row)
       /\ req[r].at = "access" => ~HasReachedMaxAccess(req[r].row)
       /\ req[r].at = "job" => \A l \in req[r].links : IsActive(link[l])

SInv ==
  /\ TypeOK
  /\ CountsBehind
  /\ EntriesKnown
  /\ "overlap" \notin past => RowsCurrent /\ CopiesCurrent

-----------------------------------------------------------------------------
(* Shapes *)

LEMMA RequestShape ==
  ASSUME TypeOK, NEW r \in Req
  PROVE  /\ req[r] = Idle <=> req[r].at = "idle"
         /\ req[r].at \in {"access", "revoke", "update"} => req[r].row \in ShareLink
         /\ req[r].at \in {"access", "revoke", "update", "log"} => req[r].link \in LinkId
         /\ req[r].at = "update" => req[r].set \in Wish
         /\ req[r].at = "job" => req[r].links \subseteq LinkId
BY DEF TypeOK, Request, Idle

LEMMA RowShape ==
  ASSUME TypeOK, NEW l \in LinkId, link[l] # Null
  PROVE  link[l] \in ShareLink
BY DEF TypeOK

\* COALESCE and the merge in UpdateShareLinkCommand give settings again; a copy
\* that is current gives what was stored, changed by what was asked for.
LEMMA MergedSettings ==
  ASSUME NEW l \in LinkId, link[l] \in ShareLink, NEW row \in ShareLink, NEW set \in Wish
  PROVE  /\ Merged(l, row, set) \in Settings
         /\ row.set = link[l].set =>
              Merged(l, row, set) = [password |-> Coalesce(set.password, row.set.password),
                                     expires  |-> Coalesce(set.expires, row.set.expires),
                                     limit    |-> Coalesce(set.limit, row.set.limit)]
<1>1. row.set \in Settings /\ link[l].set \in Settings
  BY DEF ShareLink
<1>2. Coalesce(set.password, row.set.password) \in Password \cup {NoPassword}
  BY <1>1 DEF Wish, Settings, Coalesce
<1>3. Coalesce(Coalesce(set.expires, row.set.expires), link[l].set.expires) \in Deadline \cup {Null}
  BY <1>1 DEF Wish, Settings, Coalesce
<1>4. Coalesce(Coalesce(set.limit, row.set.limit), link[l].set.limit) \in Limit \cup {Null}
  BY <1>1 DEF Wish, Settings, Coalesce
<1>5. Merged(l, row, set) \in Settings
  BY <1>2, <1>3, <1>4 DEF Merged, Settings
<1> QED
  BY <1>5 DEF Merged, Coalesce

LEMMA UnsetChangesNothing ==
  ASSUME NEW row \in ShareLink
  PROVE  /\ Unset \in Wish
         /\ row.set = [password |-> Coalesce(Unset.password, row.set.password),
                       expires  |-> Coalesce(Unset.expires, row.set.expires),
                       limit    |-> Coalesce(Unset.limit, row.set.limit)]
BY DEF Unset, Wish, Coalesce, ShareLink, Settings

\* What ShareLinkRepository.Update leaves in the table.
LEMMA SavedRow ==
  ASSUME TypeOK, NEW l \in LinkId, link[l] # Null,
         NEW row \in ShareLink, NEW set \in Wish, Saved(l, row, set)
  PROVE  /\ link' \in [LinkId -> ShareLink \cup {Null}]
         /\ \A k \in LinkId : k # l => link'[k] = link[k]
         /\ link'[l] # Null
         /\ link'[l].count = row.count
         /\ link'[l].status = row.status
         /\ link'[l].set = Merged(l, row, set)
<1> DEFINE set2 == Merged(l, row, set)
<1>1. set2 \in Settings
  BY RowShape, MergedSettings
<1>2. link' = [link EXCEPT ![l] = [row EXCEPT !.set = set2]]
  BY DEF Saved
<1> HIDE DEF set2
<1> DEFINE new == [row EXCEPT !.set = set2]
<1>3. /\ new \in ShareLink /\ new.count = row.count
      /\ new.status = row.status /\ new.set = set2
  BY <1>1 DEF ShareLink
<1>4. new # Null
  BY <1>3, ShareLinksAssumption
<1>5. link' = [link EXCEPT ![l] = new]
  BY <1>2
<1> HIDE DEF new
<1>6. link'[l] = new /\ link' \in [LinkId -> ShareLink \cup {Null}]
  BY <1>3, <1>5 DEF TypeOK
<1>7. \A k \in LinkId : k # l => link'[k] = link[k]
  BY <1>5 DEF TypeOK
<1> QED
  BY <1>3, <1>4, <1>6, <1>7 DEF set2

\* A request enters and leaves the set of those that owe an entry.
LEMMA PendingStep ==
  ASSUME TypeOK, NEW r \in Req, NEW state, Become(r, state), NEW l \in LinkId
  PROVE  Pending(l)' = (Pending(l) \ {r})
                         \cup (IF state.at = "log" /\ state.link = l THEN {r} ELSE {})
<1>1. \A q \in Req : req'[q] = IF q = r THEN state ELSE req[q]
  BY DEF TypeOK, Become
<1> QED
  BY <1>1 DEF Pending

LEMMA InitSInv == Init => SInv
<1> SUFFICES ASSUME Init PROVE SInv
  OBVIOUS
<1>1. TypeOK
  <2>1. 0 \in 0..MaxTime /\ 0 \in 0..MaxAccess
    BY ShareLinksAssumption
  <2> QED
    BY <2>1 DEF Init, TypeOK
<1>2. CountsBehind
  BY DEF Init, CountsBehind, Idle
<1>3. EntriesKnown
  <2>1. \A l \in LinkId : Pending(l) = {}
    BY DEF Init, Pending, Idle
  <2> QED
    BY <2>1, FS_EmptySet DEF Init, EntriesKnown
<1>4. RowsCurrent /\ CopiesCurrent
  BY DEF Init, RowsCurrent, CopiesCurrent, Idle
<1> QED
  BY <1>1, <1>2, <1>3, <1>4 DEF SInv

-----------------------------------------------------------------------------
(* Steps that begin a request: the tables stay, the copy is current. *)

LEMMA BeginStep ==
  ASSUME SInv, NEW r \in Req, NEW state \in Request, Begin(r, state),
         state.at \in {"access", "revoke", "update"} =>
           /\ link[state.link] # Null
           /\ state.row = link[state.link] /\ IsActive(state.row),
         state.at = "access" => ~HasReachedMaxAccess(state.row),
         state.at = "job" => \A l \in state.links : link[l] # Null /\ IsActive(link[l]),
         state.at # "log"
  PROVE  SInv'
<1>0. TypeOK /\ CountsBehind /\ EntriesKnown
  BY DEF SInv
<1>1. \A q \in Req : req'[q] = IF q = r THEN state ELSE req[q]
  BY <1>0 DEF TypeOK, Begin, Become
<1>2. /\ UNCHANGED <<now, link, accesses, served, asked>>
      /\ past \subseteq past' /\ past' \subseteq {"overlap", "failure"}
  BY <1>0 DEF Begin, TypeOK
<1>3. TypeOK'
  BY <1>0, <1>2 DEF TypeOK, Begin, Become
<1>4. CountsBehind'
  <2>1. ASSUME state.at \in {"access", "revoke", "update"}
        PROVE  state.row.count <= served[state.link]
    <3>1. state.link \in LinkId
      BY <2>1 DEF Request
    <3> QED
      BY <1>0, <2>1, <3>1 DEF CountsBehind
  <2> QED
    BY <1>0, <1>1, <1>2, <2>1 DEF CountsBehind
<1>5. EntriesKnown'
  <2>1. \A l \in LinkId : Pending(l)' = Pending(l)
    BY <1>1, RequestShape, <1>0 DEF Pending, Begin, Idle
  <2>2. past' = {} => past = {}
    BY <1>2
  <2> QED
    BY <1>0, <1>2, <2>1, <2>2 DEF EntriesKnown
<1>6. ASSUME "overlap" \notin past'
      PROVE  RowsCurrent' /\ CopiesCurrent'
  <2>1. \A q \in Req \ {r} : req[q] = Idle
    BY <1>6 DEF Begin
  <2>2. RowsCurrent /\ CopiesCurrent
    BY <1>2, <1>6 DEF SInv
  <2>3. CopiesCurrent'
    BY <1>1, <1>2, <2>1 DEF CopiesCurrent, Idle, IsActive, HasReachedMaxAccess
  <2> QED
    BY <1>2, <2>2, <2>3 DEF RowsCurrent
<1> QED
  BY <1>3, <1>4, <1>5, <1>6 DEF SInv

\* A step that writes a row it holds back, and either counts an access or ends
\* the request.
LEMMA SaveStep ==
  ASSUME SInv, NEW r \in Req, req[r].at \in {"access", "revoke", "update"},
         NEW l \in LinkId, l = req[r].link,
         NEW row \in ShareLink, NEW set \in Wish, Saved(l, row, set),
         NEW state \in Request \cup {Idle}, Become(r, state),
         UNCHANGED <<now, accesses, past>>,
         served' \in [LinkId -> 0..MaxAccess],
         \/ state.at = "log" /\ state.link = l /\ served'[l] = served[l] + 1
         \/ state = Idle /\ served'[l] = served[l],
         \A k \in LinkId : k # l => served'[k] = served[k] /\ asked'[k] = asked[k],
         row.count <= served'[l],
         asked' \in [LinkId -> Settings \cup {Null}], asked'[l] \in Settings,
         "overlap" \notin past => row.count = served'[l] /\ Merged(l, row, set) = asked'[l]
  PROVE  SInv'
<1>0. TypeOK /\ CountsBehind /\ EntriesKnown
  BY DEF SInv
<1>1. link[l] # Null
  BY <1>0 DEF CountsBehind
<1>2. /\ link' \in [LinkId -> ShareLink \cup {Null}]
      /\ \A k \in LinkId : k # l => link'[k] = link[k]
      /\ link'[l] # Null
      /\ link'[l].count = row.count
      /\ link'[l].set = Merged(l, row, set)
  BY <1>0, <1>1, SavedRow
<1>3. \A q \in Req : req'[q] = IF q = r THEN state ELSE req[q]
  BY <1>0 DEF TypeOK, Become
<1>4. /\ served[l] \in Nat
      /\ served[l] <= served'[l]
      /\ IF state.at = "log" THEN state.link = l /\ served'[l] = served[l] + 1
                              ELSE served'[l] = served[l]
  BY <1>0 DEF TypeOK, Idle
<1>5. TypeOK'
  <2>1. req' \in [Req -> Request \cup {Idle}]
    BY <1>0 DEF TypeOK, Become
  <2>2. \A k \in LinkId : link'[k] = Null => asked'[k] = Null
    BY <1>0, <1>2 DEF TypeOK
  <2> QED
    BY <1>0, <1>2, <2>1, <2>2 DEF TypeOK
<1>6. CountsBehind'
  <2>1. ASSUME NEW k \in LinkId
        PROVE  IF link'[k] = Null
               THEN served'[k] = 0
               ELSE asked'[k] \in Settings /\ link'[k].count <= served'[k]
    BY <1>0, <1>2, <1>4 DEF CountsBehind
  <2>2. ASSUME NEW q \in Req, req'[q].at \in {"access", "revoke", "update"}
        PROVE  link'[req'[q].link] # Null /\ req'[q].row.count <= served'[req'[q].link]
    <3>1. req'[q] = req[q]
      BY <1>3, <2>2 DEF Idle
    <3>2. /\ req[q].link \in LinkId /\ link[req[q].link] # Null
          /\ req[q].row.count <= served[req[q].link] /\ req[q].row.count \in Nat
      BY <1>0, <2>2, <3>1, RequestShape DEF CountsBehind, ShareLink
    <3>3. served[req[q].link] \in Nat /\ served'[req[q].link] \in Nat
      BY <1>0, <1>5, <3>2 DEF TypeOK
    <3>4. req[q].row.count <= served'[req[q].link]
      <4>1. CASE req[q].link = l
        BY <1>4, <3>2, <3>3, <4>1
      <4>2. CASE req[q].link # l
        BY <3>2, <4>2
      <4> QED
        BY <4>1, <4>2
    <3> QED
      BY <1>2, <3>1, <3>2, <3>4
  <2>3. ASSUME NEW q \in Req, req'[q].at = "job", NEW k \in req'[q].links
        PROVE  link'[k] # Null
    <3>1. req'[q] = req[q]
      BY <1>3, <2>3 DEF Idle
    <3>2. k \in LinkId /\ link[k] # Null
      BY <1>0, <2>3, <3>1, RequestShape DEF CountsBehind
    <3> QED
      BY <1>2, <3>2
  <2> QED
    BY <2>1, <2>2, <2>3 DEF CountsBehind
<1>7. EntriesKnown'
  <2> SUFFICES ASSUME NEW k \in LinkId
               PROVE  /\ IsFiniteSet(Pending(k)')
                      /\ accesses[k] + Cardinality(Pending(k)') <= served'[k]
                      /\ past = {} => accesses[k] + Cardinality(Pending(k)') = served'[k]
    BY DEF EntriesKnown
  <2>1. IsFiniteSet(Pending(k)) /\ Cardinality(Pending(k)) \in Nat /\ r \notin Pending(k)
    BY <1>0, FS_CardinalityType DEF EntriesKnown, Pending
  <2>2. /\ accesses[k] \in Nat /\ accesses[k] + Cardinality(Pending(k)) <= served[k]
        /\ past = {} => accesses[k] + Cardinality(Pending(k)) = served[k]
    BY <1>0 DEF EntriesKnown, TypeOK
  <2>3. CASE k = l /\ state.at = "log"
    <3>1. Pending(k)' = Pending(k) \cup {r}
      BY <1>3, <1>4, <2>3 DEF Pending
    <3>2. IsFiniteSet(Pending(k)') /\ Cardinality(Pending(k)') = Cardinality(Pending(k)) + 1
      BY <2>1, <3>1, FS_AddElement
    <3> QED
      BY <1>4, <2>1, <2>2, <2>3, <3>2
  <2>4. CASE ~(k = l /\ state.at = "log")
    <3>1. ~(state.at = "log" /\ state.link = k)
      BY <2>4 DEF Idle
    <3>2. Pending(k)' = Pending(k)
      BY <1>3, <2>1, <3>1 DEF Pending
    <3>3. served'[k] = served[k]
      BY <1>0, <1>4, <2>4 DEF TypeOK
    <3> QED
      BY <1>0, <3>2, <3>3 DEF EntriesKnown
  <2> QED
    BY <2>3, <2>4
<1>8. ASSUME "overlap" \notin past'
      PROVE  RowsCurrent' /\ CopiesCurrent'
  <2>1. RowsCurrent /\ CopiesCurrent
    BY <1>8 DEF SInv
  <2>2. RowsCurrent'
    BY <1>2, <1>4, <1>8, <2>1 DEF RowsCurrent
  <2>3. \A q \in Req \ {r} : req'[q] = Idle
    BY <1>3, <2>1 DEF CopiesCurrent, Idle
  <2>4. CopiesCurrent'
    BY <1>3, <2>3 DEF CopiesCurrent, Idle
  <2> QED
    BY <2>2, <2>4
<1> QED
  BY <1>5, <1>6, <1>7, <1>8 DEF SInv

\* What UpdateShareLinkCommand is taken to have asked for.
LEMMA AskedSettings ==
  ASSUME NEW old \in Settings, NEW set \in Wish
  PROVE  /\ [f \in DOMAIN old |-> Coalesce(set[f], old[f])] \in Settings
         /\ [f \in DOMAIN old |-> Coalesce(set[f], old[f])]
              = [password |-> Coalesce(set.password, old.password),
                 expires  |-> Coalesce(set.expires, old.expires),
                 limit    |-> Coalesce(set.limit, old.limit)]
<1> DEFINE new == [password |-> Coalesce(set.password, old.password),
                   expires  |-> Coalesce(set.expires, old.expires),
                   limit    |-> Coalesce(set.limit, old.limit)]
<1>1. new \in Settings
  BY DEF Wish, Settings, Coalesce
<1>2. DOMAIN old = {"password", "expires", "limit"}
  BY DEF Settings
<1>3. [f \in DOMAIN old |-> Coalesce(set[f], old[f])] = new
  BY <1>2
<1> QED
  BY <1>1, <1>3

\* A request ends that saves nothing: it may write its entry.
LEMMA EndStep ==
  ASSUME SInv, NEW r \in Req, req[r] # Idle, Become(r, Idle), TypeOK',
         UNCHANGED <<link, served, asked>>, EntriesKnown',
         past \subseteq past'
  PROVE  SInv'
<1>0. TypeOK /\ CountsBehind
  BY DEF SInv
<1>1. \A q \in Req : req'[q] = IF q = r THEN Idle ELSE req[q]
  BY <1>0 DEF TypeOK, Become
<1>2. CountsBehind'
  BY <1>0, <1>1 DEF CountsBehind, Idle
<1>3. ASSUME "overlap" \notin past'
      PROVE  RowsCurrent' /\ CopiesCurrent'
  <2>1. RowsCurrent /\ CopiesCurrent
    BY <1>3 DEF SInv
  <2>2. \A q \in Req : req'[q] = Idle
    BY <1>1, <2>1 DEF CopiesCurrent
  <2>3. CopiesCurrent'
    BY <2>2 DEF CopiesCurrent, Idle
  <2> QED
    BY <2>1, <2>3 DEF RowsCurrent
<1> QED
  BY <1>2, <1>3 DEF SInv

-----------------------------------------------------------------------------
(* Every step *)

LEMMA CreateStep ==
  ASSUME SInv, NEW r \in Req, NEW l \in LinkId, Create(r, l)
  PROVE  SInv'
<1>0. TypeOK /\ CountsBehind /\ EntriesKnown
  BY DEF SInv
<1>1. PICK set \in Settings : Inserted(l, set) /\ asked' = [asked EXCEPT ![l] = set]
  BY DEF Create
<1> DEFINE row == [set |-> set, count |-> 0, status |-> "active"]
<1>2. row \in ShareLink /\ row.set = set /\ row.count = 0
  BY ShareLinksAssumption DEF ShareLink
<1>3. row # Null
  BY <1>2, ShareLinksAssumption
<1>4. /\ link' \in [LinkId -> ShareLink \cup {Null}]
      /\ \A k \in LinkId : link'[k] = IF k = l THEN row ELSE link[k]
  BY <1>0, <1>1, <1>2 DEF Inserted, TypeOK
<1> HIDE DEF row
<1>5. /\ asked' \in [LinkId -> Settings \cup {Null}]
      /\ \A k \in LinkId : asked'[k] = IF k = l THEN set ELSE asked[k]
  BY <1>0, <1>1 DEF TypeOK
<1>6. UNCHANGED <<now, accesses, req, served, past>> /\ link[l] = Null /\ served[l] = 0
  BY <1>0 DEF Create, CountsBehind
<1>7. TypeOK'
  BY <1>0, <1>3, <1>4, <1>5, <1>6 DEF TypeOK
<1>8. CountsBehind'
  <2>1. ASSUME NEW k \in LinkId
        PROVE  IF link'[k] = Null
               THEN served'[k] = 0
               ELSE asked'[k] \in Settings /\ link'[k].count <= served'[k]
    BY <1>0, <1>2, <1>3, <1>4, <1>5, <1>6 DEF CountsBehind
  <2>2. ASSUME NEW q \in Req, req[q].at \in {"access", "revoke", "update"}
        PROVE  link'[req[q].link] # Null /\ req[q].row.count <= served'[req[q].link]
    BY <1>0, <1>3, <1>4, <1>6, <2>2, RequestShape DEF CountsBehind
  <2>3. ASSUME NEW q \in Req, req[q].at = "job", NEW k \in req[q].links
        PROVE  link'[k] # Null
    BY <1>0, <1>3, <1>4, <1>6, <2>3, RequestShape DEF CountsBehind
  <2> QED
    BY <1>6, <2>1, <2>2, <2>3 DEF CountsBehind
<1>9. EntriesKnown'
  BY <1>0, <1>6 DEF EntriesKnown, Pending
<1>10. RowsCurrent => RowsCurrent'
  BY <1>2, <1>4, <1>5, <1>6 DEF RowsCurrent
<1>11. ASSUME CopiesCurrent PROVE CopiesCurrent'
  <2>1. ASSUME NEW q \in Req, req[q].at \in {"access", "revoke", "update"}
        PROVE  link'[req[q].link] = link[req[q].link]
    BY <1>0, <1>4, <1>6, <2>1, RequestShape DEF CountsBehind
  <2>2. ASSUME NEW q \in Req, req[q].at = "job", NEW k \in req[q].links
        PROVE  link'[k] = link[k]
    BY <1>0, <1>4, <1>6, <2>2, RequestShape DEF CountsBehind
  <2> QED
    BY <1>6, <1>11, <2>1, <2>2 DEF CopiesCurrent, IsActive, HasReachedMaxAccess
<1> QED
  BY <1>6, <1>7, <1>8, <1>9, <1>10, <1>11 DEF SInv

LEMMA JobStep ==
  ASSUME SInv, NEW r \in Req, JobCommit(r)
  PROVE  SInv'
<1>0. TypeOK /\ CountsBehind /\ EntriesKnown
  BY DEF SInv
<1>1. /\ req[r].at = "job" /\ req[r] # Idle /\ Become(r, Idle)
      /\ UNCHANGED <<now, accesses, served, asked, past>>
      /\ req[r].links \subseteq LinkId
  BY <1>0, RequestShape DEF JobCommit, history, Idle
<1>2. \A q \in Req : req'[q] = IF q = r THEN Idle ELSE req[q]
  BY <1>0, <1>1 DEF TypeOK, Become
<1>3. ASSUME NEW k \in req[r].links
      PROVE  /\ [link[k] EXCEPT !.status = "expired"] \in ShareLink
             /\ [link[k] EXCEPT !.status = "expired"].set = link[k].set
             /\ [link[k] EXCEPT !.status = "expired"].count = link[k].count
  BY <1>0, <1>1, <1>3, RowShape DEF CountsBehind, ShareLink
<1>4. link' \in [LinkId -> ShareLink \cup {Null}]
  BY <1>0, <1>1, <1>3 DEF JobCommit, TypeOK
<1>5. ASSUME NEW k \in LinkId
      PROVE  /\ link'[k] = Null <=> link[k] = Null
             /\ link[k] # Null => link'[k].set = link[k].set /\ link'[k].count = link[k].count
  <2>1. CASE k \in req[r].links
    <3>1. link'[k] = [link[k] EXCEPT !.status = "expired"]
      BY <2>1 DEF JobCommit
    <3>2. link'[k] # Null /\ link[k] # Null
      BY <1>0, <1>1, <1>3, <2>1, <3>1, ShareLinksAssumption DEF CountsBehind
    <3> QED
      BY <1>3, <2>1, <3>1, <3>2
  <2>2. CASE k \notin req[r].links
    BY <2>2 DEF JobCommit
  <2> QED
    BY <2>1, <2>2
<1>6. TypeOK'
  BY <1>0, <1>1, <1>4, <1>5 DEF TypeOK, Become
<1>7. CountsBehind'
  <2>1. ASSUME NEW k \in LinkId
        PROVE  IF link'[k] = Null
               THEN served'[k] = 0
               ELSE asked'[k] \in Settings /\ link'[k].count <= served'[k]
    BY <1>0, <1>1, <1>5 DEF CountsBehind
  <2>2. ASSUME NEW q \in Req, req'[q] # Idle
        PROVE  /\ req'[q].at \in {"access", "revoke", "update"} =>
                    link'[req'[q].link] # Null /\ req'[q].row.count <= served'[req'[q].link]
               /\ req'[q].at = "job" => \A l \in req'[q].links : link'[l] # Null
    BY <1>0, <1>1, <1>2, <1>5, <2>2, RequestShape DEF CountsBehind
  <2> QED
    BY <2>1, <2>2 DEF CountsBehind, Idle
<1>8. EntriesKnown'
  <2>1. \A k \in LinkId : Pending(k)' = Pending(k)
    BY <1>1, <1>2 DEF Pending, Idle
  <2> QED
    BY <1>0, <1>1, <2>1 DEF EntriesKnown
<1>9. ASSUME "overlap" \notin past'
      PROVE  RowsCurrent' /\ CopiesCurrent'
  <2>1. RowsCurrent /\ CopiesCurrent
    BY <1>1, <1>9 DEF SInv
  <2>2. \A q \in Req : req'[q] = Idle
    BY <1>1, <1>2, <2>1 DEF CopiesCurrent
  <2>3. RowsCurrent'
    BY <1>1, <1>5, <2>1 DEF RowsCurrent
  <2> QED
    BY <2>2, <2>3 DEF CopiesCurrent, Idle
<1> QED
  BY <1>6, <1>7, <1>8, <1>9 DEF SInv

LEMMA NextSInv == SInv /\ [Next]_vars => SInv'
<1> SUFFICES ASSUME SInv, [Next]_vars PROVE SInv'
  OBVIOUS
<1>0. TypeOK /\ CountsBehind /\ EntriesKnown
  BY DEF SInv
<1>1. CASE Tick
  <2>1. now' \in 0..MaxTime
    BY <1>0, <1>1, ShareLinksAssumption DEF Tick, TypeOK
  <2>2. UNCHANGED <<link, accesses, req, served, asked, past>>
    BY <1>1 DEF Tick, history
  <2>3. TypeOK'
    BY <1>0, <2>1, <2>2 DEF TypeOK
  <2>4. CountsBehind' /\ EntriesKnown'
    BY <1>0, <2>2 DEF CountsBehind, EntriesKnown, Pending
  <2>5. RowsCurrent /\ CopiesCurrent => RowsCurrent' /\ CopiesCurrent'
    BY <2>2 DEF RowsCurrent, CopiesCurrent, IsActive, HasReachedMaxAccess
  <2> QED
    BY <2>2, <2>3, <2>4, <2>5 DEF SInv
<1>2. ASSUME NEW r \in Req, NEW l \in LinkId, Create(r, l)
      PROVE  SInv'
  BY <1>2, CreateStep
<1>3. ASSUME NEW r \in Req, NEW l \in LinkId, NEW p \in Password, AccessRead(r, l, p)
      PROVE  SInv'
  <2> DEFINE state == [at |-> "access", link |-> l, row |-> link[l]]
  <2>1. /\ link[l] # Null /\ link[l] \in ShareLink
        /\ IsActive(link[l]) /\ ~HasReachedMaxAccess(link[l])
    BY <1>0, <1>3, RowShape DEF AccessRead, FindByToken, CanAccess
  <2>2. state \in Request /\ Begin(r, state)
    BY <1>3, <2>1 DEF AccessRead, FindByToken, Request
  <2> QED
    BY <2>1, <2>2, BeginStep
<1>4. ASSUME NEW r \in Req, AccessCommit(r)
      PROVE  SInv'
  <2>1. PICK l \in LinkId : l = req[r].link
    BY <1>0, <1>4, RequestShape DEF AccessCommit
  <2>2. /\ req[r].at = "access" /\ req[r].row \in ShareLink /\ served[l] < MaxAccess
        /\ link[l] \in ShareLink /\ asked[l] \in Settings /\ req[r].row.count <= served[l]
        /\ served[l] \in Nat
    BY <1>0, <1>4, <2>1, RequestShape, RowShape DEF AccessCommit, CountsBehind, TypeOK
  <2>3. PICK row : row = IncrementAccessCount(req[r].row)
    OBVIOUS
  <2>4. /\ row \in ShareLink /\ row.set = req[r].row.set /\ row.count = req[r].row.count + 1
    <3>1. req[r].row.count + 1 \in 0..MaxAccess
      BY <2>2, ShareLinksAssumption DEF ShareLink
    <3> QED
      BY <2>2, <2>3, <3>1 DEF ShareLink, IncrementAccessCount
  <2> DEFINE state == [at |-> "log", link |-> l]
  <2>5. /\ state \in Request /\ state.at = "log" /\ state.link = l
        /\ Become(r, state) /\ Saved(l, row, Unset)
        /\ UNCHANGED <<now, accesses, asked, past>>
        /\ served' = [served EXCEPT ![l] = @ + 1]
    BY <1>4, <2>1, <2>3 DEF AccessCommit, Request
  <2> HIDE DEF state
  <2>6. Unset \in Wish
    BY <2>4, UnsetChangesNothing
  <2>7. ASSUME "overlap" \notin past
        PROVE  row.count = served[l] + 1 /\ Merged(l, row, Unset) = asked[l]
    <3>1. /\ req[r].row = link[l] /\ link[l].set = asked[l]
          /\ link[l].count = served[l]
      BY <1>0, <2>1, <2>2, <2>7 DEF SInv, CopiesCurrent, RowsCurrent, CountsBehind
    <3> QED
      BY <2>2, <2>4, <2>6, <3>1, MergedSettings, UnsetChangesNothing
  <2>8. asked' \in [LinkId -> Settings \cup {Null}]
    BY <1>0, <2>5 DEF TypeOK
  <2>9. /\ served' \in [LinkId -> 0..MaxAccess]
        /\ \A k \in LinkId : k # l => served'[k] = served[k]
        /\ served'[l] = served[l] + 1
    <3>1. served[l] + 1 \in 0..MaxAccess
      BY <2>2, ShareLinksAssumption
    <3> QED
      BY <1>0, <2>5, <3>1 DEF TypeOK
  <2>10. row.count <= served'[l]
    BY <2>2, <2>4, <2>9 DEF ShareLink
  <2> QED
    BY <2>1, <2>2, <2>4, <2>5, <2>6, <2>7, <2>8, <2>9, <2>10, SaveStep
<1>5. ASSUME NEW r \in Req, AccessLog(r)
      PROVE  SInv'
  <2>1. PICK l \in LinkId : l = req[r].link
    BY <1>0, <1>5, RequestShape DEF AccessLog
  <2>2. /\ req[r].at = "log" /\ req[r] # Idle /\ Become(r, Idle)
        /\ accesses' = [accesses EXCEPT ![l] = @ + 1]
        /\ UNCHANGED <<now, link, served, asked, past>>
    BY <1>5, <2>1 DEF AccessLog, Logged, Idle, history
  <2>3. \A k \in LinkId : /\ IsFiniteSet(Pending(k)) /\ Cardinality(Pending(k)) \in Nat
                          /\ accesses[k] \in Nat /\ served[k] \in Nat
    BY <1>0, FS_CardinalityType DEF EntriesKnown, TypeOK
  <2>4. \A k \in LinkId : k # l => Pending(k)' = Pending(k) /\ accesses'[k] = accesses[k]
    <3>1. \A q \in Req : req'[q] = IF q = r THEN Idle ELSE req[q]
      BY <1>0, <2>2 DEF TypeOK, Become
    <3> QED
      BY <1>0, <2>1, <2>2, <3>1 DEF Pending, Idle, TypeOK
  <2>5. /\ r \in Pending(l)
        /\ Pending(l)' = Pending(l) \ {r}
    <3>1. \A q \in Req : req'[q] = IF q = r THEN Idle ELSE req[q]
      BY <1>0, <2>2 DEF TypeOK, Become
    <3> QED
      BY <2>1, <2>2, <3>1 DEF Pending, Idle
  <2>6. /\ IsFiniteSet(Pending(l)') /\ Cardinality(Pending(l)') \in Nat
        /\ Cardinality(Pending(l)') = Cardinality(Pending(l)) - 1
    BY <2>3, <2>5, FS_RemoveElement, FS_CardinalityType
  <2>7. accesses'[l] = accesses[l] + 1
    BY <1>0, <2>2 DEF TypeOK
  <2>8. EntriesKnown'
    BY <1>0, <2>2, <2>3, <2>4, <2>6, <2>7 DEF EntriesKnown
  <2>9. accesses' \in [LinkId -> 0..MaxAccess]
    <3>1. accesses'[l] \in 0..MaxAccess
      <4>1. served[l] <= MaxAccess /\ accesses[l] + Cardinality(Pending(l)) <= served[l]
        BY <1>0 DEF EntriesKnown, TypeOK
      <4> QED
        BY <2>3, <2>6, <2>7, <4>1, ShareLinksAssumption
    <3> QED
      BY <1>0, <2>2, <2>7, <3>1 DEF TypeOK
  <2>10. TypeOK'
    BY <1>0, <2>2, <2>9 DEF TypeOK, Become
  <2> QED
    BY <2>2, <2>8, <2>10, EndStep
<1>6. ASSUME NEW r \in Req, NEW l \in LinkId, RevokeRead(r, l)
      PROVE  SInv'
  <2> DEFINE state == [at |-> "revoke", link |-> l, row |-> link[l]]
  <2>1. link[l] # Null /\ link[l] \in ShareLink /\ IsActive(link[l])
    BY <1>0, <1>6, RowShape DEF RevokeRead, FindByID
  <2>2. state \in Request /\ Begin(r, state)
    BY <1>6, <2>1 DEF RevokeRead, FindByID, Request
  <2> QED
    BY <2>1, <2>2, BeginStep
<1>7. ASSUME NEW r \in Req, RevokeCommit(r)
      PROVE  SInv'
  <2>1. PICK l \in LinkId : l = req[r].link
    BY <1>0, <1>7, RequestShape DEF RevokeCommit
  <2>2. /\ req[r].at = "revoke" /\ req[r].row \in ShareLink
        /\ link[l] \in ShareLink /\ asked[l] \in Settings /\ req[r].row.count <= served[l]
        /\ served[l] \in Nat /\ served[l] <= MaxAccess
    BY <1>0, <1>7, <2>1, RequestShape, RowShape DEF RevokeCommit, CountsBehind, TypeOK
  <2>3. PICK row : row = Revoke(req[r].row)
    OBVIOUS
  <2>4. row \in ShareLink /\ row.set = req[r].row.set /\ row.count = req[r].row.count
    BY <2>2, <2>3 DEF ShareLink, Revoke
  <2>5. /\ Become(r, Idle) /\ Saved(l, row, Unset)
        /\ UNCHANGED <<now, accesses, served, asked, past>>
    BY <1>7, <2>1, <2>3 DEF RevokeCommit, history
  <2>6. Unset \in Wish
    BY <2>4, UnsetChangesNothing
  <2>7. ASSUME "overlap" \notin past
        PROVE  row.count = served[l] /\ Merged(l, row, Unset) = asked[l]
    <3>1. /\ req[r].row = link[l] /\ link[l].set = asked[l]
          /\ link[l].count = served[l]
      BY <1>0, <2>1, <2>2, <2>7 DEF SInv, CopiesCurrent, RowsCurrent, CountsBehind
    <3> QED
      BY <2>2, <2>4, <2>6, <3>1, MergedSettings, UnsetChangesNothing
  <2>8. asked' \in [LinkId -> Settings \cup {Null}] /\ served' \in [LinkId -> 0..MaxAccess]
    BY <1>0, <2>2, <2>5 DEF TypeOK
  <2>9. row.count <= served[l]
    BY <2>2, <2>4
  <2> QED
    BY <2>1, <2>2, <2>4, <2>5, <2>6, <2>7, <2>8, <2>9, SaveStep
<1>8. ASSUME NEW r \in Req, NEW l \in LinkId, UpdateRead(r, l)
      PROVE  SInv'
  <2>1. link[l] # Null /\ link[l] \in ShareLink /\ IsActive(link[l])
    BY <1>0, <1>8, RowShape DEF UpdateRead, FindByID
  <2>2. PICK set \in Wish : Begin(r, [at |-> "update", link |-> l, row |-> link[l], set |-> set])
    BY <1>8 DEF UpdateRead, FindByID
  <2>3. [at |-> "update", link |-> l, row |-> link[l], set |-> set] \in Request
    BY <2>1 DEF Request
  <2> QED
    BY <2>1, <2>2, <2>3, BeginStep
<1>9. ASSUME NEW r \in Req, UpdateCommit(r)
      PROVE  SInv'
  <2>1. PICK l \in LinkId : l = req[r].link
    BY <1>0, <1>9, RequestShape DEF UpdateCommit
  <2>2. /\ req[r].at = "update" /\ req[r].row \in ShareLink /\ req[r].set \in Wish
        /\ link[l] \in ShareLink /\ asked[l] \in Settings /\ req[r].row.count <= served[l]
        /\ served[l] \in Nat /\ served[l] <= MaxAccess
    BY <1>0, <1>9, <2>1, RequestShape, RowShape DEF UpdateCommit, CountsBehind, TypeOK
  <2>3. PICK row \in ShareLink, set \in Wish : row = req[r].row /\ set = req[r].set
    BY <2>2
  <2> DEFINE new == [f \in DOMAIN asked[l] |-> Coalesce(set[f], asked[l][f])]
  <2>4. /\ Become(r, Idle) /\ Saved(l, row, set)
        /\ UNCHANGED <<now, accesses, served, past>>
        /\ asked' = [asked EXCEPT ![l] = new]
    BY <1>9, <2>1, <2>3 DEF UpdateCommit
  <2>5. /\ new \in Settings
        /\ new = [password |-> Coalesce(set.password, asked[l].password),
                  expires  |-> Coalesce(set.expires, asked[l].expires),
                  limit    |-> Coalesce(set.limit, asked[l].limit)]
    BY <2>2, AskedSettings
  <2> HIDE DEF new
  <2>6. /\ asked' \in [LinkId -> Settings \cup {Null}] /\ asked'[l] = new
        /\ \A k \in LinkId : k # l => asked'[k] = asked[k]
    BY <1>0, <2>4, <2>5 DEF TypeOK
  <2>7. ASSUME "overlap" \notin past
        PROVE  row.count = served[l] /\ Merged(l, row, set) = new
    <3>1. /\ req[r].row = link[l] /\ link[l].set = asked[l]
          /\ link[l].count = served[l]
      BY <1>0, <2>1, <2>2, <2>7 DEF SInv, CopiesCurrent, RowsCurrent, CountsBehind
    <3> QED
      BY <2>2, <2>3, <2>5, <3>1, MergedSettings
  <2>8. row.count <= served'[l] /\ served' \in [LinkId -> 0..MaxAccess]
    BY <1>0, <2>2, <2>3, <2>4 DEF TypeOK
  <2>9. /\ req[r].at \in {"access", "revoke", "update"}
        /\ asked'[l] \in Settings
        /\ UNCHANGED <<now, accesses, past>> /\ served'[l] = served[l]
        /\ \A k \in LinkId : k # l => served'[k] = served[k] /\ asked'[k] = asked[k]
    BY <2>2, <2>4, <2>5, <2>6
  <2>10. "overlap" \notin past => row.count = served'[l] /\ Merged(l, row, set) = asked'[l]
    BY <2>6, <2>7, <2>9
  <2>11. Become(r, Idle) /\ Saved(l, row, set)
    BY <2>4
  <2> QED
    BY <2>1, <2>6, <2>8, <2>9, <2>10, <2>11, SaveStep
<1>10. ASSUME NEW r \in Req, JobRead(r)
       PROVE  SInv'
  <2> DEFINE state == [at |-> "job", links |-> FindExpired]
  <2>1. state \in Request /\ Begin(r, state)
    BY <1>10 DEF JobRead, FindExpired, Request
  <2>2. \A l \in FindExpired : link[l] # Null /\ IsActive(link[l])
    BY DEF FindExpired
  <2> QED
    BY <2>1, <2>2, BeginStep
<1>11. ASSUME NEW r \in Req, JobCommit(r)
       PROVE  SInv'
  BY <1>11, JobStep
<1>12. ASSUME NEW r \in Req, Fail(r)
       PROVE  SInv'
  <2>1. /\ req[r] # Idle /\ Become(r, Idle) /\ past' = past \cup {"failure"}
        /\ UNCHANGED <<now, link, accesses, served, asked>>
    BY <1>12 DEF Fail
  <2>2. TypeOK'
    BY <1>0, <2>1 DEF TypeOK, Become
  <2>3. ASSUME NEW k \in LinkId
        PROVE  /\ IsFiniteSet(Pending(k)')
               /\ accesses[k] + Cardinality(Pending(k)') <= served[k]
    <3>1. Pending(k)' \subseteq Pending(k)
      <4>1. \A q \in Req : req'[q] = IF q = r THEN Idle ELSE req[q]
        BY <1>0, <2>1 DEF TypeOK, Become
      <4> QED
        BY <4>1 DEF Pending, Idle
    <3>2. /\ IsFiniteSet(Pending(k)) /\ Cardinality(Pending(k)) \in Nat
          /\ accesses[k] \in Nat /\ served[k] \in Nat
          /\ accesses[k] + Cardinality(Pending(k)) <= served[k]
      BY <1>0, FS_CardinalityType DEF EntriesKnown, TypeOK
    <3>3. /\ IsFiniteSet(Pending(k)') /\ Cardinality(Pending(k)') \in Nat
          /\ Cardinality(Pending(k)') <= Cardinality(Pending(k))
      BY <3>1, <3>2, FS_Subset, FS_CardinalityType
    <3> QED
      BY <3>2, <3>3
  <2>4. EntriesKnown'
    BY <2>1, <2>3 DEF EntriesKnown
  <2> QED
    BY <2>1, <2>2, <2>4, EndStep
<1>13. CASE UNCHANGED vars
  <2>1. UNCHANGED <<now, link, accesses, req, served, asked, past>>
    BY <1>13 DEF vars, history
  <2>2. TypeOK' /\ CountsBehind' /\ EntriesKnown'
    BY <1>0, <2>1 DEF TypeOK, CountsBehind, EntriesKnown, Pending
  <2>3. RowsCurrent /\ CopiesCurrent => RowsCurrent' /\ CopiesCurrent'
    BY <2>1 DEF RowsCurrent, CopiesCurrent, IsActive, HasReachedMaxAccess
  <2> QED
    BY <2>1, <2>2, <2>3 DEF SInv
<1> QED
  BY <1>1, <1>2, <1>3, <1>4, <1>5, <1>6, <1>7, <1>8, <1>9, <1>10, <1>11, <1>12, <1>13
     DEF Next, CreateShareLink, AccessShareLink, GetDownloadViaShare, RevokeShareLink,
         UpdateShareLink, ExpiryJob

-----------------------------------------------------------------------------
(* Theorems *)

\* The inductive invariant: counts, entries, and the copies requests hold.
THEOREM ShareLinksInvariant == Spec => []SInv
BY InitSInv, NextSInv, PTL DEF Spec

\* Every row and request keeps its shape; no count leaves its bounds.
THEOREM ShareLinksTypeCorrect == Spec => []TypeOK
<1>1. SInv => TypeOK
  BY DEF SInv
<1> QED
  BY <1>1, ShareLinksInvariant, PTL

\* AccessShareLinkQuery may lose a count to another access but never makes one
\* up, and its history misses no entry unless a request failed or is under way.
THEOREM BooksAlwaysAgree == Spec => []BooksAgree
<1>1. ASSUME SInv PROVE BooksAgree
  <2> SUFFICES ASSUME NEW l \in LinkId, link[l] # Null
               PROVE  /\ link[l].count <= served[l]
                      /\ "overlap" \notin past => /\ link[l].count = served[l]
                                                  /\ GetShareLinkHistory(l, 0, 0).total <= served[l]
                      /\ past = {} /\ (\A r \in Req : req[r] = Idle) =>
                           Cardinality(HistoryRows(l)) = served[l]
    BY DEF BooksAgree, ListShareLinks, FindByResource, FindByID
  <2>0. TypeOK /\ CountsBehind /\ EntriesKnown
    BY <1>1 DEF SInv
  <2>1. /\ IsFiniteSet(Pending(l)) /\ Cardinality(Pending(l)) \in Nat
        /\ accesses[l] \in Nat /\ served[l] \in Nat
        /\ accesses[l] <= MaxAccess
        /\ accesses[l] + Cardinality(Pending(l)) <= served[l]
    BY <2>0, FS_CardinalityType DEF EntriesKnown, TypeOK
  <2>2. link[l].count <= served[l]
    BY <2>0 DEF CountsBehind
  <2>3. GetShareLinkHistory(l, 0, 0).total <= served[l]
    BY <2>1 DEF GetShareLinkHistory, CountByShareLinkID
  <2>4. "overlap" \notin past => link[l].count = served[l]
    BY <1>1 DEF SInv, RowsCurrent
  <2>5. ASSUME past = {}, \A r \in Req : req[r] = Idle
        PROVE  Cardinality(HistoryRows(l)) = served[l]
    <3>1. Pending(l) = {}
      BY <2>5 DEF Pending, Idle
    <3>2. accesses[l] = served[l]
      BY <2>0, <2>1, <2>5, <3>1, FS_EmptySet DEF EntriesKnown
    <3>3. HistoryRows(l) = 1..accesses[l]
      <4>1. \A offset \in Nat :
              GetShareLinkHistory(l, 0, offset).rows
                = {n \in 1..accesses[l] : n > offset /\ n <= offset + 20}
        BY DEF GetShareLinkHistory, FindByShareLinkIDWithPagination,
               HistoryLimit, HistoryOffset, DefaultHistoryLimit
      <4>2. 0..CountByShareLinkID(l) \subseteq Nat
        BY <2>1 DEF CountByShareLinkID
      <4>3. ASSUME NEW n \in 1..accesses[l]
            PROVE  n \in HistoryRows(l)
        <5>1. n - 1 \in 0..CountByShareLinkID(l) /\ n - 1 \in Nat /\ n > n - 1 /\ n <= n - 1 + 20
          BY <2>1 DEF CountByShareLinkID
        <5>2. n \in GetShareLinkHistory(l, 0, n - 1).rows
          BY <4>1, <5>1
        <5> QED
          BY <5>1, <5>2 DEF HistoryRows
      <4> QED
        BY <4>1, <4>2, <4>3 DEF HistoryRows
    <3>4. Cardinality(1..accesses[l]) = accesses[l]
      <4>1. PICK n \in Nat : n = accesses[l]
        BY <2>1
      <4>2. n \in Int /\ 1 \in Int
        BY <4>1
      <4>3. Cardinality(1..n) = IF 1 > n THEN 0 ELSE n - 1 + 1
        BY <4>2, FS_Interval, Zenon
      <4> QED
        BY <4>1, <4>3
    <3> QED
      BY <3>2, <3>3, <3>4
  <2> QED
    BY <2>2, <2>3, <2>4, <2>5
<1> QED
  BY <1>1, ShareLinksInvariant, PTL

\* UpdateShareLinkCommand and COALESCE leave a link with the settings last asked
\* for, and an access that writes the row back brings no older ones.
THEOREM SettingsStay == Spec => []SettingsKept
<1>1. ASSUME SInv PROVE SettingsKept
  <2> SUFFICES ASSUME "overlap" \notin past, NEW l \in LinkId, link[l] # Null
               PROVE  /\ link[l].set = asked[l]
                      /\ GetShareLinkInfo(l).open =>
                           (GetShareLinkInfo(l).protected <=> asked[l].password # NoPassword)
    BY DEF SettingsKept, ListShareLinks, FindByResource, FindByID
  <2>1. link[l].set = asked[l]
    BY <1>1 DEF SInv, RowsCurrent
  <2> QED
    BY <2>1 DEF GetShareLinkInfo, FindByToken
<1> QED
  BY <1>1, ShareLinksInvariant, PTL

\* Only AccessCommit counts; only a request that writes a row touches another's
\* link, and then the one it read.
LEMMA WhoWrites ==
  ASSUME SInv, Next, NEW l \in LinkId
  PROVE  /\ served'[l] = served[l]
            \/ \E r \in Req : AccessCommit(r) /\ req[r].link = l
         /\ link[l] # Null =>
              \/ link'[l] = link[l]
              \/ \E r \in Req :
                   \/ /\ AccessCommit(r) \/ RevokeCommit(r) \/ UpdateCommit(r)
                      /\ req[r].link = l
                   \/ JobCommit(r) /\ l \in req[r].links
<1>0. TypeOK
  BY DEF SInv
<1>1. ASSUME NEW r \in Req, NEW k \in LinkId, Create(r, k)
      PROVE  served' = served /\ (link[l] # Null => link'[l] = link[l])
  BY <1>0, <1>1 DEF Create, Inserted, TypeOK
<1>2. ASSUME NEW r \in Req, AccessCommit(r), req[r].link # l
      PROVE  served'[l] = served[l] /\ link'[l] = link[l]
  BY <1>0, <1>2 DEF AccessCommit, Saved, TypeOK
<1>3. ASSUME NEW r \in Req, RevokeCommit(r)
      PROVE  served' = served /\ (req[r].link # l => link'[l] = link[l])
  BY <1>0, <1>3 DEF RevokeCommit, Saved, TypeOK, history
<1>4. ASSUME NEW r \in Req, UpdateCommit(r)
      PROVE  served' = served /\ (req[r].link # l => link'[l] = link[l])
  BY <1>0, <1>4 DEF UpdateCommit, Saved, TypeOK
<1>5. ASSUME NEW r \in Req, JobCommit(r)
      PROVE  served' = served /\ (l \notin req[r].links => link'[l] = link[l])
  BY <1>5 DEF JobCommit, history
<1>6. CASE served' = served /\ link' = link
  BY <1>6
<1> QED
  BY <1>1, <1>2, <1>3, <1>4, <1>5, <1>6
     DEF Next, Tick, CreateShareLink, AccessShareLink, GetDownloadViaShare, RevokeShareLink,
         UpdateShareLink, ExpiryJob, AccessRead, AccessLog, RevokeRead, UpdateRead, JobRead,
         Fail, Begin, history

\* R-SL005: RevokeShareLinkCommand and the expiry job close a link for good; the
\* writers that hold an older row found it active.
THEOREM ClosedStaysClosed == Spec => ClosedForGood
<1> DEFINE Closed == \A l \in LinkId :
                       "overlap" \notin past /\ link[l] # Null /\ link'[l].status # link[l].status =>
                         IsActive(link[l])
<1>1. ASSUME SInv, [Next]_vars
      PROVE  [Closed]_vars
  <2> SUFFICES ASSUME NEW l \in LinkId, "overlap" \notin past, link[l] # Null,
                      link'[l] # link[l], Next
               PROVE  IsActive(link[l])
    BY <1>1 DEF vars
  <2>1. CopiesCurrent
    BY <1>1 DEF SInv
  <2>2. ASSUME NEW r \in Req, AccessCommit(r) \/ RevokeCommit(r) \/ UpdateCommit(r),
               req[r].link = l
        PROVE  IsActive(link[l])
    BY <2>1, <2>2 DEF AccessCommit, RevokeCommit, UpdateCommit, CopiesCurrent
  <2>3. ASSUME NEW r \in Req, JobCommit(r), l \in req[r].links
        PROVE  IsActive(link[l])
    BY <2>1, <2>3 DEF JobCommit, CopiesCurrent
  <2> QED
    BY <1>1, <2>2, <2>3, WhoWrites
<1> HIDE DEF Closed
<1>2. Spec => [][Closed]_vars
  BY <1>1, ShareLinksInvariant, PTL DEF Spec
<1> QED
  BY <1>2 DEF Closed, ClosedForGood

\* R-SL004: ShareLink.HasReachedMaxAccess, asked of the row an access read, keeps
\* the accesses below the limit last set.
THEOREM LimitIsKept == Spec => LimitHolds
<1> DEFINE Kept == \A l \in LinkId :
                     "overlap" \notin past /\ served'[l] > served[l] =>
                       asked[l].limit = Null \/ served[l] < asked[l].limit
<1>1. ASSUME SInv, [Next]_vars
      PROVE  [Kept]_vars
  <2> SUFFICES ASSUME NEW l \in LinkId, "overlap" \notin past, served'[l] > served[l], Next
               PROVE  asked[l].limit = Null \/ served[l] < asked[l].limit
    BY <1>1 DEF vars
  <2>0. TypeOK /\ CountsBehind /\ RowsCurrent /\ CopiesCurrent
    BY <1>1 DEF SInv
  <2>1. served[l] \in Nat
    BY <2>0 DEF TypeOK
  <2>2. served'[l] # served[l]
    BY <2>1
  <2>3. PICK r \in Req : AccessCommit(r) /\ req[r].link = l
    BY <1>1, <2>2, WhoWrites
  <2>4. /\ link[l] # Null /\ req[r].row = link[l] /\ ~HasReachedMaxAccess(link[l])
        /\ link[l].set = asked[l] /\ link[l].count = served[l] /\ asked[l] \in Settings
    BY <2>0, <2>3 DEF AccessCommit, CountsBehind, CopiesCurrent, RowsCurrent
  <2>5. asked[l].limit = Null \/ asked[l].limit \in Nat
    BY <2>4, ShareLinksAssumption DEF Settings, Limit
  <2> QED
    BY <2>1, <2>4, <2>5 DEF HasReachedMaxAccess
<1> HIDE DEF Kept
<1>2. Spec => [][Kept]_vars
  BY <1>1, ShareLinksInvariant, PTL DEF Spec
<1> QED
  BY <1>2 DEF Kept, LimitHolds
=============================================================================
