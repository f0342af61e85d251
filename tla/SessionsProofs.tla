--------------------------- MODULE SessionsProofs ---------------------------
(***************************************************************************)
(* What Sessions keeps for every number of sessions, requests, passwords   *)
(* and every length of the times: the lifetime of a session however its    *)
(* key is saved again; and, as long as requests do not overlap, that the   *)
(* list knows the sessions there are, and that they follow the password.   *)
(*                                                                         *)
(* Three inductive invariants, each built on the one before.               *)
(***************************************************************************)
EXTENDS Sessions, FiniteSetTheorems, TLAPS

Opened == {s \in SessionId : opened[s] # NoKey}

\* A request in this state holds sessions that were opened, as they were when
\* the clock of their login stood where it did.
Sound(q) ==
  /\ q.at \in {"auth_save", "authorized", "keep", "logout"} => q.session \in Opened
  /\ q.at \in {"auth_save", "authorized"} => q.checked <= opened[q.session].at + MaxLifetime
  /\ q.at = "auth_save" => q.was.created = opened[q.session].at
  /\ q.at \in {"revoke_list", "revoke", "keep_save"} =>
       \A k \in q.keep : k.id \in Opened /\ k.was.created = opened[k.id].at

\* Whatever overlaps: nothing is known but what a login opened, and no copy is
\* younger than its login.
Lineage ==
  /\ Live \cup list \cup expelled \cup ended \subseteq Opened
  /\ IsFiniteSet(list)
  /\ \A s \in Live : data[s].created = opened[s].at
  /\ \A r \in Req : Sound(req[r])

Base == TypeOK /\ Lineage

\* There is room for a session, if it is not there anyway.
Room(s) == Cardinality(Live \ {s}) < MaxSessions

\* The sessions a request in this state may still save.
Carried(q) ==
  {s \in SessionId :
     \/ q.at \in {"auth_save", "authorized", "keep"} /\ q.session = s
     \/ q.at \in {"revoke_list", "revoke", "keep_save"} /\ \E k \in q.keep : k.id = s}

Fits(q) ==
  /\ \A s \in Carried(q) : s \notin expelled \cup ended /\ Room(s)
  /\ q.at = "login_evict" => Room(q.session)
  /\ q.at = "login_save" => Cardinality(Live) < MaxSessions
  /\ q.at = "revoke" => Live \subseteq q.ids

\* One request at a time: what it is to save is neither logged out nor about to
\* be swept off the list, and there is room.
Orderly ==
  /\ \A r, q \in Req : req[r] # Idle /\ req[q] # Idle => r = q
  /\ Live \subseteq list \ expelled
  /\ Cardinality(Live) <= MaxSessions
  /\ ended \cap Live = {}
  /\ \A r \in Req : Fits(req[r])

\* Between the change of the password and the revocation, sessions are behind.
Behind == \E r \in Req : req[r].at \in {"keep", "revoke_list", "revoke"}

\* And nothing failed: what is there and what is to be saved is up to date.
UpToDate ==
  /\ Behind \/ \A s \in Live : opened[s].password = password
  /\ \A r \in Req :
       /\ req[r].at = "auth_save" => opened[req[r].session].password = password
       /\ req[r].at \in {"login_count", "login_list", "login_evict", "login_save"} =>
            req[r].password = password

SessionInv ==
  /\ Base
  /\ "overlap" \notin past => Orderly
  /\ past = {} => UpToDate

-----------------------------------------------------------------------------
(* Shapes *)

LEMMA RequestShape ==
  ASSUME TypeOK, NEW r \in Req
  PROVE  /\ req[r] \in Request \cup {Idle}
         /\ req[r] = Idle <=> req[r].at = "idle"
         /\ req[r].at \in {"login_count", "login_list", "login_save", "login_evict"} =>
              req[r].password \in 1..MaxPassword
         /\ req[r].at \in {"login_evict", "auth_save", "authorized", "logout", "keep"} =>
              req[r].session \in SessionId
         /\ req[r].at = "auth_save" => req[r].was \in Session
         /\ req[r].at \in {"auth_save", "authorized"} => req[r].checked \in 0..MaxTime
         /\ req[r].at \in {"revoke_list", "revoke", "keep_save"} => req[r].keep \subseteq Kept
         /\ req[r].at = "revoke" => req[r].ids \subseteq SessionId
BY DEF TypeOK, Request, Idle

LEMMA NowIsTime ==
  ASSUME TypeOK
  PROVE  /\ now \in Nat /\ now \in Time /\ now + Ttl \in Time /\ now + Ttl > now
         /\ Time \subseteq Nat /\ Ttl \in Nat /\ MaxLifetime \in Nat
BY SessionsAssumption DEF TypeOK, Time

LEMMA Becomes ==
  ASSUME TypeOK, NEW r \in Req, NEW state \in Request \cup {Idle}, Become(r, state)
  PROVE  /\ req' \in [Req -> Request \cup {Idle}]
         /\ req'[r] = state
         /\ \A q \in Req : q # r => req'[q] = req[q]
BY DEF TypeOK, Become

\* What SessionStore.Save leaves in Redis.
LEMMA StoredKeyLives ==
  ASSUME TypeOK, NEW s \in SessionId, NEW e, e.created \in Time, e.expires \in Time, Stored(s, e)
  PROVE  /\ data' \in [SessionId -> Session \cup {NoKey}]
         /\ data'[s] # NoKey /\ data'[s].created = e.created /\ now < data'[s].until
         /\ \A t \in SessionId : t # s => data'[t] = data[t]
         /\ list' = list \cup {s}
<1> DEFINE until == IF e.expires > now THEN e.expires ELSE now + Ttl
           key == [created |-> e.created, expires |-> e.expires, until |-> until]
<1>1. until \in Time /\ now < until
  BY NowIsTime
<1>2. key \in Session /\ key.created = e.created /\ key.until = until
  BY <1>1 DEF Session
<1>3. key # NoKey
  BY <1>2, SessionsAssumption
<1>4. data' = [data EXCEPT ![s] = key] /\ list' = list \cup {s}
  BY DEF Stored
<1> HIDE DEF until, key
<1>5. /\ data' \in [SessionId -> Session \cup {NoKey}]
      /\ data'[s] = key
      /\ \A t \in SessionId : t # s => data'[t] = data[t]
  BY <1>2, <1>4 DEF TypeOK
<1> QED
  BY <1>1, <1>2, <1>3, <1>4, <1>5

\* What the pipelines of Delete leave.
LEMMA DeletedKeys ==
  ASSUME TypeOK, NEW ids, NEW rest, Deleted(ids, rest)
  PROVE  /\ data' \in [SessionId -> Session \cup {NoKey}]
         /\ \A s \in SessionId : data'[s] = IF s \in ids THEN NoKey ELSE data[s]
         /\ list' = rest
BY DEF Deleted, TypeOK

-----------------------------------------------------------------------------
(* Lineage *)

\* A request that is sound stays so: openings stay, and their time with them.
LEMMA SoundStays ==
  ASSUME \A s \in Opened : s \in Opened' /\ opened'[s].at = opened[s].at
  PROVE  \A q : Sound(q) => Sound(q)'
BY DEF Sound

\* A step of a request that keeps the keys or some of them.
LEMMA KeepingStep ==
  ASSUME Base, NEW r \in Req, NEW state \in Request \cup {Idle}, Become(r, state), Sound(state),
         UNCHANGED <<now, opened>>, password' \in 1..MaxPassword,
         data' \in [SessionId -> Session \cup {NoKey}],
         \A s \in SessionId : data'[s] \in {data[s], NoKey},
         list' \subseteq list, expelled' \subseteq Opened, ended' \subseteq Opened,
         past' \subseteq {"overlap", "failure"}
  PROVE  Base'
<1>0. TypeOK /\ Lineage
  BY DEF Base
<1>1. TypeOK'
  BY <1>0, Becomes DEF TypeOK, Opened
<1>2. \A q \in Req : Sound(req[q])'
  <2>1. \A q \in Req : req'[q] \in {req[q], state}
    BY <1>0, Becomes
  <2>2. \A q : Sound(q) => Sound(q)'
    BY SoundStays DEF Opened
  <2>3. ASSUME NEW q \in Req PROVE Sound(req[q])'
    <3>1. PICK p : p = req'[q]
      OBVIOUS
    <3>2. Sound(p)
      BY <1>0, <2>1, <3>1 DEF Lineage
    <3>3. Sound(p)'
      BY <2>2, <3>2
    <3> QED
      BY <3>1, <3>3 DEF Sound
  <2> QED
    BY <2>3
<1>3. IsFiniteSet(list')
  BY <1>0, FS_Subset DEF Lineage
<1>4. Lineage'
  BY <1>0, <1>2, <1>3 DEF Lineage, Live, Opened
<1> QED
  BY <1>1, <1>4 DEF Base

\* A step of a request that saves a session.
LEMMA SavingStep ==
  ASSUME Base, NEW r \in Req, NEW state \in Request \cup {Idle}, Become(r, state), Sound(state)',
         NEW s \in SessionId, NEW e, e.created \in Time, e.expires \in Time, Stored(s, e),
         UNCHANGED <<now, password, expelled, ended, past>>,
         opened' \in [SessionId -> Opening \cup {NoKey}],
         \A t \in Opened : t \in Opened' /\ opened'[t].at = opened[t].at,
         s \in Opened' /\ e.created = opened'[s].at
  PROVE  Base'
<1>0. TypeOK /\ Lineage
  BY DEF Base
<1>1. /\ data' \in [SessionId -> Session \cup {NoKey}]
      /\ data'[s] # NoKey /\ data'[s].created = e.created /\ now < data'[s].until
      /\ \A t \in SessionId : t # s => data'[t] = data[t]
      /\ list' = list \cup {s}
  BY <1>0, StoredKeyLives
<1>2. TypeOK'
  <2>1. req' \in [Req -> Request \cup {Idle}]
    BY <1>0, Becomes
  <2>2. \A t \in SessionId : data'[t] # NoKey => now < data'[t].until
    BY <1>0, <1>1 DEF TypeOK
  <2> QED
    BY <1>0, <1>1, <2>1, <2>2 DEF TypeOK
<1>3. \A q \in Req : Sound(req[q])'
  <2> SUFFICES ASSUME NEW q \in Req PROVE Sound(req[q])'
    OBVIOUS
  <2>1. PICK p : p = req'[q]
    OBVIOUS
  <2>2. p = state \/ p = req[q]
    BY <1>0, <2>1, Becomes
  <2>3. Sound(req[q])
    BY <1>0 DEF Lineage
  <2>4. Sound(p)'
    BY <2>2, <2>3, SoundStays
  <2> QED
    BY <2>1, <2>4 DEF Sound
<1>4. IsFiniteSet(list')
  BY <1>0, <1>1, FS_AddElement DEF Lineage
<1>5. Live' = Live \cup {s} /\ Live \subseteq SessionId
  BY <1>1 DEF Live
<1>6. \A t \in Live' : data'[t].created = opened'[t].at
  BY <1>0, <1>1, <1>5 DEF Lineage
<1>7. Live' \cup list' \cup expelled' \cup ended' \subseteq Opened'
  BY <1>0, <1>1, <1>5 DEF Lineage
<1> QED
  BY <1>2, <1>3, <1>4, <1>6, <1>7 DEF Base, Lineage

\* Whatever step comes next, and whatever it overlaps, openings, copies and keys
\* stay together.
LEMMA NextBase == Base /\ [Next]_vars => Base'
<1> SUFFICES ASSUME Base, [Next]_vars PROVE Base'
  OBVIOUS
<1>0. TypeOK /\ Lineage
  BY DEF Base
<1> DEFINE Quiet == UNCHANGED <<now, data, list, expelled, opened, ended>>
<1>a. ASSUME NEW r \in Req, NEW state \in Request \cup {Idle}, Become(r, state), Sound(state),
             Quiet, password' \in 1..MaxPassword, past' \subseteq {"overlap", "failure"}
      PROVE  Base'
  <2>1. /\ data' \in [SessionId -> Session \cup {NoKey}]
        /\ \A s \in SessionId : data'[s] \in {data[s], NoKey}
        /\ list' \subseteq list /\ expelled' \subseteq Opened /\ ended' \subseteq Opened
        /\ UNCHANGED <<now, opened>>
    BY <1>0, <1>a DEF TypeOK, Lineage
  <2> QED
    BY <1>a, <2>1, KeepingStep
<1>b. ASSUME NEW r \in Req, NEW state \in Request \cup {Idle}, Begin(r, state), Sound(state)
      PROVE  Base'
  <2>1. /\ Become(r, state) /\ Quiet /\ password' \in 1..MaxPassword
        /\ past' \subseteq {"overlap", "failure"}
    BY <1>0, <1>b DEF Begin, TypeOK, store
  <2> QED
    BY <1>b, <2>1, <1>a
<1>c. ASSUME NEW r \in Req, NEW state \in Request \cup {Idle}, Proceed(r, state), Sound(state)
      PROVE  Base'
  <2>1. /\ Become(r, state) /\ Quiet /\ password' \in 1..MaxPassword
        /\ past' \subseteq {"overlap", "failure"}
    BY <1>0, <1>c DEF Proceed, TypeOK, store, history
  <2> QED
    BY <1>c, <2>1, <1>a
<1>d. Sound(Idle) /\ Idle \in Request \cup {Idle}
  BY DEF Sound, Idle
<1> HIDE DEF Quiet
<1>1. CASE Tick
  <2>1. /\ now' \in 0..MaxTime
        /\ data' \in [SessionId -> Session \cup {NoKey}]
        /\ \A s \in SessionId : data'[s] # NoKey => data'[s] = data[s] /\ now' < data'[s].until
        /\ UNCHANGED <<password, list, expelled, req, opened, ended, past>>
    <3>1. now \in Nat /\ now' = now + 1 /\ now' \in 0..MaxTime
      BY <1>0, <1>1, SessionsAssumption DEF Tick, TypeOK
    <3>2. \A s \in SessionId : data[s] # NoKey => data[s].until \in Nat
      BY <1>0, NowIsTime DEF TypeOK, Session
    <3> QED
      BY <1>0, <1>1, <3>1, <3>2 DEF Tick, TypeOK, history
  <2>2. TypeOK'
    BY <1>0, <2>1 DEF TypeOK
  <2>3. Lineage'
    BY <1>0, <2>1 DEF Lineage, Live, Opened, Sound
  <2> QED
    BY <2>2, <2>3 DEF Base
<1>2. CASE Sweep
  <2>1. /\ list' \subseteq list /\ expelled' = {}
        /\ UNCHANGED <<now, password, data, req, opened, ended, past>>
    BY <1>2 DEF Sweep, history
  <2>2. TypeOK'
    BY <1>0, <2>1 DEF TypeOK
  <2>3. IsFiniteSet(list')
    BY <1>0, <2>1, FS_Subset DEF Lineage
  <2>4. Lineage'
    BY <1>0, <2>1, <2>3 DEF Lineage, Live, Opened, Sound
  <2> QED
    BY <2>2, <2>4 DEF Base
<1>3. ASSUME NEW r \in Req, LoginRead(r)
      PROVE  Base'
  <2> DEFINE state == [at |-> "login_count", password |-> password]
  <2>1. state \in Request /\ Sound(state)
    BY <1>0 DEF TypeOK, Request, Sound
  <2> QED
    BY <1>3, <2>1, <1>b DEF LoginRead
<1>4. ASSUME NEW r \in Req, LoginCount(r)
      PROVE  Base'
  <2>1. PICK at \in {"login_list", "login_save"} : Proceed(r, [req[r] EXCEPT !.at = at])
    BY <1>4 DEF LoginCount
  <2> DEFINE state == [req[r] EXCEPT !.at = at]
  <2>2. state \in Request /\ state.at = at
    BY <1>0, <1>4, <2>1 DEF LoginCount, TypeOK, Request, Idle
  <2>3. Sound(state)
    BY <2>1, <2>2 DEF Sound
  <2> HIDE DEF state
  <2> QED
    BY <2>1, <2>2, <2>3, <1>c DEF state
<1>5. ASSUME NEW r \in Req, LoginList(r)
      PROVE  Base'
  <2>1. /\ UNCHANGED <<now, password, data, list, opened, ended, past>>
        /\ expelled' \subseteq expelled \cup list /\ req[r].at = "login_list"
        /\ req[r].password \in 1..MaxPassword
    BY <1>0, <1>5, RequestShape DEF LoginList, history
  <2>2. /\ expelled' \subseteq Opened /\ ended' \subseteq Opened /\ list' \subseteq list
        /\ UNCHANGED <<now, opened>>
        /\ data' \in [SessionId -> Session \cup {NoKey}]
        /\ \A s \in SessionId : data'[s] \in {data[s], NoKey}
        /\ password' \in 1..MaxPassword /\ past' \subseteq {"overlap", "failure"}
    BY <1>0, <2>1 DEF Lineage, TypeOK
  <2>3. PICK state : /\ Become(r, state)
                     /\ \/ state = [req[r] EXCEPT !.at = "login_save"]
                        \/ \E s \in SessionId :
                             state = [at |-> "login_evict", password |-> req[r].password, session |-> s]
    BY <1>5 DEF LoginList, Live
  <2>4. CASE state = [req[r] EXCEPT !.at = "login_save"]
    <3>1. state \in Request /\ state.at = "login_save"
      BY <1>0, <2>1, <2>4 DEF TypeOK, Request, Idle
    <3>2. Sound(state)
      BY <3>1 DEF Sound
    <3> QED
      BY <2>2, <2>3, <3>1, <3>2, KeepingStep
  <2>5. ASSUME NEW s \in SessionId,
               state = [at |-> "login_evict", password |-> req[r].password, session |-> s]
        PROVE  Base'
    <3>1. state \in Request /\ Sound(state)
      BY <2>1, <2>5 DEF Request, Sound
    <3> QED
      BY <2>2, <2>3, <3>1, KeepingStep
  <2> QED
    BY <2>3, <2>4, <2>5
<1>k. ASSUME NEW r \in Req, NEW state \in Request \cup {Idle}, Become(r, state), Sound(state),
             UNCHANGED <<now, opened, expelled, past>>, password' \in 1..MaxPassword,
             NEW ids, NEW rest, Deleted(ids, rest), rest \subseteq list,
             ended' \subseteq Opened
      PROVE  Base'
  <2>1. /\ data' \in [SessionId -> Session \cup {NoKey}]
        /\ \A s \in SessionId : data'[s] \in {data[s], NoKey}
        /\ list' \subseteq list
    BY <1>0, <1>k, DeletedKeys
  <2>2. expelled' \subseteq Opened /\ past' \subseteq {"overlap", "failure"} /\ UNCHANGED <<now, opened>>
    BY <1>0, <1>k DEF Lineage, TypeOK
  <2> QED
    BY <1>k, <2>1, <2>2, KeepingStep
<1>6. ASSUME NEW r \in Req, LoginEvict(r)
      PROVE  Base'
  <2> DEFINE state == [at |-> "login_save", password |-> req[r].password]
  <2>1. /\ Become(r, state)
        /\ UNCHANGED <<now, opened, expelled, ended, past, password>>
        /\ password' \in 1..MaxPassword
    BY <1>0, <1>6 DEF LoginEvict, history, TypeOK
  <2>2. state \in Request /\ Sound(state)
    BY <1>0, <1>6, RequestShape DEF LoginEvict, Request, Sound
  <2>3. CASE UNCHANGED <<data, list>>
    <3>1. Quiet /\ past' \subseteq {"overlap", "failure"}
      BY <1>0, <2>1, <2>3 DEF Quiet, TypeOK
    <3> QED
      BY <2>1, <2>2, <3>1, <1>a
  <2>4. CASE Deleted({req[r].session}, list \ {req[r].session})
    <3>1. PICK s : s = req[r].session
      OBVIOUS
    <3>2. Deleted({s}, list \ {s}) /\ ended' \subseteq Opened
      BY <1>0, <2>1, <2>4, <3>1 DEF Lineage
    <3> HIDE DEF state
    <3> QED
      BY <2>1, <2>2, <3>2, <1>k
  <2> QED
    BY <1>6, <2>3, <2>4 DEF LoginEvict
<1>7. ASSUME NEW r \in Req, LoginSave(r)
      PROVE  Base'
  <2>1. PICK s \in SessionId :
          /\ opened[s] = NoKey
          /\ Stored(s, [created |-> now, expires |-> now + Ttl])
          /\ opened' = [opened EXCEPT ![s] = [at |-> now, password |-> req[r].password]]
    BY <1>7 DEF LoginSave
  <2>2. Become(r, Idle) /\ UNCHANGED <<now, password, expelled, ended, past>>
    BY <1>7 DEF LoginSave
  <2>3. PICK o : o = [at |-> now, password |-> req[r].password]
    OBVIOUS
  <2>4. o \in Opening /\ o # NoKey /\ o.at = now
    <3>1. o \in Opening /\ o.at = now
      BY <1>0, <1>7, <2>3, NowIsTime, RequestShape DEF LoginSave, Opening
    <3> QED
      BY <3>1, SessionsAssumption
  <2>5. /\ opened' \in [SessionId -> Opening \cup {NoKey}]
        /\ opened'[s] = o
        /\ \A t \in SessionId : t # s => opened'[t] = opened[t]
    BY <1>0, <2>1, <2>3, <2>4 DEF TypeOK
  <2>6. /\ \A t \in Opened : t \in Opened' /\ opened'[t].at = opened[t].at
        /\ s \in Opened' /\ now = opened'[s].at
    BY <2>1, <2>4, <2>5 DEF Opened
  <2>7. Sound(Idle)'
    BY DEF Sound, Idle
  <2> DEFINE e == [created |-> now, expires |-> now + Ttl]
  <2>8. e.created = now /\ e.created \in Time /\ e.expires \in Time /\ Stored(s, e)
    BY <1>0, <2>1, NowIsTime
  <2> HIDE DEF e
  <2> QED
    BY <1>d, <2>2, <2>5, <2>6, <2>7, <2>8, SavingStep
<1>8. ASSUME NEW r \in Req, NEW s \in SessionId, s \in Live, ~IsExpired(data[s]), Present(r, s)
      PROVE  Base'
  <2>1. PICK state : state = [at |-> "auth_save", session |-> s, was |-> data[s], checked |-> now]
    OBVIOUS
  <2>2. data[s] \in Session /\ s \in Opened /\ data[s].created = opened[s].at
    BY <1>0, <1>8 DEF Lineage, Live, TypeOK
  <2>3. state \in Request
    BY <1>0, <2>1, <2>2 DEF Request, TypeOK
  <2>4. now <= opened[s].at + MaxLifetime
    BY <1>0, <1>8, <2>2, NowIsTime DEF IsExpired, Session
  <2>5. Sound(state)
    BY <2>1, <2>2, <2>4 DEF Sound
  <2> QED
    BY <1>8, <2>1, <2>3, <2>5, <1>b DEF Present
<1>9. ASSUME NEW r \in Req, NEW s \in SessionId, Authenticate(r, s) \/ OptionalAuth(r, s)
      PROVE  Base'
  <2>1. s \in Live
    BY <1>9 DEF Authenticate, OptionalAuth
  <2>2. CASE ~IsExpired(data[s])
    BY <1>8, <1>9, <2>1, <2>2 DEF Authenticate, OptionalAuth
  <2>3. CASE IsExpired(data[s])
    <3>1. PICK state : state = [at |-> "logout", session |-> s]
      OBVIOUS
    <3>2. state \in Request /\ Sound(state)
      BY <1>0, <2>1, <3>1 DEF Request, Sound, Lineage
    <3> QED
      BY <1>9, <2>3, <3>1, <3>2, <1>b DEF Authenticate, OptionalAuth
  <2> QED
    BY <2>2, <2>3
<1>10. ASSUME NEW r \in Req, AuthSave(r)
       PROVE  Base'
  <2>1. PICK s, was, checked : s = req[r].session /\ was = req[r].was /\ checked = req[r].checked
    OBVIOUS
  <2>2. /\ s \in SessionId /\ was \in Session /\ checked \in 0..MaxTime
        /\ s \in Opened /\ was.created = opened[s].at /\ checked <= opened[s].at + MaxLifetime
    BY <1>0, <1>10, <2>1, RequestShape DEF AuthSave, Lineage, Sound
  <2>3. PICK state : state = [at |-> "authorized", session |-> s, checked |-> checked]
    OBVIOUS
  <2>4. state \in Request /\ Sound(state)
    BY <2>2, <2>3 DEF Request, Sound
  <2>5. /\ Become(r, state)
        /\ UNCHANGED <<now, password, expelled, opened, ended, past>>
    BY <1>10, <2>1, <2>3 DEF AuthSave, history
  <2>6. CASE UNCHANGED <<data, list>>
    <3>1. Quiet /\ password' \in 1..MaxPassword /\ past' \subseteq {"overlap", "failure"}
      BY <1>0, <2>5, <2>6 DEF Quiet, TypeOK
    <3> QED
      BY <2>4, <2>5, <3>1, <1>a
  <2>7. CASE Stored(s, Refresh(was))
    <3>1. /\ Refresh(was).created = was.created /\ was.created \in Time
          /\ Refresh(was).expires \in Time
      BY <1>0, <2>2, NowIsTime DEF Refresh, Session
    <3>2. /\ opened' \in [SessionId -> Opening \cup {NoKey}]
          /\ \A t \in Opened : t \in Opened' /\ opened'[t].at = opened[t].at
          /\ s \in Opened' /\ was.created = opened'[s].at
      BY <1>0, <2>2, <2>5 DEF TypeOK, Opened
    <3>3. Sound(state)'
      BY <2>4, <3>2, SoundStays
    <3>4. PICK e : e = Refresh(was)
      OBVIOUS
    <3>5. Stored(s, e) /\ e.created = was.created /\ e.created \in Time /\ e.expires \in Time
      BY <2>7, <3>1, <3>4
    <3> QED
      BY <2>2, <2>4, <2>5, <3>2, <3>3, <3>5, SavingStep
  <2> QED
    BY <1>10, <2>1, <2>6, <2>7 DEF AuthSave
<1>11. ASSUME NEW r \in Req, Serve(r)
       PROVE  Base'
  BY <1>11, <1>c, <1>d DEF Serve
<1>12. ASSUME NEW r \in Req, LogoutBegin(r)
       PROVE  Base'
  <2>1. PICK state : state = [at |-> "logout", session |-> req[r].session]
    OBVIOUS
  <2>2. state \in Request /\ Sound(state)
    BY <1>0, <1>12, <2>1, RequestShape DEF LogoutBegin, Request, Sound, Lineage
  <2> QED
    BY <1>12, <2>1, <2>2, <1>c DEF LogoutBegin
<1>13. ASSUME NEW r \in Req, LogoutCommit(r)
       PROVE  Base'
  <2>1. PICK s : s = req[r].session
    OBVIOUS
  <2>2. s \in Opened
    BY <1>0, <1>13, <2>1 DEF LogoutCommit, Lineage, Sound
  <2>3. /\ Become(r, Idle) /\ UNCHANGED <<now, opened, expelled, past, password>>
        /\ Deleted({s}, list \ {s}) /\ ended' = ended \cup {s}
    BY <1>13, <2>1 DEF LogoutCommit, Logout
  <2>4. ended' \subseteq Opened /\ password' \in 1..MaxPassword
    BY <1>0, <2>2, <2>3 DEF Lineage, TypeOK
  <2> QED
    BY <1>d, <2>3, <2>4, <1>k
<1>14. ASSUME NEW r \in Req, ChangePassword(r)
       PROVE  Base'
  <2>1. PICK state : state = [at |-> "keep", session |-> req[r].session]
    OBVIOUS
  <2>2. state \in Request /\ Sound(state)
    BY <1>0, <1>14, <2>1, RequestShape DEF ChangePassword, Request, Sound, Lineage
  <2>3. /\ Become(r, state) /\ Quiet /\ past' \subseteq {"overlap", "failure"}
        /\ password' \in 1..MaxPassword
    BY <1>0, <1>14, <2>1, SessionsAssumption DEF ChangePassword, Quiet, store, history, TypeOK
  <2> QED
    BY <2>2, <2>3, <1>a
<1>15. ASSUME NEW r \in Req, Keep(r)
       PROVE  Base'
  <2>1. PICK s, keep : /\ s = req[r].session
                       /\ keep = IF s \in Live THEN {[id |-> s, was |-> data[s]]} ELSE {}
    OBVIOUS
  <2>2. PICK state : state = [at |-> "revoke_list", keep |-> keep]
    OBVIOUS
  <2>3. Proceed(r, state)
    BY <1>15, <2>1, <2>2 DEF Keep
  <2>4. s \in Live => s \in SessionId /\ data[s] \in Session
    BY <1>0 DEF Live, TypeOK
  <2>5. /\ keep \subseteq Kept
        /\ \A k \in keep : k.id \in Opened /\ k.was.created = opened[k.id].at
    BY <1>0, <2>1, <2>4 DEF Kept, Lineage
  <2>6. state \in Request /\ Sound(state)
    BY <2>2, <2>5 DEF Request, Sound
  <2> QED
    BY <2>3, <2>6, <1>c
<1>16. ASSUME NEW r \in Req, ResetPassword(r)
       PROVE  Base'
  <2>1. PICK state : state = [at |-> "reset"]
    OBVIOUS
  <2>2. state \in Request /\ Sound(state)
    BY <2>1 DEF Request, Sound
  <2> QED
    BY <1>16, <2>1, <2>2, <1>b DEF ResetPassword
<1>17. ASSUME NEW r \in Req, ResetCommit(r)
       PROVE  Base'
  <2>1. PICK state : state = [at |-> "revoke_list", keep |-> {}]
    OBVIOUS
  <2>2. state \in Request /\ Sound(state)
    BY <2>1 DEF Request, Sound, Kept
  <2>3. /\ Become(r, state) /\ Quiet /\ past' \subseteq {"overlap", "failure"}
        /\ password' \in 1..MaxPassword
    BY <1>0, <1>17, <2>1, SessionsAssumption DEF ResetCommit, Quiet, store, history, TypeOK
  <2> QED
    BY <2>2, <2>3, <1>a
<1>18. ASSUME NEW r \in Req, RevokeList(r)
       PROVE  Base'
  <2>1. PICK keep : keep = req[r].keep
    OBVIOUS
  <2>2. PICK state : state = [at |-> "revoke", keep |-> keep, ids |-> list]
    OBVIOUS
  <2>3. /\ keep \subseteq Kept /\ list \subseteq SessionId
        /\ \A k \in keep : k.id \in Opened /\ k.was.created = opened[k.id].at
    BY <1>0, <1>18, <2>1, RequestShape DEF RevokeList, Lineage, Sound, TypeOK
  <2>4. state \in Request /\ Sound(state)
    BY <2>2, <2>3 DEF Request, Sound
  <2> QED
    BY <1>18, <2>1, <2>2, <2>4, <1>c DEF RevokeList
<1>19. ASSUME NEW r \in Req, RevokeCommit(r)
       PROVE  Base'
  <2>1. PICK keep, ids : keep = req[r].keep /\ ids = req[r].ids
    OBVIOUS
  <2>2. PICK state : state = IF keep = {} THEN Idle ELSE [at |-> "keep_save", keep |-> keep]
    OBVIOUS
  <2>3. /\ keep \subseteq Kept
        /\ \A k \in keep : k.id \in Opened /\ k.was.created = opened[k.id].at
    BY <1>0, <1>19, <2>1, RequestShape DEF RevokeCommit, Lineage, Sound
  <2>4. state \in Request \cup {Idle} /\ Sound(state)
    BY <2>2, <2>3, <1>d DEF Request, Sound
  <2>5. /\ Become(r, state) /\ Revoke(ids)
        /\ UNCHANGED <<now, password, expelled, opened, ended, past>>
        /\ password' \in 1..MaxPassword /\ ended' \subseteq Opened
        /\ past' \subseteq {"overlap", "failure"}
    BY <1>0, <1>19, <2>1, <2>2 DEF RevokeCommit, history, TypeOK, Lineage
  <2>6. CASE UNCHANGED <<data, list>>
    BY <2>4, <2>5, <2>6, <1>a DEF Quiet
  <2>7. CASE Deleted(ids, {})
    BY <2>4, <2>5, <2>7, <1>k
  <2> QED
    BY <2>5, <2>6, <2>7 DEF Revoke
<1>20. ASSUME NEW r \in Req, KeepSave(r)
       PROVE  Base'
  <2>1. PICK k \in req[r].keep :
          /\ Stored(k.id, k.was)
          /\ opened' = [opened EXCEPT ![k.id].password = password]
    BY <1>20 DEF KeepSave
  <2>2. PICK s, e : s = k.id /\ e = k.was
    OBVIOUS
  <2>3. k \in Kept /\ s \in SessionId /\ e \in Session
    BY <1>0, <1>20, <2>1, <2>2, RequestShape DEF KeepSave, Kept
  <2>4. s \in Opened /\ e.created = opened[s].at
    BY <1>0, <1>20, <2>1, <2>2 DEF KeepSave, Lineage, Sound
  <2>5. PICK o : o = [opened[s] EXCEPT !.password = password]
    OBVIOUS
  <2>6. o \in Opening /\ o.at = opened[s].at
    BY <1>0, <2>4, <2>5 DEF Opened, Opening, TypeOK
  <2>7. o # NoKey
    BY <2>6, SessionsAssumption
  <2>8. /\ opened' \in [SessionId -> Opening \cup {NoKey}]
        /\ opened'[s] = o
        /\ \A t \in SessionId : t # s => opened'[t] = opened[t]
    BY <1>0, <2>1, <2>2, <2>3, <2>5, <2>6 DEF TypeOK
  <2>9. /\ \A t \in Opened : t \in Opened' /\ opened'[t].at = opened[t].at
        /\ s \in Opened' /\ e.created = opened'[s].at
    BY <2>3, <2>4, <2>6, <2>7, <2>8 DEF Opened
  <2>10. Become(r, Idle) /\ UNCHANGED <<now, password, expelled, ended, past>>
    BY <1>20 DEF KeepSave
  <2>11. Sound(Idle)'
    BY DEF Sound, Idle
  <2>12. e.created \in Time /\ e.expires \in Time /\ Stored(s, e)
    BY <2>1, <2>2, <2>3 DEF Session
  <2> QED
    BY <1>d, <2>3, <2>8, <2>9, <2>10, <2>11, <2>12, SavingStep
<1>21. ASSUME NEW r \in Req, Fail(r)
       PROVE  Base'
  <2>1. /\ Become(r, Idle) /\ Quiet /\ past' \subseteq {"overlap", "failure"}
        /\ password' \in 1..MaxPassword
    BY <1>0, <1>21 DEF Fail, Quiet, store, TypeOK
  <2> QED
    BY <2>1, <1>d, <1>a
<1>22. CASE UNCHANGED vars
  <2>1. UNCHANGED <<now, password, data, list, expelled, req, opened, ended, past>>
    BY <1>22 DEF vars, store, history
  <2>2. TypeOK'
    BY <1>0, <2>1 DEF TypeOK
  <2>3. Lineage'
    BY <1>0, <2>1 DEF Lineage, Live, Opened, Sound
  <2> QED
    BY <2>2, <2>3 DEF Base
<1> QED
  BY <1>1, <1>2, <1>3, <1>4, <1>5, <1>6, <1>7, <1>9, <1>10, <1>11, <1>12, <1>13, <1>14,
     <1>15, <1>16, <1>17, <1>18, <1>19, <1>20, <1>21, <1>22
  DEF Next, Login, Change, Reset, RevokeAll

LEMMA InitBase == Init => Base
<1> SUFFICES ASSUME Init PROVE Base
  OBVIOUS
<1>1. TypeOK
  BY SessionsAssumption DEF Init, TypeOK
<1>2. IsFiniteSet(list)
  BY FS_EmptySet DEF Init
<1>3. Lineage
  BY <1>2 DEF Init, Lineage, Live, Opened, Sound, Idle
<1> QED
  BY <1>1, <1>3 DEF Base

-----------------------------------------------------------------------------
(* One request at a time *)

LEMMA LiveIsFinite ==
  ASSUME Base, Orderly
  PROVE  IsFiniteSet(Live) /\ Cardinality(Live) \in Nat /\ MaxSessions \in Nat \ {0}
<1>1. IsFiniteSet(Live)
  BY FS_Subset DEF Base, Lineage, Orderly
<1> QED
  BY <1>1, FS_CardinalityType, SessionsAssumption

\* A session that is there has its place.
LEMMA LiveHasRoom ==
  ASSUME Base, Orderly
  PROVE  \A s \in Live : Room(s)
<1> SUFFICES ASSUME NEW s \in Live PROVE Room(s)
  OBVIOUS
<1>1. Cardinality(Live \ {s}) = Cardinality(Live) - 1
  BY LiveIsFinite, FS_RemoveElement
<1> QED
  BY <1>1, LiveIsFinite DEF Room, Orderly

\* Where sessions go and nothing is logged out, what fitted still fits.
LEMMA FewerFit ==
  ASSUME Base, Orderly, Live' \subseteq Live, expelled' \subseteq expelled, ended' \subseteq ended
  PROVE  /\ Cardinality(Live') <= MaxSessions
         /\ \A q : Fits(q) => Fits(q)'
<1>1. IsFiniteSet(Live) /\ MaxSessions \in Nat
  BY LiveIsFinite
<1>2. Cardinality(Live') <= Cardinality(Live) /\ Cardinality(Live') \in Nat /\ Cardinality(Live) \in Nat
  BY <1>1, FS_Subset, FS_CardinalityType
<1>3. ASSUME NEW s PROVE Room(s) => Room(s)'
  <2>1. IsFiniteSet(Live \ {s})
    BY <1>1, FS_RemoveElement
  <2>2. Live' \ {s} \subseteq Live \ {s}
    OBVIOUS
  <2>3. /\ Cardinality(Live' \ {s}) <= Cardinality(Live \ {s})
        /\ Cardinality(Live' \ {s}) \in Nat /\ Cardinality(Live \ {s}) \in Nat
    BY <2>1, <2>2, FS_Subset, FS_CardinalityType
  <2> QED
    BY <1>1, <2>3 DEF Room
<1>4. \A q : Fits(q) => Fits(q)'
  <2> SUFFICES ASSUME NEW q, Fits(q) PROVE Fits(q)'
    OBVIOUS
  <2>1. \A s \in Carried(q) : s \notin expelled' \cup ended' /\ Room(s)'
    BY <1>3 DEF Fits
  <2>2. q.at = "login_evict" => Room(q.session)'
    BY <1>3 DEF Fits
  <2>3. q.at = "login_save" => Cardinality(Live') < MaxSessions
    BY <1>1, <1>2 DEF Fits
  <2>4. q.at = "revoke" => Live' \subseteq q.ids
    BY DEF Fits
  <2>5. Carried(q)' = Carried(q)
    BY DEF Carried
  <2> QED
    BY <2>1, <2>2, <2>3, <2>4, <2>5 DEF Fits
<1> QED
  BY <1>1, <1>2, <1>4 DEF Orderly

\* Saving a session takes the place it has room for.
LEMMA SaveTakesRoom ==
  ASSUME Base, Orderly, NEW s \in SessionId, Room(s), Live' = Live \cup {s}
  PROVE  Cardinality(Live') <= MaxSessions /\ Room(s)'
<1>1. IsFiniteSet(Live) /\ MaxSessions \in Nat
  BY LiveIsFinite
<1>2. PICK rest : rest = Live \ {s}
  OBVIOUS
<1>3. IsFiniteSet(rest) /\ s \notin rest /\ Live' = rest \cup {s} /\ Live' \ {s} = rest
  BY <1>1, <1>2, FS_RemoveElement
<1>4. Cardinality(Live') = Cardinality(rest) + 1 /\ Cardinality(rest) \in Nat
  BY <1>3, FS_AddElement, FS_CardinalityType
<1>5. Cardinality(rest) < MaxSessions
  BY <1>2 DEF Room
<1> QED
  BY <1>1, <1>3, <1>4, <1>5 DEF Room

\* A step of the only request there is.
LEMMA AloneStep ==
  ASSUME Base, NEW r \in Req, \A q \in Req \ {r} : req[q] = Idle,
         NEW state \in Request \cup {Idle}, Become(r, state), Fits(state)',
         Live' \subseteq list' \ expelled', Cardinality(Live') <= MaxSessions, ended' \cap Live' = {}
  PROVE  Orderly'
<1>1. /\ req'[r] = state
      /\ \A q \in Req : q # r => req'[q] = Idle
  BY Becomes DEF Base
<1>2. \A q \in Req : Fits(req[q])'
  <2> SUFFICES ASSUME NEW q \in Req PROVE Fits(req[q])'
    OBVIOUS
  <2>1. PICK p : p = req'[q]
    OBVIOUS
  <2>2. Fits(Idle)'
    BY DEF Fits, Carried, Idle
  <2>3. Fits(p)'
    BY <1>1, <2>1, <2>2
  <2> QED
    BY <2>1, <2>3 DEF Fits, Carried
<1> QED
  BY <1>1, <1>2 DEF Orderly

\* One that leaves the store alone, or takes from it.
LEMMA AloneKeeping ==
  ASSUME Base, Orderly, NEW r \in Req, \A q \in Req \ {r} : req[q] = Idle,
         NEW state \in Request \cup {Idle}, Become(r, state), Fits(state),
         UNCHANGED <<data, list, expelled, ended>>
  PROVE  Orderly'
<1>1. Live' = Live
  BY DEF Live
<1>2. Cardinality(Live') <= MaxSessions /\ Fits(state)'
  BY <1>1, FewerFit
<1>3. Live' \subseteq list' \ expelled' /\ ended' \cap Live' = {}
  BY <1>1 DEF Orderly
<1> QED
  BY <1>2, <1>3, AloneStep

\* One that saves a session.
LEMMA AloneSaving ==
  ASSUME Base, Orderly, NEW r \in Req, \A q \in Req \ {r} : req[q] = Idle,
         NEW state \in Request \cup {Idle}, Become(r, state),
         NEW s \in SessionId, s \notin expelled \cup ended, Room(s),
         Carried(state) \subseteq {s}, state.at \notin {"login_evict", "login_save", "revoke"},
         NEW e, e.created \in Time, e.expires \in Time, Stored(s, e), UNCHANGED <<expelled, ended>>
  PROVE  Orderly'
<1>1. /\ data'[s] # NoKey /\ \A t \in SessionId : t # s => data'[t] = data[t]
      /\ list' = list \cup {s}
  BY StoredKeyLives DEF Base
<1>2. Live' = Live \cup {s}
  BY <1>1 DEF Live
<1>3. Cardinality(Live') <= MaxSessions /\ Room(s)'
  BY <1>2, SaveTakesRoom
<1>4. Live' \subseteq list' \ expelled' /\ ended' \cap Live' = {}
  BY <1>1, <1>2 DEF Orderly
<1>5. Carried(state)' = Carried(state)
  BY DEF Carried
<1>6. Fits(state)'
  BY <1>3, <1>5 DEF Fits
<1> QED
  BY <1>3, <1>4, <1>6, AloneStep

LEMMA NextOrderly ==
  ASSUME Base, Orderly, "overlap" \notin past', [Next]_vars
  PROVE  Orderly'
<1>0. TypeOK /\ Lineage
  BY DEF Base
<1> DEFINE Others(r) == \A q \in Req \ {r} : req[q] = Idle
           Quiet == UNCHANGED <<data, list, expelled, ended>>
<1>a. \A r \in Req : req[r] # Idle => Others(r)
  BY DEF Orderly
<1>b. ASSUME NEW r \in Req, NEW state, Begin(r, state)
      PROVE  Others(r) /\ Become(r, state) /\ Quiet
  BY <1>b DEF Begin, store
<1>c. ASSUME NEW r \in Req, NEW state, Proceed(r, state)
      PROVE  Become(r, state) /\ Quiet
  BY <1>c DEF Proceed, store, history
<1>d. Idle \in Request \cup {Idle} /\ Fits(Idle)
  BY DEF Fits, Carried, Idle
<1>e. ASSUME NEW r \in Req, Others(r), NEW state \in Request \cup {Idle}, Become(r, state), Quiet,
             Fits(state)
      PROVE  Orderly'
  BY <1>e, AloneKeeping
<1>f. ASSUME Live' \subseteq Live, UNCHANGED <<req, ended>>, expelled' \subseteq expelled,
             Live' \subseteq list' \ expelled'
      PROVE  Orderly'
  <2>1. /\ Cardinality(Live') <= MaxSessions
        /\ \A q : Fits(q) => Fits(q)'
    BY <1>f, FewerFit
  <2>2. \A r \in Req : Fits(req[r])'
    <3> SUFFICES ASSUME NEW r \in Req PROVE Fits(req[r])'
      OBVIOUS
    <3>1. PICK p : p = req[r]
      OBVIOUS
    <3>2. Fits(p)'
      BY <2>1, <3>1 DEF Orderly
    <3> QED
      BY <1>f, <3>1, <3>2 DEF Fits, Carried
  <2> QED
    BY <1>f, <2>1, <2>2 DEF Orderly
\* The pipelines of Delete, with what is logged out.
<1>g. ASSUME NEW r \in Req, Others(r), NEW state \in Request \cup {Idle}, Become(r, state),
             NEW ids, NEW rest, Deleted(ids, rest), list \ ids \subseteq rest, UNCHANGED expelled,
             ended' \subseteq ended \cup ids, Fits(state)'
      PROVE  Orderly'
  <2>1. Live' = Live \ ids /\ list' = rest
    BY <1>0, <1>g, DeletedKeys DEF Live
  <2>2. Cardinality(Live') <= MaxSessions
    <3>1. IsFiniteSet(Live) /\ MaxSessions \in Nat
      BY LiveIsFinite
    <3>2. Cardinality(Live') <= Cardinality(Live) /\ Cardinality(Live') \in Nat /\ Cardinality(Live) \in Nat
      BY <2>1, <3>1, FS_Subset, FS_CardinalityType
    <3> QED
      BY <3>1, <3>2 DEF Orderly
  <2>3. Live' \subseteq list' \ expelled' /\ ended' \cap Live' = {}
    BY <1>g, <2>1 DEF Orderly
  <2> QED
    BY <1>g, <2>2, <2>3, AloneStep
<1> HIDE DEF Quiet, Others
<1>1. CASE Tick
  <2>1. \A s \in SessionId : data'[s] # NoKey => data[s] # NoKey
    BY <1>1 DEF Tick
  <2>2. Live' \subseteq Live
    BY <2>1 DEF Live
  <2> QED
    BY <1>1, <2>2, <1>f DEF Tick, history, Orderly
<1>2. CASE Sweep
  <2>1. Live' \subseteq Live
    BY <1>2 DEF Sweep, Live
  <2>2. UNCHANGED <<req, ended>> /\ expelled' \subseteq expelled
    BY <1>2 DEF Sweep, history
  <2>3. Live' \subseteq list' \ expelled'
    BY <1>2, <2>1 DEF Sweep, Orderly
  <2> QED
    BY <2>1, <2>2, <2>3, <1>f
<1>3. ASSUME NEW r \in Req, LoginRead(r)
      PROVE  Orderly'
  <2>1. PICK state : state = [at |-> "login_count", password |-> password]
    OBVIOUS
  <2>2. state \in Request /\ Fits(state)
    BY <1>0, <2>1 DEF TypeOK, Request, Fits, Carried
  <2> QED
    BY <1>3, <2>1, <2>2, <1>b, <1>e DEF LoginRead
<1>4. ASSUME NEW r \in Req, LoginCount(r)
      PROVE  Orderly'
  <2>1. PICK at \in {"login_list", "login_save"} :
          /\ Proceed(r, [req[r] EXCEPT !.at = at])
          /\ at = "login_save" => ~AtLimit(Cardinality(list))
    BY <1>4 DEF LoginCount
  <2>2. PICK state : state = [req[r] EXCEPT !.at = at]
    OBVIOUS
  <2>3. state \in Request /\ state.at = at /\ req[r] # Idle
    BY <1>0, <1>4, <2>1, <2>2 DEF LoginCount, TypeOK, Request, Idle
  <2>4. at = "login_save" => Cardinality(Live) < MaxSessions
    <3>1. IsFiniteSet(list) /\ MaxSessions \in Nat /\ Live \subseteq list
      BY <1>0, LiveIsFinite DEF Lineage, Orderly
    <3>2. /\ Cardinality(Live) <= Cardinality(list)
          /\ Cardinality(Live) \in Nat /\ Cardinality(list) \in Nat
      BY <3>1, FS_Subset, FS_CardinalityType
    <3> QED
      BY <2>1, <3>1, <3>2 DEF AtLimit
  <2>5. Fits(state)
    BY <2>1, <2>3, <2>4 DEF Fits, Carried
  <2> QED
    BY <1>a, <2>1, <2>2, <2>3, <2>5, <1>c, <1>e
<1>5. ASSUME NEW r \in Req, LoginList(r)
      PROVE  Orderly'
  <2>1. /\ UNCHANGED <<data, list, ended>> /\ req[r].at = "login_list" /\ req[r] # Idle
        /\ expelled' = expelled \cup (list \ Live) /\ req[r].password \in 1..MaxPassword
    BY <1>0, <1>5, RequestShape DEF LoginList, history, Idle
  <2>2. Live' = Live
    BY <2>1 DEF Live
  <2>3. Live' \subseteq list' \ expelled' /\ ended' \cap Live' = {} /\ Cardinality(Live') <= MaxSessions
    BY <2>1, <2>2 DEF Orderly
  <2>4. PICK state : /\ Become(r, state)
                     /\ \/ Live = {} /\ state = [req[r] EXCEPT !.at = "login_save"]
                        \/ \E s \in Live :
                             state = [at |-> "login_evict", password |-> req[r].password, session |-> s]
    BY <1>5 DEF LoginList, Orderly
  <2>5. state \in Request /\ state.at \in {"login_evict", "login_save"}
    BY <1>0, <2>1, <2>4 DEF TypeOK, Request, Idle, Live
  <2>6. Fits(state)'
    <3>1. Carried(state)' = {}
      BY <2>5 DEF Carried
    <3>2. CASE Live = {} /\ state = [req[r] EXCEPT !.at = "login_save"]
      <4>1. state.at = "login_save" /\ Cardinality(Live') = 0
        BY <2>1, <2>2, <2>5, <3>2, FS_EmptySet
      <4> QED
        BY <3>1, <4>1, LiveIsFinite DEF Fits
    <3>3. ASSUME NEW s \in Live,
                 state = [at |-> "login_evict", password |-> req[r].password, session |-> s]
          PROVE  Fits(state)'
      <4>1. Room(s)'
        BY <2>2, LiveHasRoom DEF Room
      <4> QED
        BY <3>1, <3>3, <4>1 DEF Fits
    <3> QED
      BY <2>4, <3>2, <3>3
  <2> QED
    BY <1>a, <2>1, <2>3, <2>4, <2>5, <2>6, AloneStep DEF Others
<1>6. ASSUME NEW r \in Req, LoginEvict(r)
      PROVE  Orderly'
  <2>1. PICK s : s = req[r].session
    OBVIOUS
  <2>2. PICK state : state = [at |-> "login_save", password |-> req[r].password]
    OBVIOUS
  <2>3. /\ Become(r, state) /\ req[r] # Idle /\ UNCHANGED <<expelled, ended>>
        /\ state \in Request /\ s \in SessionId
    BY <1>0, <1>6, <2>1, <2>2, RequestShape DEF LoginEvict, history, Idle, Request
  <2>4. Room(s)
    BY <1>6, <2>1 DEF LoginEvict, Orderly, Fits
  <2>5. CASE s \in Live
    <3>1. Deleted({s}, list \ {s})
      BY <1>6, <2>1, <2>5 DEF LoginEvict
    <3>2. Live' = Live \ {s}
      BY <1>0, <3>1, DeletedKeys DEF Live
    <3>3. Fits(state)'
      BY <2>2, <2>4, <3>2 DEF Fits, Carried, Room
    <3> QED
      BY <1>a, <2>3, <3>1, <3>3, <1>g
  <2>6. CASE s \notin Live
    <3>1. UNCHANGED <<data, list>>
      BY <1>6, <2>1, <2>6 DEF LoginEvict
    <3>2. Live \ {s} = Live
      BY <2>6
    <3>3. Fits(state)
      BY <2>2, <2>4, <3>2 DEF Fits, Carried, Room
    <3> QED
      BY <1>a, <2>3, <3>1, <3>3, <1>e DEF Quiet
  <2> QED
    BY <2>5, <2>6
<1>7. ASSUME NEW r \in Req, LoginSave(r)
      PROVE  Orderly'
  <2>1. PICK s \in SessionId : opened[s] = NoKey /\ Stored(s, [created |-> now, expires |-> now + Ttl])
    BY <1>7 DEF LoginSave
  <2>2. PICK e : e = [created |-> now, expires |-> now + Ttl]
    OBVIOUS
  <2>3. Stored(s, e) /\ e.created \in Time /\ e.expires \in Time
    BY <1>0, <2>1, <2>2, NowIsTime
  <2>4. s \notin Live \cup expelled \cup ended
    BY <1>0, <2>1 DEF Lineage, Opened
  <2>5. Live \ {s} = Live
    BY <2>4
  <2>6. Room(s)
    BY <1>7, <2>5 DEF LoginSave, Orderly, Fits, Room
  <2>7. Carried(Idle) \subseteq {s} /\ Idle.at \notin {"login_evict", "login_save", "revoke"}
    BY DEF Carried, Idle
  <2>8. Become(r, Idle) /\ UNCHANGED <<expelled, ended>> /\ Others(r)
    BY <1>7, <1>a DEF LoginSave, Idle
  <2> QED
    BY <1>d, <2>3, <2>4, <2>6, <2>7, <2>8, AloneSaving DEF Others
<1>8. ASSUME NEW r \in Req, NEW s \in SessionId, s \in Live, Present(r, s)
      PROVE  Orderly'
  <2>1. PICK state : state = [at |-> "auth_save", session |-> s, was |-> data[s], checked |-> now]
    OBVIOUS
  <2>2. state \in Request
    BY <1>0, <1>8, <2>1 DEF Request, TypeOK, Live
  <2>3. Carried(state) = {s} /\ state.at = "auth_save"
    BY <2>1 DEF Carried
  <2>4. s \notin expelled \cup ended /\ Room(s)
    BY <1>8, LiveHasRoom DEF Orderly
  <2>5. Fits(state)
    BY <2>3, <2>4 DEF Fits
  <2> QED
    BY <1>8, <2>1, <2>2, <2>5, <1>b, <1>e DEF Present
<1>9. ASSUME NEW r \in Req, NEW s \in SessionId, Authenticate(r, s) \/ OptionalAuth(r, s)
      PROVE  Orderly'
  <2>1. PICK state : state = [at |-> "logout", session |-> s]
    OBVIOUS
  <2>2. s \in Live /\ (Present(r, s) \/ Begin(r, state))
    BY <1>9, <2>1 DEF Authenticate, OptionalAuth
  <2>3. state \in Request /\ Fits(state)
    BY <2>1 DEF Request, Fits, Carried
  <2> QED
    BY <2>2, <2>3, <1>8, <1>b, <1>e
<1>10. ASSUME NEW r \in Req, AuthSave(r)
       PROVE  Orderly'
  <2>1. PICK s, was, checked : s = req[r].session /\ was = req[r].was /\ checked = req[r].checked
    OBVIOUS
  <2>2. PICK state : state = [at |-> "authorized", session |-> s, checked |-> checked]
    OBVIOUS
  <2>3. /\ s \in SessionId /\ was \in Session /\ checked \in 0..MaxTime
        /\ req[r].at = "auth_save" /\ req[r] # Idle
    BY <1>0, <1>10, <2>1, RequestShape DEF AuthSave, Idle
  <2>4. s \in Carried(req[r])
    BY <2>1, <2>3 DEF Carried
  <2>5. s \notin expelled \cup ended /\ Room(s)
    BY <2>4 DEF Orderly, Fits
  <2>6. state \in Request /\ Carried(state) = {s} /\ state.at = "authorized"
    BY <2>2, <2>3 DEF Request, Carried
  <2>7. Become(r, state) /\ UNCHANGED <<expelled, ended>> /\ Others(r)
    BY <1>10, <1>a, <2>1, <2>2, <2>3 DEF AuthSave, history
  <2>8. CASE UNCHANGED <<data, list>>
    <3>1. Fits(state)
      BY <2>5, <2>6 DEF Fits
    <3> QED
      BY <2>6, <2>7, <2>8, <3>1, <1>e DEF Quiet
  <2>9. CASE Stored(s, Refresh(was))
    <3>1. PICK e : e = Refresh(was)
      OBVIOUS
    <3>2. Stored(s, e) /\ e.created \in Time /\ e.expires \in Time
      BY <1>0, <2>3, <2>9, <3>1, NowIsTime DEF Refresh, Session
    <3> QED
      BY <2>3, <2>5, <2>6, <2>7, <3>2, AloneSaving DEF Others
  <2> QED
    BY <1>10, <2>1, <2>8, <2>9 DEF AuthSave
<1>11. ASSUME NEW r \in Req, Serve(r)
       PROVE  Orderly'
  BY <1>11, <1>a, <1>c, <1>d, <1>e DEF Serve, Idle
<1>12. ASSUME NEW r \in Req, LogoutBegin(r)
       PROVE  Orderly'
  <2>1. PICK state : state = [at |-> "logout", session |-> req[r].session]
    OBVIOUS
  <2>2. state \in Request /\ Fits(state) /\ req[r] # Idle
    BY <1>0, <1>12, <2>1, RequestShape DEF LogoutBegin, Request, Fits, Carried, Idle
  <2> QED
    BY <1>12, <2>1, <2>2, <1>a, <1>c, <1>e DEF LogoutBegin
<1>13. ASSUME NEW r \in Req, LogoutCommit(r)
       PROVE  Orderly'
  <2>1. PICK s : s = req[r].session
    OBVIOUS
  <2>2. /\ Become(r, Idle) /\ UNCHANGED expelled /\ req[r] # Idle
        /\ Deleted({s}, list \ {s}) /\ ended' = ended \cup {s}
    BY <1>13, <2>1 DEF LogoutCommit, Logout, Idle
  <2>3. Fits(Idle)'
    BY DEF Fits, Carried, Idle
  <2> QED
    BY <1>a, <1>d, <2>2, <2>3, <1>g
<1>14. ASSUME NEW r \in Req, ChangePassword(r)
       PROVE  Orderly'
  <2>1. PICK s : s = req[r].session
    OBVIOUS
  <2>2. PICK state : state = [at |-> "keep", session |-> s]
    OBVIOUS
  <2>3. req[r].at = "authorized" /\ req[r] # Idle /\ s \in SessionId
    BY <1>0, <1>14, <2>1, RequestShape DEF ChangePassword, Idle
  <2>4. Carried(state) = Carried(req[r]) /\ state.at = "keep" /\ state \in Request
    BY <2>1, <2>2, <2>3 DEF Carried, Request
  <2>5. Fits(state)
    BY <2>4 DEF Fits, Orderly
  <2>6. Become(r, state) /\ Quiet
    BY <1>14, <2>1, <2>2 DEF ChangePassword, Quiet, store, history
  <2> QED
    BY <1>a, <2>3, <2>4, <2>5, <2>6, <1>e
<1>15. ASSUME NEW r \in Req, Keep(r)
       PROVE  Orderly'
  <2>1. PICK s, keep : /\ s = req[r].session
                       /\ keep = IF s \in Live THEN {[id |-> s, was |-> data[s]]} ELSE {}
    OBVIOUS
  <2>2. PICK state : state = [at |-> "revoke_list", keep |-> keep]
    OBVIOUS
  <2>3. Proceed(r, state) /\ req[r].at = "keep" /\ req[r] # Idle
    BY <1>15, <2>1, <2>2 DEF Keep, Idle
  <2>4. s \in Live => s \in SessionId /\ data[s] \in Session
    BY <1>0 DEF Live, TypeOK
  <2>5. keep \subseteq Kept /\ state \in Request
    BY <2>1, <2>2, <2>4 DEF Kept, Request
  <2>6. \A k \in keep : k.id = s /\ s \in Live
    BY <2>1
  <2>7. Carried(state) \subseteq Live
    BY <2>2, <2>6 DEF Carried
  <2>8. Fits(state)
    BY <2>2, <2>7, LiveHasRoom DEF Fits, Orderly
  <2> QED
    BY <2>3, <2>5, <2>8, <1>a, <1>c, <1>e
<1>16. ASSUME NEW r \in Req, ResetPassword(r)
       PROVE  Orderly'
  <2>1. PICK state : state = [at |-> "reset"]
    OBVIOUS
  <2>2. state \in Request /\ Fits(state)
    BY <2>1 DEF Request, Fits, Carried
  <2> QED
    BY <1>16, <2>1, <2>2, <1>b, <1>e DEF ResetPassword
<1>17. ASSUME NEW r \in Req, ResetCommit(r)
       PROVE  Orderly'
  <2>1. PICK state : state = [at |-> "revoke_list", keep |-> {}]
    OBVIOUS
  <2>2. state \in Request /\ Fits(state)
    BY <2>1 DEF Request, Fits, Carried
  <2>3. Become(r, state) /\ Quiet /\ req[r] # Idle
    BY <1>17, <2>1 DEF ResetCommit, Quiet, store, history, Idle
  <2> QED
    BY <2>2, <2>3, <1>a, <1>e
<1>18. ASSUME NEW r \in Req, RevokeList(r)
       PROVE  Orderly'
  <2>1. PICK keep : keep = req[r].keep
    OBVIOUS
  <2>2. PICK state : state = [at |-> "revoke", keep |-> keep, ids |-> list]
    OBVIOUS
  <2>3. keep \subseteq Kept /\ req[r].at = "revoke_list" /\ req[r] # Idle
    BY <1>0, <1>18, <2>1, RequestShape DEF RevokeList, Idle
  <2>4. state \in Request
    BY <1>0, <2>2, <2>3 DEF Request, TypeOK
  <2>5. Carried(state) = Carried(req[r]) /\ state.at = "revoke" /\ Live \subseteq state.ids
    BY <2>1, <2>2, <2>3 DEF Carried, Orderly
  <2>6. Fits(state)
    BY <2>5 DEF Fits, Orderly
  <2> QED
    BY <1>18, <2>1, <2>2, <2>3, <2>4, <2>6, <1>a, <1>c, <1>e DEF RevokeList
<1>19. ASSUME NEW r \in Req, RevokeCommit(r)
       PROVE  Orderly'
  <2>1. PICK keep, ids : keep = req[r].keep /\ ids = req[r].ids
    OBVIOUS
  <2>2. PICK state : state = IF keep = {} THEN Idle ELSE [at |-> "keep_save", keep |-> keep]
    OBVIOUS
  <2>3. keep \subseteq Kept /\ req[r].at = "revoke" /\ req[r] # Idle
    BY <1>0, <1>19, <2>1, RequestShape DEF RevokeCommit, Idle
  <2>4. state \in Request \cup {Idle} /\ state.at \in {"idle", "keep_save"}
    BY <2>2, <2>3 DEF Request, Idle
  <2>5. Carried(state) \subseteq Carried(req[r]) /\ Live \subseteq ids
    BY <2>1, <2>2, <2>3 DEF Carried, Orderly, Fits, Idle
  <2>6. Fits(state)
    BY <2>4, <2>5 DEF Fits, Orderly
  <2>7. Become(r, state) /\ Revoke(ids) /\ UNCHANGED <<expelled, ended>> /\ Others(r)
    BY <1>19, <1>a, <2>1, <2>2, <2>3 DEF RevokeCommit, history
  <2>8. CASE UNCHANGED <<data, list>>
    BY <2>4, <2>6, <2>7, <2>8, <1>e DEF Quiet
  <2>9. CASE Deleted(ids, {})
    <3>1. Live' = {} /\ Live' \subseteq Live
      BY <1>0, <2>5, <2>9, DeletedKeys DEF Live
    <3>2. Cardinality(Live') <= MaxSessions /\ Fits(state)'
      BY <2>6, <2>7, <3>1, FewerFit
    <3> QED
      BY <2>4, <2>7, <3>1, <3>2, AloneStep DEF Others
  <2> QED
    BY <2>7, <2>8, <2>9 DEF Revoke
<1>20. ASSUME NEW r \in Req, KeepSave(r)
       PROVE  Orderly'
  <2>1. PICK k \in req[r].keep : Stored(k.id, k.was)
    BY <1>20 DEF KeepSave
  <2>2. PICK s, e : s = k.id /\ e = k.was
    OBVIOUS
  <2>3. /\ s \in SessionId /\ e \in Session /\ req[r].at = "keep_save" /\ req[r] # Idle
    BY <1>0, <1>20, <2>1, <2>2, RequestShape DEF KeepSave, Kept, Idle
  <2>4. s \in Carried(req[r])
    BY <2>1, <2>2, <2>3 DEF Carried
  <2>5. s \notin expelled \cup ended /\ Room(s)
    BY <2>4 DEF Orderly, Fits
  <2>6. Become(r, Idle) /\ UNCHANGED <<expelled, ended>> /\ Others(r)
    BY <1>20, <1>a, <2>3 DEF KeepSave
  <2>7. Stored(s, e) /\ e.created \in Time /\ e.expires \in Time
    BY <2>1, <2>2, <2>3 DEF Session
  <2>8. Carried(Idle) \subseteq {s} /\ Idle.at \notin {"login_evict", "login_save", "revoke"}
    BY DEF Carried, Idle
  <2> QED
    BY <1>d, <2>3, <2>5, <2>6, <2>7, <2>8, AloneSaving DEF Others
<1>21. ASSUME NEW r \in Req, Fail(r)
       PROVE  Orderly'
  <2>1. Become(r, Idle) /\ Quiet /\ req[r] # Idle
    BY <1>21 DEF Fail, Quiet, store
  <2> QED
    BY <2>1, <1>a, <1>d, <1>e
<1>22. CASE UNCHANGED vars
  <2>1. UNCHANGED <<data, list, expelled, req, ended>>
    BY <1>22 DEF vars, store, history
  <2>2. Live' = Live
    BY <2>1 DEF Live
  <2> QED
    BY <2>1, <2>2, <1>f DEF Orderly
<1> QED
  BY <1>1, <1>2, <1>3, <1>4, <1>5, <1>6, <1>7, <1>9, <1>10, <1>11, <1>12, <1>13, <1>14,
     <1>15, <1>16, <1>17, <1>18, <1>19, <1>20, <1>21, <1>22
  DEF Next, Login, Change, Reset, RevokeAll

-----------------------------------------------------------------------------
(* Nothing failed *)

LEMMA NextUpToDate ==
  ASSUME Base, Orderly, UpToDate, past' = {}, [Next]_vars
  PROVE  UpToDate'
<1>0. TypeOK /\ Lineage
  BY DEF Base
<1> DEFINE Others(r) == \A q \in Req \ {r} : req[q] = Idle
           behind == {"keep", "revoke_list", "revoke"}
           login == {"login_count", "login_list", "login_evict", "login_save"}
           Same == UNCHANGED <<data, opened, password>>
           Holds(q) == /\ q.at = "auth_save" => opened'[q.session].password = password'
                       /\ q.at \in login => q.password = password'
<1>a. \A r \in Req : req[r] # Idle => Others(r)
  BY DEF Orderly
<1>b. ASSUME NEW r \in Req, NEW state, Begin(r, state)
      PROVE  Others(r) /\ Become(r, state) /\ Same /\ req[r] = Idle
  BY <1>b DEF Begin, store
<1>c. ASSUME NEW r \in Req, NEW state, Proceed(r, state)
      PROVE  Become(r, state) /\ Same
  BY <1>c DEF Proceed, store, history
\* The step of a request that leaves the password behind, or has done so.
<1>d. ASSUME NEW r \in Req, Others(r), NEW state \in Request \cup {Idle}, Become(r, state),
             state.at \in behind
      PROVE  UpToDate'
  <2>1. /\ req'[r] = state
        /\ \A q \in Req : q # r => req'[q] = Idle
    BY <1>0, <1>d, Becomes
  <2>2. Behind'
    BY <1>d, <2>1 DEF Behind
  <2>3. \A q \in Req : req'[q].at \notin {"auth_save"} \cup login
    BY <1>d, <2>1 DEF Idle
  <2> QED
    BY <2>2, <2>3 DEF UpToDate
\* One that ends with all sessions following the password.
<1>e. ASSUME NEW r \in Req, Others(r), NEW state \in Request \cup {Idle}, Become(r, state),
             \A s \in Live' : opened'[s].password = password', Holds(state)
      PROVE  UpToDate'
  <2>1. /\ req'[r] = state
        /\ \A q \in Req : q # r => req'[q] = Idle
    BY <1>0, <1>e, Becomes
  <2>2. ASSUME NEW q \in Req PROVE Holds(req'[q])
    BY <1>e, <2>1, <2>2 DEF Idle
  <2> QED
    BY <1>e, <2>2 DEF UpToDate
\* One of a request that is not behind, and opens no session.
<1>f. ASSUME NEW r \in Req, Others(r), req[r].at \notin behind, UNCHANGED <<opened, password>>,
             NEW state \in Request \cup {Idle}, Become(r, state),
             \A s \in Live' : s \in Live \/ opened[s].password = password,
             Holds(state)
      PROVE  UpToDate'
  <2>1. ~Behind
    BY <1>f DEF Behind, Idle
  <2>2. \A s \in Live' : opened'[s].password = password'
    BY <1>f, <2>1 DEF UpToDate
  <2> QED
    BY <1>f, <2>2, <1>e
<1>g. ASSUME NEW r \in Req, Others(r), req[r].at \notin behind, Same,
             NEW state \in Request \cup {Idle}, Become(r, state), Holds(state)
      PROVE  UpToDate'
  <2>1. Live' = Live
    BY <1>g DEF Live
  <2> QED
    BY <1>g, <2>1, <1>f
<1>h. Idle \in Request \cup {Idle} /\ Idle.at \notin behind \cup login /\ Holds(Idle)
  BY DEF Idle
<1>i. UpToDate => \A r \in Req :
        /\ req[r].at = "auth_save" => opened[req[r].session].password = password
        /\ req[r].at \in login => req[r].password = password
  BY DEF UpToDate
<1>1. ASSUME UNCHANGED <<password, req, opened>>, Live' \subseteq Live
      PROVE  UpToDate'
  BY <1>1 DEF UpToDate, Behind
<1>2. CASE Tick
  <2>1. Live' \subseteq Live
    BY <1>2 DEF Tick, Live
  <2> QED
    BY <1>2, <2>1, <1>1 DEF Tick, history
<1>3. CASE Sweep
  <2>1. Live' \subseteq Live
    BY <1>3 DEF Sweep, Live
  <2> QED
    BY <1>3, <2>1, <1>1 DEF Sweep, history
<1>4. ASSUME NEW r \in Req, LoginRead(r)
      PROVE  UpToDate'
  <2>1. PICK state : state = [at |-> "login_count", password |-> password]
    OBVIOUS
  <2>2. state \in Request /\ Begin(r, state)
    BY <1>0, <1>4, <2>1 DEF TypeOK, Request, LoginRead
  <2>3. Same
    BY <2>2, <1>b
  <2>4. Holds(state)
    BY <2>1, <2>3
  <2> QED
    BY <2>2, <2>3, <2>4, <1>b, <1>g, <1>h
<1>5. ASSUME NEW r \in Req, LoginCount(r)
      PROVE  UpToDate'
  <2>1. PICK at \in {"login_list", "login_save"} : Proceed(r, [req[r] EXCEPT !.at = at])
    BY <1>5 DEF LoginCount
  <2>2. PICK state : state = [req[r] EXCEPT !.at = at]
    OBVIOUS
  <2>3. /\ state \in Request /\ state.at = at /\ state.password = req[r].password
        /\ req[r] # Idle /\ req[r].at = "login_count"
    BY <1>0, <1>5, <2>1, <2>2 DEF LoginCount, TypeOK, Request, Idle
  <2>4. Become(r, state) /\ Same
    BY <2>1, <2>2, <1>c
  <2>5. Holds(state)
    BY <1>i, <2>1, <2>3, <2>4
  <2> QED
    BY <1>a, <2>3, <2>4, <2>5, <1>g
<1>6. ASSUME NEW r \in Req, LoginList(r)
      PROVE  UpToDate'
  <2>1. Same /\ req[r].at = "login_list" /\ req[r] # Idle /\ req[r].password \in 1..MaxPassword
    BY <1>0, <1>6, RequestShape DEF LoginList, history, Idle
  <2>2. PICK state : /\ Become(r, state)
                     /\ \/ state = [req[r] EXCEPT !.at = "login_save"]
                        \/ \E s \in SessionId :
                             state = [at |-> "login_evict", password |-> req[r].password, session |-> s]
    BY <1>6 DEF LoginList, Live
  <2>3. /\ state \in Request /\ state.at \in {"login_evict", "login_save"}
        /\ state.password = req[r].password
    BY <1>0, <2>1, <2>2 DEF TypeOK, Request, Idle
  <2>4. Holds(state)
    BY <1>i, <2>1, <2>3
  <2> QED
    BY <1>a, <2>1, <2>2, <2>3, <2>4, <1>g
<1>7. ASSUME NEW r \in Req, LoginEvict(r)
      PROVE  UpToDate'
  <2>1. PICK state : state = [at |-> "login_save", password |-> req[r].password]
    OBVIOUS
  <2>2. /\ Become(r, state) /\ req[r] # Idle /\ UNCHANGED <<opened, password>>
        /\ state \in Request /\ req[r].at = "login_evict"
    BY <1>0, <1>7, <2>1, RequestShape DEF LoginEvict, history, Idle, Request
  <2>3. Live' \subseteq Live
    <3>1. \A s \in SessionId : data'[s] \in {data[s], NoKey}
      BY <1>0, <1>7, DeletedKeys DEF LoginEvict
    <3> QED
      BY <3>1 DEF Live
  <2>4. Holds(state)
    BY <1>i, <2>1, <2>2
  <2> QED
    BY <1>a, <2>2, <2>3, <2>4, <1>f
<1>8. ASSUME NEW r \in Req, LoginSave(r)
      PROVE  UpToDate'
  <2>1. PICK s \in SessionId :
          /\ opened[s] = NoKey
          /\ Stored(s, [created |-> now, expires |-> now + Ttl])
          /\ opened' = [opened EXCEPT ![s] = [at |-> now, password |-> req[r].password]]
    BY <1>8 DEF LoginSave
  <2>2. /\ Become(r, Idle) /\ password' = password
        /\ req[r].at = "login_save" /\ req[r] # Idle /\ req[r].password = password
    BY <1>8, <1>i DEF LoginSave, Idle
  <2>3. PICK e : e = [created |-> now, expires |-> now + Ttl]
    OBVIOUS
  <2>4. Stored(s, e) /\ e.created \in Time /\ e.expires \in Time
    BY <1>0, <2>1, <2>3, NowIsTime
  <2>5. \A t \in Live' : t = s \/ t \in Live
    BY <1>0, <2>4, StoredKeyLives DEF Live
  <2>6. /\ opened'[s].password = password
        /\ \A t \in SessionId : t # s => opened'[t] = opened[t]
    BY <1>0, <2>1, <2>2 DEF TypeOK
  <2>7. ~Behind
    BY <1>a, <2>2 DEF Behind, Idle
  <2>8. \A t \in Live' : opened'[t].password = password'
    BY <2>2, <2>5, <2>6, <2>7 DEF UpToDate, Live
  <2> QED
    BY <1>a, <1>h, <2>2, <2>8, <1>e
<1>9. ASSUME NEW r \in Req, NEW s \in SessionId, Authenticate(r, s) \/ OptionalAuth(r, s)
      PROVE  UpToDate'
  <2>1. PICK state : /\ Begin(r, state)
                     /\ \/ state = [at |-> "logout", session |-> s]
                        \/ state = [at |-> "auth_save", session |-> s, was |-> data[s], checked |-> now]
    BY <1>9 DEF Authenticate, OptionalAuth, Present
  <2>2. s \in Live
    BY <1>9 DEF Authenticate, OptionalAuth
  <2>3. state \in Request
    BY <1>0, <2>1, <2>2 DEF Request, TypeOK, Live
  <2>4. Others(r) /\ Become(r, state) /\ Same /\ req[r] = Idle
    BY <2>1, <1>b
  <2>5. ~Behind
    BY <2>4 DEF Behind, Idle
  <2>6. Holds(state)
    BY <2>1, <2>2, <2>4, <2>5 DEF UpToDate
  <2> QED
    BY <1>h, <2>3, <2>4, <2>6, <1>g
<1>10. ASSUME NEW r \in Req, AuthSave(r)
       PROVE  UpToDate'
  <2>1. PICK s, was, checked : s = req[r].session /\ was = req[r].was /\ checked = req[r].checked
    OBVIOUS
  <2>2. PICK state : state = [at |-> "authorized", session |-> s, checked |-> checked]
    OBVIOUS
  <2>3. /\ s \in SessionId /\ was \in Session /\ checked \in 0..MaxTime
        /\ req[r].at = "auth_save" /\ req[r] # Idle /\ opened[s].password = password
    BY <1>0, <1>10, <1>i, <2>1, RequestShape DEF AuthSave, Idle
  <2>4. state \in Request /\ Holds(state)
    BY <2>2, <2>3 DEF Request
  <2>5. Become(r, state) /\ UNCHANGED <<opened, password>>
    BY <1>10, <2>1, <2>2 DEF AuthSave, history
  <2>6. \A t \in Live' : t = s \/ t \in Live
    <3>1. CASE UNCHANGED data
      BY <3>1 DEF Live
    <3>2. CASE Stored(s, Refresh(was))
      <4>1. PICK e : e = Refresh(was)
        OBVIOUS
      <4>2. Stored(s, e) /\ e.created \in Time /\ e.expires \in Time
        BY <1>0, <2>3, <3>2, <4>1, NowIsTime DEF Refresh, Session
      <4> QED
        BY <1>0, <2>3, <4>2, StoredKeyLives DEF Live
    <3> QED
      BY <1>10, <2>1, <3>1, <3>2 DEF AuthSave
  <2> QED
    BY <1>a, <2>3, <2>4, <2>5, <2>6, <1>f
<1>11. ASSUME NEW r \in Req, Serve(r)
       PROVE  UpToDate'
  <2>1. req[r] # Idle /\ req[r].at \notin behind /\ Proceed(r, Idle)
    BY <1>11 DEF Serve, Idle
  <2> QED
    BY <2>1, <1>a, <1>c, <1>g, <1>h
<1>12. ASSUME NEW r \in Req, LogoutBegin(r)
       PROVE  UpToDate'
  <2>1. PICK state : state = [at |-> "logout", session |-> req[r].session]
    OBVIOUS
  <2>2. /\ state \in Request /\ Holds(state) /\ req[r] # Idle /\ req[r].at \notin behind
        /\ Proceed(r, state)
    BY <1>0, <1>12, <2>1, RequestShape DEF LogoutBegin, Request, Idle
  <2> QED
    BY <2>2, <1>a, <1>c, <1>g
<1>13. ASSUME NEW r \in Req, LogoutCommit(r)
       PROVE  UpToDate'
  <2>1. PICK s : s = req[r].session
    OBVIOUS
  <2>2. /\ Become(r, Idle) /\ req[r] # Idle /\ req[r].at \notin behind
        /\ UNCHANGED <<opened, password>> /\ Deleted({s}, list \ {s})
    BY <1>13, <2>1 DEF LogoutCommit, Logout, Idle
  <2>3. Live' \subseteq Live
    BY <1>0, <2>2, DeletedKeys DEF Live
  <2> QED
    BY <1>a, <1>h, <2>2, <2>3, <1>f
<1>14. ASSUME NEW r \in Req, ChangePassword(r)
       PROVE  UpToDate'
  <2>1. PICK state : state = [at |-> "keep", session |-> req[r].session]
    OBVIOUS
  <2>2. state \in Request /\ req[r] # Idle /\ state.at \in behind /\ Become(r, state)
    BY <1>0, <1>14, <2>1, RequestShape DEF ChangePassword, Request, Idle
  <2> QED
    BY <1>a, <2>2, <1>d
<1>15. ASSUME NEW r \in Req, Keep(r)
       PROVE  UpToDate'
  <2>1. PICK s, keep : /\ s = req[r].session
                       /\ keep = IF s \in Live THEN {[id |-> s, was |-> data[s]]} ELSE {}
    OBVIOUS
  <2>2. PICK state : state = [at |-> "revoke_list", keep |-> keep]
    OBVIOUS
  <2>3. Proceed(r, state) /\ req[r] # Idle /\ state.at \in behind
    BY <1>15, <2>1, <2>2 DEF Keep, Idle
  <2>4. s \in Live => s \in SessionId /\ data[s] \in Session
    BY <1>0 DEF Live, TypeOK
  <2>5. state \in Request
    BY <2>1, <2>2, <2>4 DEF Kept, Request
  <2> QED
    BY <1>a, <2>3, <2>5, <1>c, <1>d
<1>16. ASSUME NEW r \in Req, ResetPassword(r)
       PROVE  UpToDate'
  <2>1. PICK state : state = [at |-> "reset"]
    OBVIOUS
  <2>2. state \in Request /\ Holds(state) /\ Begin(r, state)
    BY <1>16, <2>1 DEF Request, ResetPassword
  <2> QED
    BY <2>2, <1>b, <1>g, <1>h
<1>17. ASSUME NEW r \in Req, ResetCommit(r)
       PROVE  UpToDate'
  <2>1. PICK state : state = [at |-> "revoke_list", keep |-> {}]
    OBVIOUS
  <2>2. state \in Request /\ state.at \in behind /\ Become(r, state) /\ req[r] # Idle
    BY <1>17, <2>1 DEF Request, ResetCommit, Idle
  <2> QED
    BY <1>a, <2>2, <1>d
<1>18. ASSUME NEW r \in Req, RevokeList(r)
       PROVE  UpToDate'
  <2>1. PICK keep : keep = req[r].keep
    OBVIOUS
  <2>2. PICK state : state = [at |-> "revoke", keep |-> keep, ids |-> list]
    OBVIOUS
  <2>3. keep \subseteq Kept /\ req[r] # Idle /\ Proceed(r, state)
    BY <1>0, <1>18, <2>1, <2>2, RequestShape DEF RevokeList, Idle
  <2>4. state \in Request /\ state.at \in behind
    BY <1>0, <2>2, <2>3 DEF Request, TypeOK
  <2> QED
    BY <1>a, <2>3, <2>4, <1>c, <1>d
\* Nothing is left that could be behind: the list was read after the change.
<1>19. ASSUME NEW r \in Req, RevokeCommit(r)
       PROVE  UpToDate'
  <2>1. PICK keep, ids : keep = req[r].keep /\ ids = req[r].ids
    OBVIOUS
  <2>2. PICK state : state = IF keep = {} THEN Idle ELSE [at |-> "keep_save", keep |-> keep]
    OBVIOUS
  <2>3. keep \subseteq Kept /\ req[r].at = "revoke" /\ req[r] # Idle /\ Live \subseteq ids
    BY <1>0, <1>19, <2>1, RequestShape DEF RevokeCommit, Idle, Orderly, Fits
  <2>4. state \in Request \cup {Idle} /\ Holds(state)
    BY <2>2, <2>3 DEF Request, Idle
  <2>5. Become(r, state) /\ Revoke(ids)
    BY <1>19, <2>1, <2>2 DEF RevokeCommit
  <2>6. Live' = {}
    <3>1. CASE ids = {}
      BY <2>3, <2>5, <3>1 DEF Revoke, Live
    <3>2. CASE Deleted(ids, {})
      BY <1>0, <2>3, <3>2, DeletedKeys DEF Live
    <3> QED
      BY <2>5, <3>1, <3>2 DEF Revoke
  <2> QED
    BY <1>a, <2>3, <2>4, <2>5, <2>6, <1>e
<1>20. ASSUME NEW r \in Req, KeepSave(r)
       PROVE  UpToDate'
  <2>1. PICK k \in req[r].keep :
          /\ Stored(k.id, k.was)
          /\ opened' = [opened EXCEPT ![k.id].password = password]
    BY <1>20 DEF KeepSave
  <2>2. PICK s, e : s = k.id /\ e = k.was
    OBVIOUS
  <2>3. /\ s \in SessionId /\ e \in Session /\ req[r].at = "keep_save" /\ req[r] # Idle
        /\ s \in Opened
    BY <1>0, <1>20, <2>1, <2>2, RequestShape DEF KeepSave, Kept, Idle, Lineage, Sound
  <2>4. Become(r, Idle) /\ password' = password
    BY <1>20 DEF KeepSave
  <2>5. Stored(s, e) /\ e.created \in Time /\ e.expires \in Time
    BY <2>1, <2>2, <2>3 DEF Session
  <2>6. \A t \in Live' : t = s \/ t \in Live
    BY <1>0, <2>3, <2>5, StoredKeyLives DEF Live
  <2>7. /\ opened'[s].password = password
        /\ \A t \in SessionId : t # s => opened'[t] = opened[t]
    BY <1>0, <2>1, <2>2, <2>3 DEF TypeOK, Opened, Opening
  <2>8. ~Behind
    BY <1>a, <2>3 DEF Behind, Idle
  <2>9. \A t \in Live' : opened'[t].password = password'
    BY <2>4, <2>6, <2>7, <2>8 DEF UpToDate, Live
  <2> QED
    BY <1>a, <1>h, <2>3, <2>4, <2>9, <1>e
<1>21. ASSUME NEW r \in Req, Fail(r)
       PROVE  UpToDate'
  BY <1>21 DEF Fail
<1>22. CASE UNCHANGED vars
  <2>1. UNCHANGED <<password, req, opened, data>>
    BY <1>22 DEF vars, store, history
  <2>2. Live' = Live
    BY <2>1 DEF Live
  <2> QED
    BY <2>1, <2>2, <1>1
<1> QED
  BY <1>2, <1>3, <1>4, <1>5, <1>6, <1>7, <1>8, <1>9, <1>10, <1>11, <1>12, <1>13, <1>14,
     <1>15, <1>16, <1>17, <1>18, <1>19, <1>20, <1>21, <1>22
  DEF Next, Login, Change, Reset, RevokeAll

-----------------------------------------------------------------------------
(* The theorems *)

\* What happened is not forgotten.
LEMMA PastGrows == [Next]_vars => past \subseteq past'
<1> SUFFICES ASSUME Next PROVE past \subseteq past'
  BY DEF vars, history
<1> QED
  BY DEF Next, Tick, Sweep, Login, LoginRead, LoginCount, LoginList, LoginEvict, LoginSave,
         Authenticate, OptionalAuth, Present, AuthSave, Serve, LogoutBegin, LogoutCommit,
         Change, ChangePassword, Keep, KeepSave, Reset, ResetPassword, ResetCommit,
         RevokeAll, RevokeList, RevokeCommit, Fail, Begin, Proceed, history

\* In every state: openings and copies go together; while requests do not
\* overlap there is room for what is saved; and nothing is behind the password
\* but during a change.
THEOREM SessionsInvariant == Spec => []SessionInv
<1>1. Init => SessionInv
  <2> SUFFICES ASSUME Init PROVE SessionInv
    OBVIOUS
  <2>1. Base /\ Live = {}
    BY InitBase DEF Init, Live
  <2>2. Orderly
    <3>1. Cardinality(Live) <= MaxSessions
      BY <2>1, FS_EmptySet, SessionsAssumption
    <3>2. \A r \in Req : Fits(req[r])
      BY DEF Init, Fits, Carried, Idle
    <3> QED
      BY <2>1, <3>1, <3>2 DEF Init, Orderly
  <2>3. UpToDate
    BY <2>1 DEF Init, UpToDate, Idle
  <2> QED
    BY <2>1, <2>2, <2>3 DEF SessionInv
<1>2. SessionInv /\ [Next]_vars => SessionInv'
  <2> SUFFICES ASSUME SessionInv, [Next]_vars PROVE SessionInv'
    OBVIOUS
  <2>1. Base'
    BY NextBase DEF SessionInv
  <2>2. past \subseteq past'
    BY PastGrows
  <2>3. "overlap" \notin past' => Orderly'
    BY <2>2, NextOrderly DEF SessionInv
  <2>4. past' = {} => UpToDate'
    BY <2>2, NextUpToDate DEF SessionInv
  <2> QED
    BY <2>1, <2>3, <2>4 DEF SessionInv
<1> QED
  BY <1>1, <1>2, PTL DEF Spec

\* Every key, copy and history is what the code keeps there.
THEOREM SessionsTypeCorrect == Spec => []TypeOK
<1>1. SessionInv => TypeOK
  BY DEF SessionInv, Base
<1> QED
  BY <1>1, SessionsInvariant, PTL

\* Nobody is let in later than MaxLifetime after the login, whatever overlaps
\* and whatever fails: a session saved again keeps the time of its login.
THEOREM LifetimeIsKept == Spec => []WithinLifetime
<1>1. SessionInv => WithinLifetime
  BY DEF SessionInv, Base, Lineage, Sound, WithinLifetime
<1> QED
  BY <1>1, SessionsInvariant, PTL

\* Requests one after another, failing wherever they may, leave no session off
\* the list, no more sessions than allowed, and none that is logged out.
THEOREM ListKnowsSessions == Spec => []LiveSessionsKnown
<1>1. SessionInv => LiveSessionsKnown
  BY DEF SessionInv, Orderly, LiveSessionsKnown
<1> QED
  BY <1>1, SessionsInvariant, PTL

\* When nothing overlapped and nothing failed, a change of the password leaves
\* only sessions that know it.
THEOREM PasswordRulesSessions == Spec => []SessionsFollowPassword
<1>1. SessionInv => SessionsFollowPassword
  BY DEF SessionInv, UpToDate, Behind, Idle, SessionsFollowPassword
<1> QED
  BY <1>1, SessionsInvariant, PTL
=============================================================================
