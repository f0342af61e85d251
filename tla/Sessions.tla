------------------------------ MODULE Sessions ------------------------------
(***************************************************************************)
(* The sessions of one user in Redis: a key per session with a time to     *)
(* live, and a set that lists the identifiers.  A request sends commands   *)
(* one after another; only a MULTI/EXEC pipeline is atomic, so that other  *)
(* requests, in this process or another, act in between.                   *)
(*                                                                         *)
(* Time is counted in steps of a clock.  A session is extended by every    *)
(* request that presents it, and ends at the latest MaxLifetime after the  *)
(* login (session.go counts days: 7 and 30).                               *)
(***************************************************************************)
EXTENDS Naturals, FiniteSets

CONSTANTS
  SessionId,     \* identifiers uuid.New() may return, each used once
  Req,           \* requests served at the same time
  MaxSessions,   \* MaxActiveSessionsPerUser
  Ttl,           \* SessionTTL
  MaxLifetime,   \* MaxSessionLifetime
  MaxTime,       \* bound: the clock stops here
  MaxPassword,   \* bound: passwords the user ever has, counted from 1
  MayFail,       \* TRUE: Redis calls and processes may fail
  NoKey

VARIABLES
  now,
  password,   \* the column password_hash, as the number of the password
  data,       \* keys session:<id>
  list,       \* set user_sessions:<user>
  expelled,   \* identifiers a background SREM is still to take off the list
  req,        \* the requests
  opened,     \* history: time and password a session was opened with
  ended,      \* history: sessions the user has logged out of
  past        \* history: requests overlapped, a request failed half-way

store == <<data, list, expelled>>
history == <<opened, ended, past>>
vars == <<now, password, store, req, history>>

Time == 0..(MaxTime + Ttl)
Session == [created: Time, expires: Time, until: Time]
Opening == [at: Time, password: 1..MaxPassword]

ASSUME SessionsAssumption ==
  /\ {MaxSessions, Ttl, MaxLifetime, MaxTime, MaxPassword} \subseteq Nat \ {0}
  /\ MayFail \in BOOLEAN
  /\ NoKey \notin Session \cup Opening

Idle == [at |-> "idle"]

\* The session a password change keeps, as it was read.
Kept == [id: SessionId, was: Session]

\* What a request holds between its commands.
Request ==
  [at: {"login_count", "login_list", "login_save"}, password: 1..MaxPassword]
    \cup [at: {"login_evict"}, password: 1..MaxPassword, session: SessionId]
    \cup [at: {"auth_save"}, session: SessionId, was: Session, checked: 0..MaxTime]
    \cup [at: {"authorized"}, session: SessionId, checked: 0..MaxTime]
    \cup [at: {"logout", "keep"}, session: SessionId]
    \cup [at: {"reset"}]
    \cup [at: {"revoke_list", "keep_save"}, keep: SUBSET Kept]
    \cup [at: {"revoke"}, keep: SUBSET Kept, ids: SUBSET SessionId]

TypeOK ==
  /\ req \in [Req -> Request \cup {Idle}]
  /\ now \in 0..MaxTime
  /\ password \in 1..MaxPassword
  /\ data \in [SessionId -> Session \cup {NoKey}]
  /\ \A s \in SessionId : data[s] # NoKey => now < data[s].until
  /\ list \subseteq SessionId /\ expelled \subseteq SessionId
  /\ opened \in [SessionId -> Opening \cup {NoKey}]
  /\ ended \subseteq SessionId
  /\ past \subseteq {"overlap", "failure"}

Init ==
  /\ now = 0
  /\ password = 1
  /\ data = [s \in SessionId |-> NoKey]
  /\ list = {} /\ expelled = {}
  /\ req = [r \in Req |-> Idle]
  /\ opened = [s \in SessionId |-> NoKey]
  /\ ended = {}
  /\ past = {}

Live == {s \in SessionId : data[s] # NoKey}

\* Redis drops a key when its time is up; the list keeps the identifier.
Tick ==
  /\ now < MaxTime
  /\ now' = now + 1
  /\ data' = [s \in SessionId |->
                IF data[s] # NoKey /\ data[s].until > now + 1 THEN data[s] ELSE NoKey]
  /\ UNCHANGED <<password, list, expelled, req, history>>

-----------------------------------------------------------------------------
(* Requests *)

Become(r, state) == req' = [req EXCEPT ![r] = state]

Begin(r, state) ==
  /\ req[r] = Idle
  /\ Become(r, state)
  /\ past' = past \cup (IF \E q \in Req \ {r} : req[q] # Idle THEN {"overlap"} ELSE {})
  /\ UNCHANGED <<now, password, store, opened, ended>>

Proceed(r, state) ==
  /\ Become(r, state)
  /\ UNCHANGED <<now, password, store, history>>

\* A call fails, or the process dies; what was sent before stays.
Fail(r) ==
  /\ MayFail
  /\ req[r] # Idle
  /\ Become(r, Idle)
  /\ past' = past \cup {"failure"}
  /\ UNCHANGED <<now, password, store, opened, ended>>

-----------------------------------------------------------------------------
(* SessionStore *)

\* Mutant: the key lives as long as the entity says, even if that is over.
StoredAsIs(s, e) ==
  /\ data' = [data EXCEPT ![s] = [created |-> e.created, expires |-> e.expires, until |-> e.expires]]
  /\ list' = list \cup {s}

\* Mutant: the key is set and the list forgotten.
StoredKey(s, e) ==
  /\ data' = [data EXCEPT ![s] = [created |-> e.created, expires |-> e.expires,
                                  until |-> IF e.expires > now THEN e.expires ELSE now + Ttl]]
  /\ list' = list

\* Save, a pipeline: an entity that has expired gets a whole Ttl.
Stored(s, e) ==
  /\ data' = [data EXCEPT ![s] = [created |-> e.created, expires |-> e.expires,
                                  until |-> IF e.expires > now THEN e.expires ELSE now + Ttl]]
  /\ list' = list \cup {s}

\* Delete and DeleteByUserID, pipelines: the second drops the whole list,
\* with identifiers that were added since the list was read.
Deleted(ids, rest) ==
  /\ data' = [s \in SessionId |-> IF s \in ids THEN NoKey ELSE data[s]]
  /\ list' = rest

\* FindByUserID starts a background SREM for what it did not find.
Sweep ==
  /\ expelled # {}
  /\ list' = list \ expelled
  /\ expelled' = {}
  /\ UNCHANGED <<now, password, data, req, history>>

-----------------------------------------------------------------------------
(* LoginCommand, and OAuthLoginCommand from the session limit on *)

LoginRead(r) == Begin(r, [at |-> "login_count", password |-> password])

AtLimit(n) == n >= MaxSessions

\* CountByUserID counts identifiers, of sessions that are gone as well.
LoginCount(r) ==
  /\ req[r].at = "login_count"
  /\ Proceed(r, [req[r] EXCEPT !.at = IF AtLimit(Cardinality(list)) THEN "login_list" ELSE "login_save"])

\* DeleteOldestByUserID, first half: FindByUserID.
LoginList(r) ==
  LET found == list \cap Live
      oldest == {s \in found : \A t \in found : data[s].created <= data[t].created}
  IN /\ req[r].at = "login_list"
     /\ expelled' = expelled \cup (list \ found)
     /\ \/ /\ found = {}
           /\ Become(r, [req[r] EXCEPT !.at = "login_save"])
        \/ \E s \in oldest :
             Become(r, [at |-> "login_evict", password |-> req[r].password, session |-> s])
     /\ UNCHANGED <<now, password, data, list, history>>

\* Second half: Delete of a session that may be gone by now.
LoginEvict(r) ==
  /\ req[r].at = "login_evict"
  /\ IF req[r].session \in Live
     THEN Deleted({req[r].session}, list \ {req[r].session})
     ELSE UNCHANGED <<data, list>>
  /\ Become(r, [at |-> "login_save", password |-> req[r].password])
  /\ UNCHANGED <<now, password, expelled, history>>

LoginSave(r) ==
  /\ req[r].at = "login_save"
  /\ \E s \in SessionId :
       /\ opened[s] = NoKey
       /\ Stored(s, [created |-> now, expires |-> now + Ttl])
       /\ opened' = [opened EXCEPT ![s] = [at |-> now, password |-> req[r].password]]
  /\ Become(r, Idle)
  /\ UNCHANGED <<now, password, expelled, ended, past>>

\* AuthHandler.Login: each step ends where the process may be interrupted.
Login(r) ==
  LoginRead(r) \/ LoginCount(r) \/ LoginList(r) \/ LoginEvict(r) \/ LoginSave(r)

-----------------------------------------------------------------------------
(* SessionAuthMiddleware *)

\* Session.IsExpired
IsExpired(e) == now > e.expires \/ now > e.created + MaxLifetime

Present(r, s) ==
  Begin(r, [at |-> "auth_save", session |-> s, was |-> data[s], checked |-> now])

\* A session that expired is deleted on sight, with the read of Delete left
\* out: the pipeline does the same without the key.
Authenticate(r, s) ==
  /\ s \in Live
  /\ IF IsExpired(data[s])
     THEN Begin(r, [at |-> "logout", session |-> s])
     ELSE Present(r, s)

\* OptionalAuth goes on without a user where Authenticate refuses.
OptionalAuth(r, s) ==
  /\ s \in Live
  /\ ~IsExpired(data[s])
  /\ Present(r, s)

\* Mutant: a session starts anew with every request.
RefreshWhole(e) == [e EXCEPT !.created = now, !.expires = now + Ttl]

\* Session.Refresh
Refresh(e) == [e EXCEPT !.expires = now + Ttl]

\* The session is saved as it was read, whether or not it still exists; the
\* request goes on when that fails.
AuthSave(r) ==
  /\ req[r].at = "auth_save"
  /\ \/ Stored(req[r].session, Refresh(req[r].was))
     \/ MayFail /\ UNCHANGED <<data, list>>
  /\ Become(r, [at |-> "authorized", session |-> req[r].session, checked |-> req[r].checked])
  /\ UNCHANGED <<now, password, expelled, history>>

\* A handler that has no business with sessions.
Serve(r) ==
  /\ req[r].at = "authorized"
  /\ Proceed(r, Idle)

-----------------------------------------------------------------------------
(* LogoutCommand *)

LogoutBegin(r) ==
  /\ req[r].at = "authorized"
  /\ Proceed(r, [at |-> "logout", session |-> req[r].session])

Logout(s) == Deleted({s}, list \ {s})

LogoutCommit(r) ==
  /\ req[r].at = "logout"
  /\ Logout(req[r].session)
  /\ ended' = ended \cup {req[r].session}
  /\ Become(r, Idle)
  /\ UNCHANGED <<now, password, expelled, opened, past>>

-----------------------------------------------------------------------------
(* ChangePasswordCommand and SetPasswordCommand.  The row of the user is     *)
(* written first; then every session goes and the current one returns.       *)

ChangePassword(r) ==
  /\ req[r].at = "authorized"
  /\ password < MaxPassword
  /\ password' = password + 1
  /\ Become(r, [at |-> "keep", session |-> req[r].session])
  /\ UNCHANGED <<now, store, history>>

\* FindByID of the current session; an error counts as none.
Keep(r) ==
  /\ req[r].at = "keep"
  /\ LET s == req[r].session IN
     Proceed(r, [at |-> "revoke_list",
                 keep |-> IF s \in Live THEN {[id |-> s, was |-> data[s]]} ELSE {}])

\* ResetPasswordCommand gets here with nothing to keep.
ResetPassword(r) ==
  /\ password < MaxPassword
  /\ Begin(r, [at |-> "reset"])

ResetCommit(r) ==
  /\ req[r].at = "reset"
  /\ password < MaxPassword
  /\ password' = password + 1
  /\ Become(r, [at |-> "revoke_list", keep |-> {}])
  /\ UNCHANGED <<now, store, history>>

\* DeleteByUserID, first half: SMEMBERS.
RevokeList(r) ==
  /\ req[r].at = "revoke_list"
  /\ Proceed(r, [at |-> "revoke", keep |-> req[r].keep, ids |-> list])

\* Mutant: the sessions are left alone.
RevokeNone(ids) == UNCHANGED <<data, list>>

Revoke(ids) == IF ids = {} THEN UNCHANGED <<data, list>> ELSE Deleted(ids, {})

RevokeCommit(r) ==
  /\ req[r].at = "revoke"
  /\ Revoke(req[r].ids)
  /\ Become(r, IF req[r].keep = {} THEN Idle ELSE [at |-> "keep_save", keep |-> req[r].keep])
  /\ UNCHANGED <<now, password, expelled, history>>

\* The session that changed the password speaks for the new one.
KeepSave(r) ==
  /\ req[r].at = "keep_save"
  /\ \E k \in req[r].keep :
       /\ Stored(k.id, k.was)
       /\ opened' = [opened EXCEPT ![k.id].password = password]
  /\ Become(r, Idle)
  /\ UNCHANGED <<now, password, expelled, ended, past>>

\* DeleteByUserID
RevokeAll(r) == RevokeList(r) \/ RevokeCommit(r)

\* AuthHandler.ChangePassword, AuthHandler.ResetPassword
Change(r) == ChangePassword(r) \/ Keep(r) \/ KeepSave(r)

Reset(r) == ResetPassword(r) \/ ResetCommit(r)

Next ==
  \/ Tick
  \/ Sweep
  \/ \E r \in Req :
       \/ Login(r)
       \/ \E s \in SessionId : Authenticate(r, s) \/ OptionalAuth(r, s)
       \/ AuthSave(r)
       \/ Serve(r)
       \/ LogoutBegin(r) \/ LogoutCommit(r)
       \/ Change(r) \/ Reset(r) \/ RevokeAll(r)
       \/ Fail(r)

Spec == Init /\ [][Next]_vars

-----------------------------------------------------------------------------
(* Properties *)

\* However often a session is extended, saved again by a request that read
\* it before, or put back by a password change: no request is let in with it
\* later than MaxLifetime after the login.
WithinLifetime ==
  \A r \in Req :
    req[r].at = "authorized" =>
      req[r].checked <= opened[req[r].session].at + MaxLifetime

\* As long as requests do not overlap, every session that can be used is on the
\* list, where a password change finds it; there are no more of them than session.go
\* allows (R-SS002); and a logout is final.  Failures do no harm.
LiveSessionsKnown ==
  "overlap" \notin past =>
    /\ Live \subseteq list \ expelled
    /\ Cardinality(Live) <= MaxSessions
    /\ ended \cap Live = {}

\* change_password.go, reset_password.go: once the command is through, only
\* sessions opened with the password of the user are left.
SessionsFollowPassword ==
  past = {} /\ (\A r \in Req : req[r] = Idle) =>
    \A s \in Live : opened[s].password = password
=============================================================================
