--------------------------- MODULE AccountsProofs ---------------------------
(***************************************************************************)
(* What Accounts keeps for every number of requests, tokens and passwords: *)
(* an account always has a way in, and the rows that requests hold while   *)
(* others act are the reason.                                              *)
(***************************************************************************)
EXTENDS Accounts, FiniteSetTheorems, TLAPS

\* A row that may be written back: it leaves a way in, active means verified.
Sound(row) ==
  /\ row.status = "active" => row.verified
  /\ row.password # Unset \/ (link /\ row.status = "active")

HoldsRow(r) == req[r].at \in {"verify", "reset", "password", "rename", "oauth_link"}

\* The row of the table and every copy of it are sound, however old the copy:
\* a link stays, and an account stays too.
RowsSound ==
  /\ user # NoRow => Sound(user)
  /\ \A r \in Req : /\ HoldsRow(r) => Sound(req[r].row)
                    /\ req[r].at \notin {"idle", "register", "oauth_new"} => user # NoRow

\* No password is reported before there is an account; a token that set one was
\* generated.
Recorded ==
  /\ user = NoRow => last = Unset
  /\ \A t \in TokenId : spent[t] > 0 => t \in given
  /\ \A r \in Req : req[r].at = "reset" => req[r].token \in given

\* The state of the account as long as requests do not overlap.
Undisturbed ==
  /\ user # NoRow => /\ user.password = last
                     /\ user.verified \/ link => user.status = "active"
  /\ \A t \in TokenId :
       spent[t] > 0 => spent[t] = 1 /\ (token[t] = NoRow \/ token[t].used)

\* The one request there is then holds the rows as they are.
CopiesCurrent ==
  /\ \A r, q \in Req : req[r] # Idle /\ req[q] # Idle => r = q
  /\ \A r \in Req :
       /\ HoldsRow(r) => req[r].row = user
       /\ req[r].at = "reset" => /\ token[req[r].token] # NoRow
                                 /\ ~token[req[r].token].used
       /\ req[r].at = "profile" =>
            \A f \in {"bio", "locale"} : f # req[r].field => req[r].row[f] = GetProfile[f]

\* And, if nothing failed, the old token is gone before the new one comes.
TokensReplaced ==
  \A kind \in {"verify", "reset"} :
    /\ \A t, u \in OfKind(kind) : t = u
    /\ \A r \in Req : req[r].at = "create_token" /\ req[r].kind = kind => OfKind(kind) = {}

AInv ==
  /\ TypeOK
  /\ RowsSound
  /\ Recorded
  /\ "overlap" \notin past => Undisturbed /\ CopiesCurrent
  /\ past = {} => TokensReplaced

-----------------------------------------------------------------------------
(* Shapes *)

LEMMA RequestShape ==
  ASSUME TypeOK, NEW r \in Req
  PROVE  /\ req[r] = Idle <=> req[r].at = "idle"
         /\ HoldsRow(r) => req[r].row \in User
         /\ req[r].at \in {"drop", "verify", "reset"} => req[r].token \in TokenId
         /\ req[r].at \in {"delete_tokens", "create_token"} => req[r].kind \in {"verify", "reset"}
         /\ req[r].at = "profile" => req[r].row \in Profile /\ req[r].field \in {"bio", "locale"}
BY DEF TypeOK, Request, Idle, HoldsRow

\* What UserRepository.Update leaves in the table.
LEMMA SavedRow ==
  ASSUME TypeOK, user # NoRow, NEW row \in User, Saved(row)
  PROVE  /\ user' \in User /\ user' # NoRow
         /\ user'.password = row.password
         /\ user'.status = row.status
         /\ user'.verified = (row.verified \/ user.verified)
<1> DEFINE v == row.verified \/ user.verified
<1>1. user' = [row EXCEPT !.verified = v]
  BY DEF Saved
<1>2. v \in BOOLEAN
  BY DEF User, TypeOK
<1> HIDE DEF v
<1>3. /\ user' \in User
      /\ user'.password = row.password
      /\ user'.status = row.status
      /\ user'.verified = v
  BY <1>1, <1>2 DEF User
<1>4. user' # NoRow
  BY <1>3, AccountsAssumption
<1> QED
  BY <1>3, <1>4, Zenon DEF v

LEMMA ProfileShown == TypeOK => GetProfile \in Profile
BY DEF TypeOK, GetProfile, NewUserProfile, Profile, FindProfile

LEMMA InitAInv == Init => AInv
<1> SUFFICES ASSUME Init PROVE AInv
  OBVIOUS
<1>1. TypeOK
  <2>1. link \in BOOLEAN /\ ~(link \/ profile # NoRow \/ given # {})
    BY DEF Init
  <2>2. spent \in [TokenId -> 0..2]
    BY DEF Init
  <2> QED
    BY <2>1, <2>2 DEF Init, TypeOK
<1>2. RowsSound /\ Recorded
  BY DEF Init, RowsSound, Recorded, HoldsRow, Idle
<1>3. Undisturbed /\ CopiesCurrent
  BY DEF Init, Undisturbed, CopiesCurrent, HoldsRow, Idle
<1>4. TokensReplaced
  BY DEF Init, TokensReplaced, OfKind, Idle
<1> QED
  BY <1>1, <1>2, <1>3, <1>4 DEF AInv

-----------------------------------------------------------------------------
(* Steps that begin a request: the tables stay, a copy is current. *)

LEMMA BeginStep ==
  ASSUME AInv, NEW r \in Req, NEW state \in Request, Begin(r, state),
         state.at \notin {"register", "oauth_new"} => user # NoRow,
         state.at # "create_token",
         state.at \in {"verify", "reset", "password", "rename", "oauth_link"} => state.row = user,
         state.at = "reset" => token[state.token] # NoRow /\ ~token[state.token].used,
         state.at = "profile" =>
           \A f \in {"bio", "locale"} : f # state.field => state.row[f] = GetProfile[f]
  PROVE  AInv'
<1>1. \A q \in Req : req'[q] = IF q = r THEN state ELSE req[q]
  BY DEF AInv, TypeOK, Begin, Become
<1>2. UNCHANGED <<user, link, profile, token, given, last, spent>> /\ past \subseteq past'
  BY DEF Begin, rows
<1>3. past' \subseteq {"overlap", "failure"}
  BY DEF Begin, AInv, TypeOK
<1>4. TypeOK'
  BY <1>2, <1>3 DEF AInv, TypeOK, Begin, Become
<1>5. RowsSound'
  BY <1>1, <1>2 DEF AInv, RowsSound, HoldsRow, Sound
<1>6. Recorded'
  <2>1. state.at = "reset" => state.token \in given
    BY DEF AInv, TypeOK, Request
  <2> QED
    BY <1>1, <1>2, <2>1 DEF AInv, Recorded
<1>7. ASSUME "overlap" \notin past'
      PROVE  Undisturbed' /\ CopiesCurrent'
  <2>1. \A q \in Req \ {r} : req[q] = Idle
    BY <1>7 DEF Begin
  <2>2. Undisturbed /\ CopiesCurrent
    BY <1>2, <1>7 DEF AInv
  <2>3. GetProfile' = GetProfile
    BY <1>2 DEF GetProfile, FindByID, FindProfile
  <2>4. CopiesCurrent'
    BY <1>1, <1>2, <2>1, <2>3 DEF CopiesCurrent, HoldsRow, Idle
  <2> QED
    BY <1>2, <2>2, <2>4 DEF Undisturbed
<1>8. ASSUME past' = {}
      PROVE  TokensReplaced'
  <2>1. past = {} /\ TokensReplaced
    BY <1>2, <1>8 DEF AInv
  <2>2. \A kind : OfKind(kind)' = OfKind(kind)
    BY <1>2 DEF OfKind
  <2> QED
    BY <1>1, <2>1, <2>2 DEF TokensReplaced
<1> QED
  BY <1>4, <1>5, <1>6, <1>7, <1>8 DEF AInv

\* A step that ends a request: only what it did to the tables is at stake.
LEMMA EndStep ==
  ASSUME AInv, NEW r \in Req, req[r] # Idle, Become(r, Idle),
         TypeOK', past \subseteq past', given \subseteq given',
         link => link',
         user # NoRow => user' # NoRow,
         user' # NoRow => Sound(user)',
         user' = NoRow => last' = Unset,
         \A t \in TokenId : spent'[t] > 0 => t \in given',
         "overlap" \notin past => Undisturbed',
         past = {} => \A kind \in {"verify", "reset"} : \A t, u \in OfKind(kind)' : t = u
  PROVE  AInv'
<1>1. \A q \in Req : req'[q] = IF q = r THEN Idle ELSE req[q]
  BY DEF AInv, TypeOK, Become
<1>2. RowsSound'
  BY <1>1 DEF AInv, RowsSound, HoldsRow, Sound, Idle
<1>3. Recorded'
  BY <1>1 DEF AInv, Recorded, Idle
<1>4. ASSUME "overlap" \notin past'
      PROVE  Undisturbed' /\ CopiesCurrent'
  <2>1. \A q \in Req : req'[q] = Idle
    BY <1>1, <1>4 DEF AInv, CopiesCurrent
  <2> QED
    BY <1>4, <2>1 DEF CopiesCurrent, HoldsRow, Idle
<1>5. ASSUME past' = {}
      PROVE  TokensReplaced'
  <2>1. past = {} /\ "overlap" \notin past
    BY <1>5
  <2>2. \A q \in Req : req'[q] = Idle
    BY <1>1, <2>1 DEF AInv, CopiesCurrent
  <2> QED
    BY <2>1, <2>2 DEF TokensReplaced, Idle
<1> QED
  BY <1>2, <1>3, <1>4, <1>5 DEF AInv

\* A step that writes a row it holds back.
LEMMA SaveStep ==
  ASSUME AInv, NEW r \in Req, HoldsRow(r), Become(r, Idle),
         NEW row \in User, Saved(row),
         row.status = "active" => row.verified,
         row.password # Unset \/ (link' /\ row.status = "active"),
         UNCHANGED <<profile, given, past>>,
         link => link', link' \in BOOLEAN,
         token' \in [TokenId -> Token \cup {NoRow}],
         \A t \in TokenId : \/ token'[t] = NoRow
                            \/ token[t] # NoRow /\ token'[t].kind = token[t].kind,
         last' \in Password \cup {Unset},
         spent' \in [TokenId -> 0..2],
         \A t \in TokenId : spent'[t] > 0 => t \in given,
         "overlap" \notin past =>
           /\ row.password = last'
           /\ row.verified \/ user.verified \/ link' => row.status = "active"
           /\ \A t \in TokenId :
                spent'[t] > 0 => spent'[t] = 1 /\ (token'[t] = NoRow \/ token'[t].used)
  PROVE  AInv'
<1>0. TypeOK /\ RowsSound
  BY DEF AInv
<1>1. user # NoRow /\ req[r] # Idle
  BY <1>0 DEF RowsSound, HoldsRow, Idle
<1>2. /\ user' \in User /\ user' # NoRow
      /\ user'.password = row.password
      /\ user'.status = row.status
      /\ user'.verified = (row.verified \/ user.verified)
  BY <1>0, <1>1, SavedRow
<1>3. req' \in [Req -> Request \cup {Idle}]
  BY <1>0 DEF TypeOK, Become
<1>4. \A t \in TokenId : token'[t] # NoRow => t \in given
  BY <1>0 DEF TypeOK
<1>5. TypeOK'
  BY <1>0, <1>2, <1>3, <1>4 DEF TypeOK
<1>6. Sound(user)'
  BY <1>2 DEF Sound
<1>7. "overlap" \notin past => Undisturbed'
  BY <1>2 DEF Undisturbed
<1>8. ASSUME past = {}, NEW kind \in {"verify", "reset"}
      PROVE  \A t, u \in OfKind(kind)' : t = u
  <2>1. OfKind(kind)' \subseteq OfKind(kind)
    BY DEF OfKind
  <2> QED
    BY <1>8, <2>1 DEF AInv, TokensReplaced
<1> QED
  BY <1>1, <1>2, <1>5, <1>6, <1>7, <1>8, EndStep

\* The time a token is good for ends.
LEMMA ExpireStep ==
  ASSUME AInv, NEW t \in TokenId, Expire(t)
  PROVE  AInv'
<1>0. TypeOK /\ token[t] \in Token
  BY DEF AInv, TypeOK, Expire
<1>1. UNCHANGED <<user, link, profile, req, given, last, spent, past>>
  BY DEF Expire, history
<1>2. \A u \in TokenId : token'[u] = IF u = t THEN [token[t] EXCEPT !.expired = TRUE] ELSE token[u]
  BY <1>0 DEF Expire, TypeOK
<1>3. /\ [token[t] EXCEPT !.expired = TRUE] \in Token
      /\ [token[t] EXCEPT !.expired = TRUE].kind = token[t].kind
      /\ [token[t] EXCEPT !.expired = TRUE].used = token[t].used
  BY <1>0 DEF Token
<1>4. \A u \in TokenId : /\ token'[u] # NoRow <=> token[u] # NoRow
                         /\ token[u] # NoRow => token'[u].kind = token[u].kind
                         /\ token[u] # NoRow => token'[u].used = token[u].used
  BY <1>0, <1>2, <1>3, AccountsAssumption
<1>5. token' \in [TokenId -> Token \cup {NoRow}]
  BY <1>0, <1>3 DEF Expire, TypeOK
<1>6. TypeOK'
  BY <1>0, <1>1, <1>4, <1>5 DEF TypeOK
<1>7. RowsSound' /\ Recorded'
  BY <1>1 DEF AInv, RowsSound, Recorded, HoldsRow, Sound
<1>8. GetProfile' = GetProfile
  BY <1>1 DEF GetProfile, FindByID, FindProfile
<1>9. Undisturbed => Undisturbed'
  BY <1>1, <1>4 DEF Undisturbed
<1>10. CopiesCurrent => CopiesCurrent'
  BY <1>0, <1>1, <1>4, <1>8, RequestShape DEF CopiesCurrent, HoldsRow
<1>11. TokensReplaced => TokensReplaced'
  <2>1. \A kind : OfKind(kind)' = OfKind(kind)
    BY <1>4 DEF OfKind
  <2> QED
    BY <1>1, <2>1 DEF TokensReplaced
<1> QED
  BY <1>1, <1>6, <1>7, <1>9, <1>10, <1>11 DEF AInv

\* The old tokens go, the new one is still to come.
LEMMA DeleteStep ==
  ASSUME AInv, NEW r \in Req, DeleteTokens(r)
  PROVE  AInv'
<1> DEFINE state == [at |-> "create_token", kind |-> req[r].kind]
<1>0. TypeOK /\ RowsSound /\ Recorded
  BY DEF AInv
<1>1. req[r].at = "delete_tokens" /\ req[r].kind \in {"verify", "reset"} /\ user # NoRow
  BY <1>0, RequestShape DEF DeleteTokens, RowsSound
<1>2. state \in Request
  BY <1>1 DEF Request
<1>3. \A q \in Req : req'[q] = IF q = r THEN state ELSE req[q]
  BY <1>0 DEF DeleteTokens, Become, TypeOK
<1>4. /\ UNCHANGED <<user, link, profile, given, last, spent>>
      /\ past' = past \/ past' = past \cup {"failure"}
      /\ \A t \in TokenId : token'[t] \in {token[t], NoRow}
      /\ token' \in [TokenId -> Token \cup {NoRow}]
  BY <1>0 DEF DeleteTokens, DeleteResets, DeleteVerifications, Deleted, TypeOK
<1>5. past' = {} => token' = [t \in TokenId |-> IF t \in OfKind(req[r].kind) THEN NoRow ELSE token[t]]
  BY <1>1 DEF DeleteTokens, DeleteResets, DeleteVerifications, Deleted
<1>6. TypeOK'
  <2>1. req' \in [Req -> Request \cup {Idle}]
    BY <1>0, <1>2 DEF DeleteTokens, Become, TypeOK
  <2>2. past' \subseteq {"overlap", "failure"}
    BY <1>0, <1>4 DEF TypeOK
  <2> QED
    BY <1>0, <1>4, <2>1, <2>2 DEF TypeOK
<1>7. RowsSound' /\ Recorded'
  BY <1>0, <1>1, <1>3, <1>4 DEF RowsSound, Recorded, HoldsRow, Sound
<1>8. ASSUME "overlap" \notin past'
      PROVE  Undisturbed' /\ CopiesCurrent'
  <2>1. Undisturbed /\ CopiesCurrent
    BY <1>4, <1>8 DEF AInv
  <2>2. \A q \in Req \ {r} : req'[q] = Idle
    BY <1>1, <1>3, <2>1 DEF CopiesCurrent, Idle
  <2>3. Undisturbed'
    BY <1>4, <2>1 DEF Undisturbed
  <2> QED
    BY <1>3, <2>2, <2>3 DEF CopiesCurrent, HoldsRow, Idle
<1>9. ASSUME past' = {}
      PROVE  TokensReplaced'
  <2>1. past = {} /\ "overlap" \notin past'
    BY <1>4, <1>9
  <2>2. \A kind : OfKind(kind)' \subseteq OfKind(kind)
    BY <1>4 DEF OfKind
  <2>3. \A kind : kind = req[r].kind => OfKind(kind)' = {}
    BY <1>5, <1>9 DEF OfKind
  <2>4. CopiesCurrent /\ TokensReplaced
    BY <2>1 DEF AInv
  <2>5. \A q \in Req \ {r} : req'[q] = Idle
    BY <1>1, <1>3, <2>4 DEF CopiesCurrent, Idle
  <2> QED
    BY <1>3, <2>2, <2>3, <2>4, <2>5 DEF TokensReplaced, Idle
<1> QED
  BY <1>6, <1>7, <1>8, <1>9 DEF AInv

-----------------------------------------------------------------------------
(* Every step *)

LEMMA NextAInv == AInv /\ [Next]_vars => AInv'
<1> SUFFICES ASSUME AInv, [Next]_vars PROVE AInv'
  OBVIOUS
<1>0. TypeOK /\ RowsSound /\ Recorded
  BY DEF AInv
<1>1. ASSUME NEW t \in TokenId, Expire(t)
      PROVE  AInv'
  BY <1>1, ExpireStep
<1>2. ASSUME NEW r \in Req, RegisterRead(r)
      PROVE  AInv'
  BY <1>2, BeginStep DEF RegisterRead, Request
<1>3. ASSUME NEW r \in Req, RegisterCommit(r)
      PROVE  AInv'
  <2>1. req[r] # Idle /\ Become(r, Idle) /\ UNCHANGED <<link, profile, spent, past>>
    BY <1>3 DEF RegisterCommit, Idle
  <2>2. req' \in [Req -> Request \cup {Idle}]
    BY <1>0, <2>1 DEF TypeOK, Become
  <2>3. CASE UNCHANGED <<user, token, given, last>>
    <3>1. TypeOK'
      BY <1>0, <2>1, <2>2, <2>3 DEF TypeOK
    <3>2. Sound(user)' <=> Sound(user)
      BY <2>1, <2>3 DEF Sound
    <3>3. /\ Undisturbed => Undisturbed'
          /\ \A kind : OfKind(kind)' = OfKind(kind)
      BY <2>1, <2>3 DEF Undisturbed, OfKind
    <3> QED
      BY <1>0, <2>1, <2>3, <3>1, <3>2, <3>3, EndStep DEF AInv, RowsSound, Recorded, TokensReplaced
  <2>4. ASSUME NEW p \in Password, NEW t \in TokenId,
               CreateUser([password |-> p, status |-> "pending", verified |-> FALSE]),
               CreateVerification(t), last' = p
        PROVE  AInv'
    <3>1. user = NoRow /\ ~link /\ given = {} /\ \A u \in TokenId : token[u] = NoRow
      BY <1>0, <2>4 DEF CreateUser, Exists, FindByEmail, TypeOK
    <3>2. user' = [password |-> p, status |-> "pending", verified |-> FALSE]
      BY <2>4 DEF CreateUser
    <3>10. user' \in User
      BY <3>2 DEF User
    <3>3. user' \in User /\ user' # NoRow
      BY <3>10, AccountsAssumption
    <3>4. /\ given' = {t}
          /\ token' = [token EXCEPT ![t] = [kind |-> "verify", used |-> FALSE, expired |-> FALSE]]
      BY <2>4, <3>1 DEF CreateVerification, Inserted
    <3>5. /\ token' \in [TokenId -> Token \cup {NoRow}]
          /\ \A u \in TokenId : token'[u] # NoRow => u = t
      BY <1>0, <3>1, <3>4 DEF TypeOK, Token
    <3>6. TypeOK'
      BY <1>0, <2>1, <2>2, <2>4, <3>3, <3>4, <3>5 DEF TypeOK
    <3>7. \A u \in TokenId : ~(spent[u] > 0)
      BY <1>0, <3>1 DEF Recorded
    <3>8. Sound(user)' /\ Undisturbed'
      BY <2>1, <2>4, <3>1, <3>2, <3>7, AccountsAssumption DEF Sound, Undisturbed
    <3>9. \A kind : \A u, v \in OfKind(kind)' : u = v
      BY <3>5 DEF OfKind
    <3> QED
      BY <2>1, <3>1, <3>3, <3>6, <3>7, <3>8, <3>9, EndStep
  <2> QED
    BY <1>3, <2>3, <2>4 DEF RegisterCommit
<1>4. ASSUME NEW r \in Req, NEW t \in TokenId, VerifyRead(r, t)
      PROVE  AInv'
  <2>1. user # NoRow /\ user \in User
    BY <1>0, <1>4 DEF VerifyRead, FindByID, TypeOK
  <2>2. CASE token[t].expired \/ user.verified
    <3>1. [at |-> "drop", token |-> t] \in Request /\ Begin(r, [at |-> "drop", token |-> t])
      BY <1>4, <2>2 DEF VerifyRead, Request
    <3> QED
      BY <2>1, <3>1, BeginStep
  <2>3. CASE ~(token[t].expired \/ user.verified)
    <3> DEFINE state == [at |-> "verify", token |-> t, row |-> user]
    <3>1. state \in Request /\ Begin(r, state)
      BY <1>4, <2>1, <2>3 DEF VerifyRead, Request
    <3> QED
      BY <2>1, <3>1, BeginStep
  <2> QED
    BY <2>2, <2>3
<1>5. ASSUME NEW r \in Req, DropToken(r)
      PROVE  AInv'
  <2>1. req[r] # Idle /\ Become(r, Idle) /\ UNCHANGED <<user, link, profile, given, last, spent, past>>
    BY <1>5 DEF DropToken, Idle, history
  <2>2. /\ token' \in [TokenId -> Token \cup {NoRow}]
        /\ \A t \in TokenId : token'[t] \in {token[t], NoRow}
    BY <1>0, <1>5 DEF DropToken, Deleted, TypeOK
  <2>3. TypeOK'
    BY <1>0, <2>1, <2>2 DEF TypeOK, Become
  <2>4. Sound(user)' <=> Sound(user)
    BY <2>1 DEF Sound
  <2>5. /\ Undisturbed => Undisturbed'
        /\ \A kind : OfKind(kind)' \subseteq OfKind(kind)
    BY <2>1, <2>2 DEF Undisturbed, OfKind
  <2> QED
    BY <1>0, <2>1, <2>3, <2>4, <2>5, EndStep DEF AInv, RowsSound, Recorded, TokensReplaced
<1>6. ASSUME NEW r \in Req, VerifyCommit(r)
      PROVE  AInv'
  <2> DEFINE row == [req[r].row EXCEPT !.status = "active", !.verified = TRUE]
  <2>1. HoldsRow(r) /\ Become(r, Idle) /\ Saved(row) /\ UNCHANGED <<link, profile, given, last, spent, past>>
    BY <1>6 DEF VerifyCommit, Activated, HoldsRow, history
  <2>2. req[r].row \in User
    BY <1>0, <2>1, RequestShape
  <2>3. /\ row \in User /\ row.password = req[r].row.password
        /\ row.status = "active" /\ row.verified
    BY <2>2 DEF User
  <2>4. row.password # Unset \/ (link' /\ row.status = "active")
    BY <1>0, <2>1, <2>3 DEF RowsSound, Sound
  <2>5. /\ token' \in [TokenId -> Token \cup {NoRow}]
        /\ \A t \in TokenId : token'[t] \in {token[t], NoRow}
    BY <1>0, <1>6 DEF VerifyCommit, Deleted, TypeOK
  <2>6. "overlap" \notin past => req[r].row = user /\ Undisturbed /\ user # NoRow
    BY <1>0, <2>1 DEF AInv, CopiesCurrent, RowsSound, HoldsRow
  <2> HIDE DEF row
  <2> QED
    BY <1>0, <2>1, <2>3, <2>4, <2>5, <2>6, SaveStep DEF TypeOK, Recorded, Undisturbed
<1>7. ASSUME NEW r \in Req, ResendEmailVerification(r) \/ ForgotPassword(r)
      PROVE  AInv'
  <2>1. user # NoRow
    BY <1>7 DEF ResendEmailVerification, ForgotPassword, FindByEmail
  <2>2. PICK k \in {"verify", "reset"} : Begin(r, [at |-> "delete_tokens", kind |-> k])
    BY <1>7 DEF ResendEmailVerification, ForgotPassword
  <2>3. [at |-> "delete_tokens", kind |-> k] \in Request
    BY DEF Request
  <2> QED
    BY <2>1, <2>2, <2>3, BeginStep
<1>8. ASSUME NEW r \in Req, DeleteTokens(r)
      PROVE  AInv'
  BY <1>8, DeleteStep
<1>9. ASSUME NEW r \in Req, CreateToken(r)
      PROVE  AInv'
  <2>1. /\ req[r] # Idle /\ Become(r, Idle) /\ UNCHANGED <<user, link, profile, last, spent, past>>
        /\ req[r].at = "create_token" /\ req[r].kind \in {"verify", "reset"}
        /\ user # NoRow
    BY <1>0, <1>9, RequestShape DEF CreateToken, Idle, RowsSound
  <2>2. PICK t \in TokenId : Inserted(t, req[r].kind)
    BY <1>9, <2>1 DEF CreateToken, CreateReset, CreateVerification
  <2> DEFINE row == [kind |-> req[r].kind, used |-> FALSE, expired |-> FALSE]
  <2>3. row \in Token
    BY <2>1 DEF Token
  <2>13. row # NoRow
    BY <2>3, AccountsAssumption
  <2>4. /\ t \notin given /\ given' = given \cup {t}
        /\ \A u \in TokenId : token'[u] = IF u = t THEN row ELSE token[u]
        /\ token' \in [TokenId -> Token \cup {NoRow}]
    BY <1>0, <2>2, <2>3, <2>13 DEF Inserted, TypeOK
  <2>5. TypeOK'
    <3>1. \A u \in TokenId : token'[u] # NoRow => u \in given'
      BY <1>0, <2>4 DEF TypeOK
    <3>2. req' \in [Req -> Request \cup {Idle}]
      BY <1>0, <2>1 DEF TypeOK, Become
    <3> QED
      BY <1>0, <2>1, <2>4, <3>1, <3>2 DEF TypeOK
  <2>6. Sound(user)' <=> Sound(user)
    BY <2>1 DEF Sound
  <2>7. Undisturbed => Undisturbed'
    <3>1. \A u \in TokenId : spent[u] > 0 => u # t
      BY <1>0, <2>4 DEF Recorded
    <3> QED
      BY <2>1, <2>4, <3>1 DEF Undisturbed
  <2>8. ASSUME past = {}, NEW kind \in {"verify", "reset"}
        PROVE  \A u, v \in OfKind(kind)' : u = v
    <3>1. OfKind(req[r].kind) = {} /\ \A u, v \in OfKind(kind) : u = v
      BY <2>1, <2>8 DEF AInv, TokensReplaced
    <3>2. \A u \in OfKind(kind)' : IF u = t THEN kind = req[r].kind ELSE u \in OfKind(kind)
      BY <2>4 DEF OfKind
    <3> QED
      BY <3>1, <3>2
  <2> QED
    BY <1>0, <2>1, <2>4, <2>5, <2>6, <2>7, <2>8, EndStep DEF AInv, RowsSound, Recorded
<1>10. ASSUME NEW r \in Req, NEW t \in TokenId, ResetRead(r, t)
       PROVE  AInv'
  <2> DEFINE state == [at |-> "reset", token |-> t, row |-> user]
  <2>1. user # NoRow /\ user \in User /\ token[t] # NoRow /\ ~token[t].used
    BY <1>0, <1>10 DEF ResetRead, FindByID, FindReset, OfKind, IsValid, TypeOK
  <2>2. state \in Request /\ Begin(r, state)
    BY <1>10, <2>1 DEF ResetRead, Request
  <2> QED
    BY <2>1, <2>2, BeginStep
<1>11. ASSUME NEW r \in Req, ResetCommit(r)
       PROVE  AInv'
  <2> DEFINE t == req[r].token
  <2>1. /\ HoldsRow(r) /\ req[r].at = "reset" /\ Become(r, Idle)
        /\ UNCHANGED <<link, profile, given, past>>
        /\ t \in TokenId /\ t \in given /\ req[r].row \in User
    BY <1>0, <1>11, RequestShape DEF ResetCommit, HoldsRow, Recorded
  <2>2. PICK p \in Password : PasswordSaved(req[r].row, p)
    BY <1>11 DEF ResetCommit
  <2>3. PICK row : row = [req[r].row EXCEPT !.password = p]
    OBVIOUS
  <2>4. /\ row \in User /\ row.password = p
        /\ row.status = req[r].row.status /\ row.verified = req[r].row.verified
    BY <2>1, <2>3 DEF User
  <2>5. Saved(row) /\ last' = p /\ p # Unset
    BY <2>2, <2>3, AccountsAssumption DEF PasswordSaved
  <2>6. row.status = "active" => row.verified
    BY <1>0, <2>1, <2>4 DEF RowsSound, Sound
  <2>7. /\ token' \in [TokenId -> Token \cup {NoRow}]
        /\ \A u \in TokenId : u # t => token'[u] = token[u]
        /\ token'[t] = NoRow \/ (token[t] # NoRow /\ token'[t].kind = token[t].kind /\ token'[t].used)
    BY <1>0, <1>11, <2>1 DEF ResetCommit, MarkAsUsed, TypeOK, Token
  <2>8. /\ spent' \in [TokenId -> 0..2]
        /\ \A u \in TokenId : u # t => spent'[u] = spent[u]
        /\ spent[t] = 0 => spent'[t] = 1
    BY <1>0, <1>11, <2>1 DEF ResetCommit, TypeOK
  <2>9. \A u \in TokenId : spent'[u] > 0 => u \in given
    BY <1>0, <2>1, <2>8 DEF Recorded
  <2>10. ASSUME "overlap" \notin past
         PROVE  /\ row.verified \/ user.verified \/ link' => row.status = "active"
                /\ \A u \in TokenId :
                     spent'[u] > 0 => spent'[u] = 1 /\ (token'[u] = NoRow \/ token'[u].used)
    <3>1. /\ Undisturbed /\ req[r].row = user /\ user # NoRow
          /\ token[t] # NoRow /\ ~token[t].used
      BY <1>0, <2>1, <2>10 DEF AInv, CopiesCurrent, RowsSound
    <3>2. spent[t] = 0
      BY <1>0, <2>1, <3>1 DEF Undisturbed, TypeOK
    <3> QED
      BY <2>1, <2>4, <2>7, <2>8, <3>1, <3>2 DEF Undisturbed
  <2> HIDE DEF t
  <2>11. \A u \in TokenId : \/ token'[u] = NoRow
                            \/ token[u] # NoRow /\ token'[u].kind = token[u].kind
    BY <2>7
  <2> QED
    BY <1>0, <2>1, <2>4, <2>5, <2>6, <2>7, <2>8, <2>9, <2>10, <2>11, SaveStep DEF TypeOK
<1>12. ASSUME NEW r \in Req, ChangePassword(r) \/ SetPassword(r) \/ UpdateMe(r)
       PROVE  AInv'
  <2>1. user # NoRow /\ user \in User
    BY <1>0, <1>12 DEF ChangePassword, SetPassword, UpdateMe, FindByID, TypeOK
  <2>2. PICK at \in {"password", "rename"} : Begin(r, [at |-> at, row |-> user])
    BY <1>12 DEF ChangePassword, SetPassword, UpdateMe
  <2>3. [at |-> at, row |-> user] \in Request
    BY <2>1 DEF Request
  <2> QED
    BY <2>1, <2>2, <2>3, BeginStep
<1>13. ASSUME NEW r \in Req, PasswordCommit(r)
       PROVE  AInv'
  <2>1. /\ HoldsRow(r) /\ Become(r, Idle)
        /\ UNCHANGED <<link, profile, token, given, spent, past>>
        /\ req[r].row \in User
    BY <1>0, <1>13, RequestShape DEF PasswordCommit, HoldsRow
  <2>2. PICK p \in Password : PasswordSaved(req[r].row, p)
    BY <1>13 DEF PasswordCommit
  <2>3. PICK row : row = [req[r].row EXCEPT !.password = p]
    OBVIOUS
  <2>4. /\ row \in User /\ row.password = p
        /\ row.status = req[r].row.status /\ row.verified = req[r].row.verified
    BY <2>1, <2>3 DEF User
  <2>5. Saved(row) /\ last' = p /\ p # Unset
    BY <2>2, <2>3, AccountsAssumption DEF PasswordSaved
  <2>6. row.status = "active" => row.verified
    BY <1>0, <2>1, <2>4 DEF RowsSound, Sound
  <2>7. "overlap" \notin past => Undisturbed /\ req[r].row = user /\ user # NoRow
    BY <1>0, <2>1 DEF AInv, CopiesCurrent, RowsSound, HoldsRow
  <2> QED
    BY <1>0, <2>1, <2>4, <2>5, <2>6, <2>7, SaveStep DEF TypeOK, Recorded, Undisturbed
<1>14. ASSUME NEW r \in Req, UpdateUser(r)
       PROVE  AInv'
  <2>1. /\ HoldsRow(r) /\ Become(r, Idle) /\ Saved(req[r].row)
        /\ UNCHANGED <<link, profile, token, given, last, spent, past>>
        /\ req[r].row \in User
    BY <1>0, <1>14, RequestShape DEF UpdateUser, HoldsRow, history
  <2>2. Sound(req[r].row)
    BY <1>0, <2>1 DEF RowsSound
  <2>3. "overlap" \notin past => Undisturbed /\ req[r].row = user /\ user # NoRow
    BY <1>0, <2>1 DEF AInv, CopiesCurrent, RowsSound, HoldsRow
  <2> QED
    BY <1>0, <2>1, <2>2, <2>3, SaveStep DEF TypeOK, Recorded, Undisturbed, Sound
<1>15. ASSUME NEW r \in Req, UpdateProfile(r)
       PROVE  AInv'
  <2>1. user # NoRow /\ GetProfile = FoundProfile /\ FoundProfile \in Profile
    BY <1>0, <1>15, ProfileShown DEF UpdateProfile, FindByID, GetProfile, FoundProfile
  <2>2. ASSUME NEW b \in {"", "text"},
               Begin(r, [at |-> "profile", field |-> "bio", row |-> [FoundProfile EXCEPT !.bio = b]])
        PROVE  AInv'
    <3> DEFINE row == [FoundProfile EXCEPT !.bio = b]
    <3>1. row \in Profile /\ row["locale"] = GetProfile["locale"]
      BY <2>1 DEF Profile
    <3> HIDE DEF row
    <3>2. [at |-> "profile", field |-> "bio", row |-> row] \in Request
      BY <3>1 DEF Request
    <3> QED
      BY <2>1, <2>2, <3>1, <3>2, BeginStep DEF row
  <2>3. ASSUME NEW l \in {"ja", "en"},
               Begin(r, [at |-> "profile", field |-> "locale", row |-> [FoundProfile EXCEPT !.locale = l]])
        PROVE  AInv'
    <3> DEFINE row == [FoundProfile EXCEPT !.locale = l]
    <3>1. row \in Profile /\ row["bio"] = GetProfile["bio"]
      BY <2>1 DEF Profile
    <3> HIDE DEF row
    <3>2. [at |-> "profile", field |-> "locale", row |-> row] \in Request
      BY <3>1 DEF Request
    <3> QED
      BY <2>1, <2>3, <3>1, <3>2, BeginStep DEF row
  <2> QED
    BY <1>15, <2>2, <2>3 DEF UpdateProfile
<1>16. ASSUME NEW r \in Req, ProfileCommit(r)
       PROVE  AInv'
  <2>1. /\ req[r] # Idle /\ Become(r, Idle) /\ user # NoRow
        /\ UNCHANGED <<user, link, token, given, last, spent, past>>
        /\ req[r].row \in Profile
    BY <1>0, <1>16, RequestShape DEF ProfileCommit, Idle, history, RowsSound
  <2>2. profile' \in Profile
    BY <1>0, <1>16, <2>1 DEF ProfileCommit, Upserted, FindProfile, Profile, TypeOK
  <2>3. TypeOK'
    BY <1>0, <2>1, <2>2 DEF TypeOK, Become
  <2>4. Sound(user)' <=> Sound(user)
    BY <2>1 DEF Sound
  <2>5. /\ Undisturbed => Undisturbed'
        /\ \A kind : OfKind(kind)' = OfKind(kind)
    BY <2>1 DEF Undisturbed, OfKind
  <2> QED
    BY <1>0, <2>1, <2>3, <2>4, <2>5, EndStep DEF AInv, RowsSound, Recorded, TokensReplaced
<1>17. ASSUME NEW r \in Req, OAuthRead(r)
       PROVE  AInv'
  <2>1. CASE FindByEmail = {}
    BY <1>17, <2>1, BeginStep DEF OAuthRead, Request
  <2>2. CASE FindByEmail # {}
    <3>1. user # NoRow /\ user \in User
      BY <1>0, <2>2 DEF FindByEmail, TypeOK
    <3> DEFINE state == [at |-> "oauth_link", row |-> user]
    <3>2. state \in Request /\ Begin(r, state)
      BY <1>17, <2>2, <3>1 DEF OAuthRead, Request
    <3> QED
      BY <3>1, <3>2, BeginStep
  <2> QED
    BY <2>1, <2>2
<1>18. ASSUME NEW r \in Req, OAuthLink(r)
       PROVE  AInv'
  <2>1. /\ HoldsRow(r) /\ req[r] # Idle /\ Become(r, Idle) /\ user # NoRow
        /\ UNCHANGED <<profile, token, given, last, spent, past>>
        /\ req[r].row \in User
    BY <1>0, <1>18, RequestShape DEF OAuthLink, HoldsRow, history, Idle, RowsSound
  <2>2. Sound(req[r].row) /\ Sound(user)
    BY <1>0, <2>1 DEF RowsSound
  <2>3. "overlap" \notin past => Undisturbed /\ req[r].row = user
    BY <2>1 DEF AInv, CopiesCurrent
  <2>4. CASE link' = TRUE /\ req[r].row.status = "pending" /\ Activated(req[r].row)
    <3>1. PICK row : row = [req[r].row EXCEPT !.status = "active", !.verified = TRUE]
      OBVIOUS
    <3>2. /\ row \in User /\ row.password = req[r].row.password
          /\ row.status = "active" /\ row.verified /\ Saved(row)
      BY <2>1, <2>4, <3>1 DEF User, Activated
    <3>3. \A t \in TokenId : \/ token'[t] = NoRow
                             \/ token[t] # NoRow /\ token'[t].kind = token[t].kind
      BY <2>1
    <3>4. "overlap" \notin past =>
            /\ row.password = last'
            /\ \A t \in TokenId :
                 spent'[t] > 0 => spent'[t] = 1 /\ (token'[t] = NoRow \/ token'[t].used)
      BY <2>1, <2>3, <3>2 DEF Undisturbed
    <3> QED
      BY <1>0, <2>1, <2>4, <3>2, <3>3, <3>4, SaveStep DEF TypeOK, Recorded
  <2>5. CASE UNCHANGED user /\ (UNCHANGED link \/ (link' = TRUE /\ req[r].row.status # "pending"))
    <3>1. TypeOK' /\ (link => link')
      BY <1>0, <2>1, <2>5 DEF TypeOK, Become
    <3>2. Sound(user)'
      BY <2>2, <2>5, <3>1 DEF Sound
    <3>3. "overlap" \notin past => Undisturbed'
      BY <2>1, <2>3, <2>5 DEF Undisturbed, User
    <3>4. \A kind : OfKind(kind)' = OfKind(kind)
      BY <2>1 DEF OfKind
    <3> QED
      BY <1>0, <2>1, <2>5, <3>1, <3>2, <3>3, <3>4, EndStep DEF AInv, Recorded, TokensReplaced
  <2> QED
    BY <1>18, <2>4, <2>5 DEF OAuthLink, CreateLink
<1>19. ASSUME NEW r \in Req, OAuthNew(r)
       PROVE  AInv'
  <2>1. /\ req[r] # Idle /\ Become(r, Idle)
        /\ UNCHANGED <<token, given, last, spent, past>>
    BY <1>19 DEF OAuthNew, Idle, history
  <2>2. \A kind : OfKind(kind)' = OfKind(kind)
    BY <2>1 DEF OfKind
  <2>3. CASE UNCHANGED <<user, link, profile>>
    <3>1. TypeOK'
      BY <1>0, <2>1, <2>3 DEF TypeOK, Become
    <3>2. /\ Sound(user)' <=> Sound(user)
          /\ Undisturbed => Undisturbed'
      BY <2>1, <2>3 DEF Sound, Undisturbed
    <3> QED
      BY <1>0, <2>1, <2>2, <2>3, <3>1, <3>2, EndStep DEF AInv, RowsSound, Recorded, TokensReplaced
  <2>4. CASE /\ user = NoRow /\ link' = TRUE
             /\ user' = [password |-> Unset, status |-> "active", verified |-> TRUE]
             /\ Upserted(NewUserProfile)
    <3>1. user' \in User
      BY <2>4 DEF User
    <3>2. user' # NoRow
      BY <3>1, AccountsAssumption
    <3>3. profile' \in Profile
      BY <1>0, <2>4 DEF Upserted, FindProfile, NewUserProfile, Profile, TypeOK
    <3>4. TypeOK'
      BY <1>0, <2>1, <2>4, <3>1, <3>2, <3>3 DEF TypeOK, Become
    <3>5. Sound(user)'
      BY <2>4 DEF Sound
    <3>6. "overlap" \notin past => Undisturbed'
      BY <1>0, <2>1, <2>4 DEF AInv, Undisturbed, Recorded
    <3> QED
      BY <1>0, <2>1, <2>2, <2>4, <3>2, <3>4, <3>5, <3>6, EndStep DEF AInv, Recorded, TokensReplaced
  <2> QED
    BY <1>19, <2>3, <2>4 DEF OAuthNew, CreateUser, CreateLink, Exists, FindByEmail
<1>20. ASSUME NEW r \in Req, Fail(r)
       PROVE  AInv'
  <2>1. /\ req[r] # Idle /\ Become(r, Idle) /\ past' = past \cup {"failure"}
        /\ UNCHANGED <<user, link, profile, token, given, last, spent>>
    BY <1>20 DEF Fail, rows
  <2>2. TypeOK'
    BY <1>0, <2>1 DEF TypeOK, Become
  <2>3. /\ Sound(user)' <=> Sound(user)
        /\ Undisturbed => Undisturbed'
        /\ \A kind : OfKind(kind)' = OfKind(kind)
    BY <2>1 DEF Sound, Undisturbed, OfKind
  <2> QED
    BY <1>0, <2>1, <2>2, <2>3, EndStep DEF AInv, RowsSound, Recorded, TokensReplaced
<1>21. CASE UNCHANGED vars
  <2>1. UNCHANGED <<user, link, profile, token, req, given, last, spent, past>>
    BY <1>21 DEF vars, rows, history
  <2>2. TypeOK' /\ RowsSound' /\ Recorded'
    BY <1>0, <2>1 DEF TypeOK, RowsSound, Recorded, HoldsRow, Sound
  <2>3. Undisturbed => Undisturbed'
    BY <2>1 DEF Undisturbed
  <2>4. CopiesCurrent => CopiesCurrent'
    BY <2>1 DEF CopiesCurrent, HoldsRow, GetProfile, FindByID, FindProfile
  <2>5. TokensReplaced => TokensReplaced'
    BY <2>1 DEF TokensReplaced, OfKind
  <2> QED
    BY <2>1, <2>2, <2>3, <2>4, <2>5 DEF AInv
<1> QED
  BY <1>1, <1>2, <1>3, <1>4, <1>5, <1>6, <1>7, <1>8, <1>9, <1>10, <1>11, <1>12, <1>13,
     <1>14, <1>15, <1>16, <1>17, <1>18, <1>19, <1>20, <1>21
     DEF Next, Register, VerifyEmail, OAuthLogin, MailToken, ResetPassword, NewPassword,
         PatchMe, PutProfile

-----------------------------------------------------------------------------
(* Theorems *)

\* The inductive invariant: what the tables hold, and what requests hold of them.
THEOREM AccountsInvariant == Spec => []AInv
BY InitAInv, NextAInv, PTL DEF Spec

\* Every row, token and request keeps its shape, and nothing belongs to an
\* account that is not there.
THEOREM AccountsTypeCorrect == Spec => []TypeOK
<1>1. AInv => TypeOK
  BY DEF AInv
<1> QED
  BY <1>1, AccountsInvariant, PTL

\* Whatever overlaps and fails, OAuthLogin, SetPassword and the commands that
\* write a row back leave the account a way in.
THEOREM NobodyLockedOut == Spec => []NotLockedOut
<1>1. AInv => NotLockedOut
  BY DEF AInv, TypeOK, RowsSound, Sound, NotLockedOut, PasswordLogin, OAuthEntry, User
<1> QED
  BY <1>1, AccountsInvariant, PTL

\* VerifyEmail and OAuthLogin, the commands that activate, and the commands that
\* write an old row back keep active to mean verified.
THEOREM StatusIsProved == Spec => []StatusFollowsProof
<1>1. AInv => StatusFollowsProof
  BY DEF AInv, RowsSound, Sound, Undisturbed, StatusFollowsProof
<1> QED
  BY <1>1, AccountsInvariant, PTL

\* No command but those of the password changes it, a token sets it once, and
\* the last token mailed out is the only good one.
THEOREM PasswordIsKept == Spec => []PasswordKept
<1>1. ASSUME AInv PROVE PasswordKept
  <2>1. ASSUME "overlap" \notin past
        PROVE  /\ user # NoRow => user.password = last
               /\ \A t \in TokenId : spent[t] <= 1
    BY <1>1, <2>1 DEF AInv, Undisturbed, TypeOK
  <2>2. ASSUME past = {}, NEW kind \in {"verify", "reset"}
        PROVE  Cardinality({t \in OfKind(kind) : IsValid(t)}) <= 1
    <3> DEFINE good == {t \in OfKind(kind) : IsValid(t)}
    <3>1. \A t, u \in good : t = u
      BY <1>1, <2>2 DEF AInv, TokensReplaced
    <3> HIDE DEF good
    <3>2. CASE good = {}
      BY <3>2, FS_EmptySet DEF good
    <3>3. ASSUME NEW t \in good
          PROVE  Cardinality(good) = 1
      <4>1. good = {t}
        BY <3>1, <3>3
      <4> QED
        BY <4>1, FS_Singleton
    <3> QED
      BY <3>2, <3>3 DEF good
  <2> QED
    BY <2>1, <2>2 DEF PasswordKept
<1> QED
  BY <1>1, AccountsInvariant, PTL

\* A profile shows a change of a field only when UpdateProfile changed that field,
\* also when the first update, or an OAuth login, makes the row.
THEOREM SettingsAreKept == Spec => SettingsKept
<1> DEFINE Kept == \A f \in {"bio", "locale"} :
                     "overlap" \notin past /\ GetProfile'[f] # GetProfile[f] =>
                       \E r \in Req : req[r].at = "profile" /\ req[r].field = f
<1>1. ASSUME AInv, AInv', [Next]_vars
      PROVE  [Kept]_vars
  <2> SUFFICES ASSUME NEW f \in {"bio", "locale"}, "overlap" \notin past,
                      GetProfile'[f] # GetProfile[f], Next
               PROVE  \E r \in Req : req[r].at = "profile" /\ req[r].field = f
    BY <1>1 DEF vars
  <2>0. TypeOK /\ TypeOK' /\ CopiesCurrent
    BY <1>1 DEF AInv
  <2>1. ASSUME profile' = profile PROVE FALSE
    BY <2>0, <2>1 DEF GetProfile, FindByID, FindProfile, TypeOK
  <2>2. ASSUME NEW r \in Req, OAuthNew(r) PROVE FALSE
    <3>1. user = NoRow /\ profile = NoRow /\ profile' = NewUserProfile
      BY <2>0, <2>1, <2>2
         DEF OAuthNew, CreateUser, Exists, FindByEmail, Upserted, FindProfile, TypeOK
    <3> QED
      BY <3>1 DEF GetProfile, FindByID, FindProfile
  <2>3. ASSUME NEW r \in Req, ProfileCommit(r)
        PROVE  req[r].at = "profile" /\ req[r].field = f
    <3>1. /\ req[r].at = "profile" /\ req[r].row \in Profile
          /\ req[r].field \in {"bio", "locale"} /\ user # NoRow /\ user' = user
      BY <1>1, <2>0, <2>3, RequestShape DEF ProfileCommit, AInv, RowsSound
    <3>2. SUFFICES ASSUME f # req[r].field PROVE FALSE
      BY <3>1
    <3>3. req[r].row[f] = GetProfile[f]
      BY <2>0, <3>1, <3>2 DEF CopiesCurrent
    <3>4. GetProfile' = profile'
      <4>1. PICK row : row = req[r].row
        OBVIOUS
      <4>2. row \in Profile /\ profile \in Profile \cup {NoRow}
            /\ profile' = IF profile # NoRow /\ row.bio = "" THEN [row EXCEPT !.bio = profile.bio] ELSE row
        BY <2>0, <2>3, <3>1, <4>1 DEF ProfileCommit, Upserted, FindProfile, TypeOK
      <4>3. ASSUME profile # NoRow
            PROVE  [row EXCEPT !.bio = profile.bio] \in Profile
        BY <4>2, <4>3 DEF Profile
      <4>4. profile' \in Profile
        BY <4>2, <4>3
      <4>5. profile' # NoRow
        BY <4>4, AccountsAssumption
      <4> QED
        BY <3>1, <4>5 DEF GetProfile, FindByID, FindProfile
    <3>5. profile'[f] = GetProfile[f]
      <4>1. CASE FindProfile # {} /\ req[r].row.bio = ""
        <5>1. profile' = [req[r].row EXCEPT !.bio = profile.bio] /\ GetProfile = profile
          BY <2>3, <3>1, <4>1 DEF ProfileCommit, Upserted, GetProfile, FindByID
        <5> QED
          BY <3>1, <3>3, <5>1 DEF Profile
      <4>2. CASE ~(FindProfile # {} /\ req[r].row.bio = "")
        BY <2>3, <3>3, <4>2 DEF ProfileCommit, Upserted
      <4> QED
        BY <4>1, <4>2
    <3> QED
      BY <3>4, <3>5
  <2>4. \/ profile' = profile
        \/ \E r \in Req : OAuthNew(r) \/ ProfileCommit(r)
    BY DEF Next, Register, VerifyEmail, OAuthLogin, MailToken, ResetPassword, NewPassword,
           PatchMe, PutProfile, Expire, RegisterRead, RegisterCommit, VerifyRead, DropToken,
           VerifyCommit, ResendEmailVerification, ForgotPassword, DeleteTokens, CreateToken,
           ResetRead, ResetCommit, ChangePassword, SetPassword, PasswordCommit, UpdateMe,
           UpdateUser, UpdateProfile, OAuthRead, OAuthLink, Fail, Begin, rows
  <2> QED
    BY <2>1, <2>2, <2>3, <2>4
<1> HIDE DEF Kept
<1>2. Spec => [][Kept]_vars
  BY <1>1, AccountsInvariant, PTL DEF Spec
<1> QED
  BY <1>2 DEF Kept, SettingsKept
=============================================================================
