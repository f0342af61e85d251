------------------------------ MODULE Accounts ------------------------------
(***************************************************************************)
(* The account that belongs to one e-mail address: the row of the user,    *)
(* its profile, the link to an OAuth provider, and the tokens that were    *)
(* mailed out.  A request reads the row, decides, and writes the whole row *)
(* back in a later transaction; other requests act in between.  Sessions   *)
(* are in module Sessions, the personal folder is in FolderTree.           *)
(*                                                                         *)
(* No code suspends or deactivates a user; these states are left out.      *)
(***************************************************************************)
EXTENDS Naturals, FiniteSets

CONSTANTS
  Req,        \* requests served at the same time
  TokenId,    \* tokens generateSecureToken may return, each used once
  Password,   \* passwords the user thinks of
  Unset,      \* no password: the user came by way of OAuth
  NoRow,
  MayFail     \* TRUE: a statement or the process may fail

VARIABLES
  user,      \* row of users, or NoRow
  link,      \* oauth_accounts has a row for this user
  profile,   \* row of user_profiles, or NoRow
  token,     \* rows of email_verification_tokens and password_reset_tokens
  req,       \* the requests
  given,     \* history: tokens generated so far
  last,      \* history: the password the user was last told to be set
  spent,     \* history: how often a token has set the password, up to 2
  past       \* history: requests overlapped, a request failed half-way

rows == <<user, link, profile, token>>
history == <<given, last, spent, past>>
vars == <<rows, req, history>>

User == [password: Password \cup {Unset}, status: {"pending", "active"}, verified: BOOLEAN]

\* Bio stands for the fields that may be empty, locale for those that may not.
Profile == [bio: {"", "text"}, locale: {"ja", "en"}]

Token == [kind: {"verify", "reset"}, used: BOOLEAN, expired: BOOLEAN]

ASSUME AccountsAssumption ==
  /\ MayFail \in BOOLEAN
  /\ Unset \notin Password
  /\ NoRow \notin User \cup Profile \cup Token

NewUserProfile == [bio |-> "", locale |-> "ja"]

Idle == [at |-> "idle"]

\* What a request holds between its transactions: the row it read, the token.
Request ==
  [at: {"register", "oauth_new"}]
    \cup [at: {"drop"}, token: TokenId]
    \cup [at: {"verify", "reset"}, token: TokenId, row: User]
    \cup [at: {"delete_tokens", "create_token"}, kind: {"verify", "reset"}]
    \cup [at: {"password", "rename", "oauth_link"}, row: User]
    \cup [at: {"profile"}, field: {"bio", "locale"}, row: Profile]

TypeOK ==
  /\ req \in [Req -> Request \cup {Idle}]
  /\ user \in User \cup {NoRow}
  /\ link \in BOOLEAN
  /\ profile \in Profile \cup {NoRow}
  /\ token \in [TokenId -> Token \cup {NoRow}]
  /\ given \subseteq TokenId
  /\ \A t \in TokenId : token[t] # NoRow => t \in given
  /\ last \in Password \cup {Unset}
  /\ spent \in [TokenId -> 0..2]
  /\ past \subseteq {"overlap", "failure"}
  /\ (link \/ profile # NoRow \/ given # {}) => user # NoRow

Init ==
  /\ user = NoRow /\ profile = NoRow
  /\ link = FALSE
  /\ token = [t \in TokenId |-> NoRow]
  /\ req = [r \in Req |-> Idle]
  /\ given = {}
  /\ last = Unset
  /\ spent = [t \in TokenId |-> 0]
  /\ past = {}

-----------------------------------------------------------------------------
(* Requests *)

Become(r, state) == req' = [req EXCEPT ![r] = state]

Begin(r, state) ==
  /\ req[r] = Idle
  /\ Become(r, state)
  /\ past' = past \cup (IF \E q \in Req \ {r} : req[q] # Idle THEN {"overlap"} ELSE {})
  /\ UNCHANGED <<rows, given, last, spent>>

\* A statement fails or the process dies: the open transaction is rolled back,
\* earlier ones stay.
Fail(r) ==
  /\ MayFail
  /\ req[r] # Idle
  /\ Become(r, Idle)
  /\ past' = past \cup {"failure"}
  /\ UNCHANGED <<rows, given, last, spent>>

-----------------------------------------------------------------------------
(* The repositories *)

FindByID == {user} \ {NoRow}

\* The address is unique among the rows that are not deleted.
FindByEmail == {user} \ {NoRow}

Exists == FindByEmail # {}

\* The unique index on the address refuses a second user.
CreateUser(row) ==
  /\ ~Exists
  /\ user' = row

FindLink == IF link THEN {"link"} ELSE {}

\* Unique indexes refuse a second link.
CreateLink ==
  /\ FindLink = {}
  /\ link' = TRUE

FindProfile == {profile} \ {NoRow}

\* UserRepository.Update writes every column but a verification that is missing.
Saved(row) == user' = [row EXCEPT !.verified = row.verified \/ user.verified]

\* Mutant: the password is not among the columns.
SavedWithoutPassword(row, p) ==
  /\ Saved(row)
  /\ last' = p

\* User.PasswordHash is replaced in the row as it was read.
PasswordSaved(row, p) ==
  /\ Saved([row EXCEPT !.password = p])
  /\ last' = p

\* VerifyEmail, and an OAuth login that finds the address: the mail arrived.
Activated(row) == Saved([row EXCEPT !.status = "active", !.verified = TRUE])

OfKind(kind) == {t \in TokenId : token[t] # NoRow /\ token[t].kind = kind}

\* The two tables of tokens, each looked up by the token.
FindVerification(t) == {t} \cap OfKind("verify")
FindReset(t) == {t} \cap OfKind("reset")

Deleted(ts) == token' = [t \in TokenId |-> IF t \in ts THEN NoRow ELSE token[t]]

DeleteVerifications == Deleted(OfKind("verify"))
DeleteResets == Deleted(OfKind("reset"))

Inserted(t, kind) ==
  /\ t \notin given
  /\ token' = [token EXCEPT ![t] = [kind |-> kind, used |-> FALSE, expired |-> FALSE]]
  /\ given' = given \cup {t}

CreateVerification(t) == Inserted(t, "verify")
CreateReset(t) == Inserted(t, "reset")

\* The row of the token may be gone: the UPDATE then does nothing.
MarkAsUsed(t) ==
  token' = [token EXCEPT ![t] = IF @ = NoRow THEN @ ELSE [@ EXCEPT !.used = TRUE]]

\* An hour or a day goes by.  Nothing deletes expired tokens by itself.
Expire(t) ==
  /\ token[t] # NoRow
  /\ ~token[t].expired
  /\ token' = [token EXCEPT ![t].expired = TRUE]
  /\ UNCHANGED <<user, link, profile, req, history>>

-----------------------------------------------------------------------------
(* RegisterCommand *)

RegisterRead(r) ==
  /\ ~Exists
  /\ Begin(r, [at |-> "register"])

\* One transaction, which ends at the unique index if the address is taken.
RegisterCommit(r) ==
  /\ req[r].at = "register"
  /\ \/ \E p \in Password, t \in TokenId :
          /\ CreateUser([password |-> p, status |-> "pending", verified |-> FALSE])
          /\ CreateVerification(t)
          /\ last' = p
     \/ Exists /\ UNCHANGED <<user, token, given, last>>
  /\ Become(r, Idle)
  /\ UNCHANGED <<link, profile, spent, past>>

Register(r) == RegisterRead(r) \/ RegisterCommit(r)

-----------------------------------------------------------------------------
(* VerifyEmailCommand *)

VerifyRead(r, t) ==
  /\ FindVerification(t) # {}
  /\ FindByID # {}
  /\ Begin(r, IF token[t].expired \/ user.verified
              THEN [at |-> "drop", token |-> t]
              ELSE [at |-> "verify", token |-> t, row |-> user])

DropToken(r) ==
  /\ req[r].at = "drop"
  /\ Deleted({req[r].token})
  /\ Become(r, Idle)
  /\ UNCHANGED <<user, link, profile, history>>

\* Mutant: the address is verified, the status left as it was.
VerifiedOnly(r) ==
  /\ req[r].at = "verify"
  /\ Saved([req[r].row EXCEPT !.verified = TRUE])
  /\ Deleted({req[r].token})
  /\ Become(r, Idle)
  /\ UNCHANGED <<link, profile, history>>

VerifyCommit(r) ==
  /\ req[r].at = "verify"
  /\ Activated(req[r].row)
  /\ Deleted({req[r].token})
  /\ Become(r, Idle)
  /\ UNCHANGED <<link, profile, history>>

VerifyEmail(r) == (\E t \in TokenId : VerifyRead(r, t)) \/ DropToken(r) \/ VerifyCommit(r)

-----------------------------------------------------------------------------
(* ResendEmailVerificationCommand and ForgotPasswordCommand: the old tokens  *)
(* go in one statement, the new one comes in another.                        *)

ResendEmailVerification(r) ==
  /\ FindByEmail # {}
  /\ ~user.verified
  /\ Begin(r, [at |-> "delete_tokens", kind |-> "verify"])

ForgotPassword(r) ==
  /\ FindByEmail # {}
  /\ Begin(r, [at |-> "delete_tokens", kind |-> "reset"])

\* An error is ignored.
DeleteTokens(r) ==
  /\ req[r].at = "delete_tokens"
  /\ \/ /\ IF req[r].kind = "reset" THEN DeleteResets ELSE DeleteVerifications
        /\ UNCHANGED past
     \/ /\ MayFail
        /\ past' = past \cup {"failure"}
        /\ UNCHANGED token
  /\ Become(r, [at |-> "create_token", kind |-> req[r].kind])
  /\ UNCHANGED <<user, link, profile, given, last, spent>>

CreateToken(r) ==
  /\ req[r].at = "create_token"
  /\ \E t \in TokenId : IF req[r].kind = "reset" THEN CreateReset(t) ELSE CreateVerification(t)
  /\ Become(r, Idle)
  /\ UNCHANGED <<user, link, profile, last, spent, past>>

-----------------------------------------------------------------------------
(* ResetPasswordCommand *)

\* PasswordResetToken.IsValid
IsValid(t) == ~token[t].expired /\ ~token[t].used

ResetRead(r, t) ==
  /\ FindReset(t) # {}
  /\ IsValid(t)
  /\ FindByID # {}
  /\ Begin(r, [at |-> "reset", token |-> t, row |-> user])

ResetCommit(r) ==
  LET t == req[r].token IN
  /\ req[r].at = "reset"
  /\ \E p \in Password : PasswordSaved(req[r].row, p)
  /\ MarkAsUsed(t)
  /\ spent' = [spent EXCEPT ![t] = IF @ < 2 THEN @ + 1 ELSE @]
  /\ Become(r, Idle)
  /\ UNCHANGED <<link, profile, given, past>>

ResetPassword(r) == (\E t \in TokenId : ResetRead(r, t)) \/ ResetCommit(r)

-----------------------------------------------------------------------------
(* ChangePasswordCommand, SetPasswordCommand, UpdateUserCommand *)

\* No password matches the empty hash.
ChangePassword(r) ==
  /\ FindByID # {}
  /\ user.password # Unset
  /\ Begin(r, [at |-> "password", row |-> user])

SetPassword(r) ==
  /\ FindByID # {}
  /\ user.password = Unset
  /\ Begin(r, [at |-> "password", row |-> user])

PasswordCommit(r) ==
  /\ req[r].at = "password"
  /\ \E p \in Password : PasswordSaved(req[r].row, p)
  /\ Become(r, Idle)
  /\ UNCHANGED <<link, profile, token, given, spent, past>>

UpdateMe(r) ==
  /\ FindByID # {}
  /\ Begin(r, [at |-> "rename", row |-> user])

\* The name is not modelled; the rest of the row is written with it.
UpdateUser(r) ==
  /\ req[r].at = "rename"
  /\ Saved(req[r].row)
  /\ Become(r, Idle)
  /\ UNCHANGED <<link, profile, token, history>>

-----------------------------------------------------------------------------
(* UpdateProfileCommand *)

\* Mutant: every update starts from the defaults.
AlwaysDefault == NewUserProfile

\* The first update starts from the defaults.
FoundProfile == IF FindProfile = {} THEN NewUserProfile ELSE profile

UpdateProfile(r) ==
  /\ FindByID # {}
  /\ \/ \E b \in {"", "text"} :
          Begin(r, [at |-> "profile", field |-> "bio", row |-> [FoundProfile EXCEPT !.bio = b]])
     \/ \E l \in {"ja", "en"} :
          Begin(r, [at |-> "profile", field |-> "locale", row |-> [FoundProfile EXCEPT !.locale = l]])

\* COALESCE keeps a field that is to become empty.
Upserted(row) ==
  profile' = IF FindProfile # {} /\ row.bio = "" THEN [row EXCEPT !.bio = profile.bio] ELSE row

ProfileCommit(r) ==
  /\ req[r].at = "profile"
  /\ Upserted(req[r].row)
  /\ Become(r, Idle)
  /\ UNCHANGED <<user, link, token, history>>

-----------------------------------------------------------------------------
(* OAuthLoginCommand, as long as there is no link.  With one, the tokens of  *)
(* the provider are renewed and nothing else.                                *)

\* Mutant: the link is made before the transaction that creates the user.
OAuthLinkFirst(r) ==
  /\ ~link
  /\ req[r] = Idle
  /\ link' = TRUE
  /\ Become(r, IF user = NoRow THEN [at |-> "oauth_new"] ELSE [at |-> "oauth_link", row |-> user])
  /\ UNCHANGED <<user, profile, token, history>>

OAuthRead(r) ==
  /\ FindLink = {}
  /\ Begin(r, IF FindByEmail = {} THEN [at |-> "oauth_new"] ELSE [at |-> "oauth_link", row |-> user])

OAuthLink(r) ==
  LET row == req[r].row IN
  /\ req[r].at = "oauth_link"
  /\ \/ /\ CreateLink
        /\ IF row.status = "pending" THEN Activated(row) ELSE UNCHANGED user
     \/ FindLink # {} /\ UNCHANGED <<link, user>>
  /\ Become(r, Idle)
  /\ UNCHANGED <<profile, token, history>>

\* Mutant: the new user is to verify an address the provider has verified.
OAuthPending(r) ==
  /\ req[r].at = "oauth_new"
  /\ IF user = NoRow
     THEN /\ user' = [password |-> Unset, status |-> "pending", verified |-> FALSE]
          /\ link' = TRUE
          /\ Upserted(NewUserProfile)
     ELSE UNCHANGED <<user, link, profile>>
  /\ Become(r, Idle)
  /\ UNCHANGED <<token, history>>

OAuthNew(r) ==
  /\ req[r].at = "oauth_new"
  /\ \/ /\ CreateUser([password |-> Unset, status |-> "active", verified |-> TRUE])
        /\ CreateLink
        /\ Upserted(NewUserProfile)
     \/ Exists /\ UNCHANGED <<user, link, profile>>
  /\ Become(r, Idle)
  /\ UNCHANGED <<token, history>>

OAuthLogin(r) == OAuthRead(r) \/ OAuthLink(r) \/ OAuthNew(r)

-----------------------------------------------------------------------------
(* The requests AuthHandler and ProfileHandler accept. *)

MailToken(r) ==
  ResendEmailVerification(r) \/ ForgotPassword(r) \/ DeleteTokens(r) \/ CreateToken(r)

NewPassword(r) == ChangePassword(r) \/ SetPassword(r) \/ PasswordCommit(r)

PatchMe(r) == UpdateMe(r) \/ UpdateUser(r)

PutProfile(r) == UpdateProfile(r) \/ ProfileCommit(r)

\* GET /me/profile answers with the defaults as long as there is no row.  The
\* error it answers with before there is a user shows no settings either.
GetProfile ==
  IF FindByID = {} \/ FindProfile = {} THEN NewUserProfile ELSE profile

Next ==
  \/ \E t \in TokenId : Expire(t)
  \/ \E r \in Req :
       \/ Register(r) \/ VerifyEmail(r) \/ OAuthLogin(r)
       \/ MailToken(r) \/ ResetPassword(r) \/ NewPassword(r)
       \/ PatchMe(r) \/ PutProfile(r)
       \/ Fail(r)

Spec == Init /\ [][Next]_vars

-----------------------------------------------------------------------------
(* Properties *)

\* LoginCommand lets a pending user in, OAuthLoginCommand does not.
PasswordLogin == user.password # Unset /\ user.status \in {"pending", "active"}
OAuthEntry == link /\ user.status = "active"

\* Whatever overlaps and fails, the user has one way to log in: no stale row
\* takes the password from a user who has no working link.
NotLockedOut == user # NoRow => PasswordLogin \/ OAuthEntry

\* The status follows what the user has proved: only a verified address is
\* active, whatever overlaps and fails; and a verified or linked user is, as long
\* as requests do not overlap: VerifyEmail calls a verified user done, OAuthLogin
\* refuses a pending one, so that neither would repair it.
StatusFollowsProof ==
  user # NoRow =>
    /\ user.status = "active" => user.verified
    /\ "overlap" \notin past /\ (user.verified \/ link) => user.status = "active"

\* The password is the one the last command reported, no other command that
\* writes the row brings an older one back, and no token sets it twice, unless
\* requests overlap; if nothing fails either, only the last token mailed out for a
\* purpose is good.
PasswordKept ==
  /\ "overlap" \notin past => /\ user # NoRow => user.password = last
                              /\ \A t \in TokenId : spent[t] <= 1
  /\ past = {} => \A kind \in {"verify", "reset"} :
                    Cardinality({t \in OfKind(kind) : IsValid(t)}) <= 1

\* What a user is shown of the profile changes with an update of that field and
\* with nothing else, least of all when the first update creates the row.
SettingsKept ==
  [][\A f \in {"bio", "locale"} :
       "overlap" \notin past /\ GetProfile'[f] # GetProfile[f] =>
         \E r \in Req : req[r].at = "profile" /\ req[r].field = f]_vars
=============================================================================
