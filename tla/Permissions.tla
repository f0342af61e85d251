----------------------------- MODULE Permissions -----------------------------
(***************************************************************************)
(* Who may do what with a folder: owner and parent rows of relationships,  *)
(* rows of permission_grants for users and groups, and the resolver that   *)
(* puts them together.  A command asks the resolver, then writes one row;  *)
(* other commands and the memberships move on in between.                  *)
(*                                                                         *)
(* The resolver's answer is one step.  The rows of relationships are never *)
(* changed or deleted once CreateFolder has written them; a move or a      *)
(* deletion of a folder (FolderTree) leaves them, and the grants, behind.  *)
(* Uploads write no such rows, so files have neither owner nor parent here *)
(* and nobody can grant anything on one.                                   *)
(***************************************************************************)
EXTENDS Naturals, FiniteSets

CONSTANTS
  User,
  Group,
  FolderId,     \* identifiers uuid.New() may return, each used once
  Home,         \* a personal folder
  HomeOwner,    \* and whose it is
  Req,          \* requests served at the same time
  MaxGrants,    \* bound: grants ever made
  Root, Unborn  \* model values: no parent, no owner

ASSUME PermissionsAssumption ==
  Home \in FolderId /\ HomeOwner \in User /\ Unborn \notin User /\ MaxGrants \in Nat

VARIABLES
  owner,    \* relationships: user --owner--> folder
  parent,   \* relationships: folder --parent--> folder
  grants,   \* table permission_grants
  member,   \* table memberships
  req,      \* the requests
  made,     \* identifiers of grants used so far
  overlap   \* history: something happened while a request was under way

vars == <<owner, parent, grants, member, req, made, overlap>>

-----------------------------------------------------------------------------
(* Roles *)

Level == [none |-> 0, viewer |-> 1, contributor |-> 2, content_manager |-> 3, owner |-> 4]

Role == DOMAIN Level
AllGrantableRoles == {"viewer", "contributor", "content_manager"}

Includes(role, other) == Level[role] >= Level[other]

\* Mutant: any role that may grant may grant every role.
CanGrantAny(role, target) == target # "owner" /\ Level[role] >= 2

CanGrant(role, target) == target # "owner" /\ Level[role] > Level[target]

FilePermissions ==
  {"file:read", "file:write", "file:rename", "file:delete", "file:restore", "file:move_in",
   "file:move_out", "file:share", "file:move", "file:download", "file:permanent_delete"}

FolderPermissions ==
  {"folder:read", "folder:write", "folder:create", "folder:rename", "folder:delete",
   "folder:share", "folder:move_in", "folder:move_out"}

PermissionPermissions == {"permission:read", "permission:grant", "permission:revoke"}

\* Every permission a request may name.
AllPermissions ==
  FilePermissions \cup FolderPermissions \cup PermissionPermissions
    \cup {"root:delete", "manage:access"}

Permissions(role) ==
  CASE role = "owner" ->
         AllPermissions \ {"file:move", "file:download", "folder:write", "manage:access"}
    [] role = "content_manager" ->
         (FilePermissions \ {"file:move", "file:download", "file:permanent_delete"})
           \cup (FolderPermissions \ {"folder:write"}) \cup PermissionPermissions
    [] role = "contributor" ->
         (FilePermissions \ {"file:move", "file:download", "file:permanent_delete", "file:move_out"})
           \cup (FolderPermissions \ {"folder:write", "folder:move_out"}) \cup PermissionPermissions
    [] role = "viewer" -> {"file:read", "folder:read"}
    [] role = "none"   -> {}

\* PermissionSet.
AddFromRoles(roles) == UNION {Permissions(r) : r \in roles}

-----------------------------------------------------------------------------
(* The tables *)

Grantee == User \cup Group
PermissionGrant ==
  [id: 1..MaxGrants, on: FolderId, to: Grantee, role: AllGrantableRoles, by: User]

Folders == {f \in FolderId : owner[f] # Unborn}

Idle == [at |-> "idle"]

\* What a request was permitted to write.
Request ==
  [at: {"grant"}, by: User, on: FolderId, to: Grantee, role: AllGrantableRoles]
    \cup [at: {"revoke"}, by: User, id: 1..MaxGrants]
    \cup [at: {"create"}, by: User, on: FolderId]

\* UNIQUE (resource, grantee, role)
SameGrant(g, h) == g.on = h.on /\ g.to = h.to /\ g.role = h.role

TypeOK ==
  /\ owner \in [FolderId -> User \cup {Unborn}]
  /\ parent \in [FolderId -> FolderId \cup {Root}]
  /\ grants \subseteq PermissionGrant
  /\ \A g, h \in grants : g.id = h.id \/ SameGrant(g, h) => g = h
  /\ \A g \in grants : g.on \in Folders /\ g.id <= made
  /\ member \subseteq Group \X User
  /\ req \in [Req -> Request \cup {Idle}]
  /\ made \in 0..MaxGrants
  /\ overlap \in BOOLEAN

\* RelationshipRepository: Exists for an owner row, FindParent, and Create for
\* both rows of a folder that is new.
Exists(u, f) == owner[f] = u

FindParent(f) == parent[f]

InsertRelationships(u, f, above) ==
  /\ owner' = [owner EXCEPT ![f] = u]
  /\ parent' = [parent EXCEPT ![f] = above]

\* PermissionGrantRepository.
FindByID(id) == {g \in grants : g.id = id}

FindByResource(f) == {g \in grants : g.on = f}

\* Deleting what is not there is no error.
Delete(id) == grants' = {g \in grants : g.id # id}

\* Registration makes the personal folder and its owner row.
Init ==
  /\ owner = [f \in FolderId |-> IF f = Home THEN HomeOwner ELSE Unborn]
  /\ parent = [f \in FolderId |-> Root]
  /\ grants = {}
  /\ member = {}
  /\ req = [r \in Req |-> Idle]
  /\ made = 0 /\ overlap = FALSE

-----------------------------------------------------------------------------
(* PermissionResolverImpl *)

IsOwner(u, f) == Exists(u, f)

FindByResourceAndGrantee(f, to) == {g \in grants : g.on = f /\ g.to = to}

CollectGroupPermissions(u, f) ==
  UNION {FindByResourceAndGrantee(f, m[1]) : m \in {m \in member : m[2] = u}}

\* Direct grants and those of the user's groups.
RolesGranted(u, f) ==
  {g.role : g \in FindByResourceAndGrantee(f, u) \cup CollectGroupPermissions(u, f)}

Highest(roles) ==
  CHOOSE h \in roles \cup {"none"} : \A r \in roles : Level[h] >= Level[r]

\* Mutant: permissions of the groups are forgotten.
CollectUngrouped(u, folder) ==
  LET Collect[f \in FolderId] ==
        IF IsOwner(u, f) THEN Permissions("owner")
        ELSE AddFromRoles({g.role : g \in FindByResourceAndGrantee(f, u)})
               \cup (IF parent[f] = Root THEN {} ELSE Collect[parent[f]])
  IN Collect[folder]

CollectParentPermissions(f, collect) ==
  IF FindParent(f) = Root THEN {} ELSE collect[FindParent(f)]

CollectPermissions(u, folder) ==
  LET Collect[f \in FolderId] ==
        IF IsOwner(u, f) THEN Permissions("owner")
        ELSE AddFromRoles(RolesGranted(u, f))
               \cup CollectParentPermissions(f, Collect)
  IN Collect[folder]

GetParentEffectiveRole(f, effective) ==
  IF FindParent(f) = Root THEN "none" ELSE effective[FindParent(f)]

GetEffectiveRole(u, folder) ==
  LET Effective[f \in FolderId] ==
        IF IsOwner(u, f) THEN "owner"
        ELSE Highest(RolesGranted(u, f) \cup {GetParentEffectiveRole(f, Effective)})
  IN Effective[folder]

\* An owner has even the permissions no role comes with.
HasPermission(u, f, permission) ==
  IsOwner(u, f) \/ permission \in CollectPermissions(u, f)

CanGrantRole(u, f, role) == CanGrant(GetEffectiveRole(u, f), role)

(* What asks the resolver, besides the commands below *)

\* PermissionMiddleware; no route uses it.
RequirePermission(u, f, permission) == HasPermission(u, f, permission)

RequireAnyPermission(u, f, permissions) ==
  \E p \in permissions : HasPermission(u, f, p)

RequireOwner(u, f) == IsOwner(u, f)

RequireRole(u, f, role) == Includes(GetEffectiveRole(u, f), role)

\* CheckPermissionQuery
CheckPermission(u, f, permission) ==
  [has |-> HasPermission(u, f, permission), role |-> GetEffectiveRole(u, f)]

\* ListGrantsQuery
ListGrants(u, f) ==
  IF HasPermission(u, f, "permission:read") THEN FindByResource(f) ELSE {}

-----------------------------------------------------------------------------
(* Requests: Idle, or the next step with what has been decided. *)

Busy == \E r \in Req : req[r] # Idle

Become(r, state) == req' = [req EXCEPT ![r] = state]

Begin(r, state) ==
  /\ req[r] = Idle
  /\ Become(r, state)
  /\ overlap' = (overlap \/ Busy)
  /\ UNCHANGED <<owner, parent, grants, member, made>>

\* A request that is refused, or fails, returns an error and writes nothing.
Refuse(r) ==
  /\ req[r] # Idle
  /\ Become(r, Idle)
  /\ UNCHANGED <<owner, parent, grants, member, made, overlap>>

-----------------------------------------------------------------------------
(* GrantRoleCommand *)

\* The owner role is not granted, nor any to oneself, nor one that is there.
GrantCheck(r, u, f, to, role) ==
  LET grant == [at |-> "grant", by |-> u, on |-> f, to |-> to, role |-> role] IN
  /\ to # u
  /\ CanGrantRole(u, f, role)
  /\ ~\E g \in grants : SameGrant(g, grant)
  /\ Begin(r, grant)

NewPermissionGrant(q) == [id |-> made + 1, on |-> q.on, to |-> q.to, role |-> q.role, by |-> q.by]

\* Mutant: nothing but the look-up before keeps a grant from being made twice.
MayInsertAgain(q) == TRUE

\* The constraint of the table.
MayInsert(q) == ~\E g \in grants : SameGrant(g, q)

GrantCommit(r) ==
  /\ req[r].at = "grant"
  /\ made < MaxGrants
  /\ MayInsert(req[r])
  /\ grants' = grants \cup {NewPermissionGrant(req[r])}
  /\ made' = made + 1
  /\ Become(r, Idle)
  /\ UNCHANGED <<owner, parent, member, overlap>>

GrantRole(r) ==
  \/ /\ req[r] = Idle
     /\ \E u \in User, f \in Folders, to \in Grantee, role \in AllGrantableRoles :
          GrantCheck(r, u, f, to, role)
  \/ GrantCommit(r)

-----------------------------------------------------------------------------
(* RevokeGrantCommand *)

\* The row that is read by its identifier never changes while it is there.
RevokeCheck(r, u, id) ==
  \E g \in FindByID(id) :
    /\ CanGrantRole(u, g.on, g.role)
    /\ Begin(r, [at |-> "revoke", by |-> u, id |-> id])

\* A grant that was made anew has another identifier and stays.
RevokeCommit(r) ==
  /\ req[r].at = "revoke"
  /\ Delete(req[r].id)
  /\ Become(r, Idle)
  /\ UNCHANGED <<owner, parent, member, made, overlap>>

RevokeGrant(r) ==
  \/ /\ req[r] = Idle
     /\ \E u \in User, id \in 1..made : RevokeCheck(r, u, id)
  \/ RevokeCommit(r)

-----------------------------------------------------------------------------
(* CreateFolderCommand, as far as permissions go *)

CreateCheck(r, u, f) ==
  /\ HasPermission(u, f, "folder:create")
  /\ Begin(r, [at |-> "create", by |-> u, on |-> f])

CreateCommit(r) ==
  /\ req[r].at = "create"
  /\ \E f \in FolderId \ Folders : InsertRelationships(req[r].by, f, req[r].on)
  /\ Become(r, Idle)
  /\ UNCHANGED <<grants, member, made, overlap>>

CreateFolder(r) ==
  \/ /\ req[r] = Idle
     /\ \E u \in User, f \in Folders : CreateCheck(r, u, f)
  \/ CreateCommit(r)

-----------------------------------------------------------------------------
(* GroupMembership, as far as permissions go: users come and leave. *)

ChangeMember(m) ==
  /\ member' = IF m \in member THEN member \ {m} ELSE member \cup {m}
  /\ overlap' = (overlap \/ Busy)
  /\ UNCHANGED <<owner, parent, grants, req, made>>

Next ==
  \/ \E r \in Req : GrantRole(r) \/ RevokeGrant(r) \/ CreateFolder(r) \/ Refuse(r)
  \/ \E m \in Group \X User : ChangeMember(m)

Spec == Init /\ [][Next]_vars

-----------------------------------------------------------------------------
(* Properties *)

\* The two walks of the resolver agree, whichever way grants, groups and parents
\* combine: what a user may do is what the role comes with that CheckPermission
\* reports; RequireRole lets through who has every permission of the role; only who
\* owns the very folder gets past a guard with what no role comes with.  GrantRole
\* and RevokeGrant, which compare levels, let through exactly those who have
\* permission:grant and :revoke, and these see the grants there are.  What a user may
\* do with a folder he may do with the folders in it.
ResolversAgree ==
  \A u \in User, f \in Folders :
    LET has == CollectPermissions(u, f)
        mayGrant == {"permission:grant", "permission:revoke"} \subseteq has
    IN
    /\ has = Permissions(CheckPermission(u, f, "file:read").role)
    /\ \A role \in Role : RequireRole(u, f, role) <=> Permissions(role) \subseteq has
    /\ \A p \in {"file:read", "file:write", "file:move_out", "root:delete"} :
         RequirePermission(u, f, p) <=> p \in has
    /\ RequireAnyPermission(u, f, AllPermissions \ Permissions("owner")) <=> RequireOwner(u, f)
    /\ mayGrant <=> \E role \in AllGrantableRoles : CanGrantRole(u, f, role)
    /\ mayGrant => ListGrants(u, f) = FindByResource(f)
    /\ parent[f] # Root => CollectPermissions(u, parent[f]) \subseteq has

\* A role that comes with permission:grant may be granted by those who have it, and
\* so may the lower ones (the table of docs/03-domains/permission.md).
OwnRoleGrantable ==
  \A u \in User, f \in Folders, role \in AllGrantableRoles :
    HasPermission(u, f, "permission:grant") /\ Includes(GetEffectiveRole(u, f), role) =>
      CanGrantRole(u, f, role)

\* What the code keeps instead, OwnRoleGrantable being false of it: only owners, of the
\* folder or of one above, make content managers, however requests overlap, as
\* ownership is never lost.
ContentManagerFromOwner ==
  \A g \in grants : g.role = "content_manager" => GetEffectiveRole(g.by, g.on) = "owner"

\* Nobody changes the role of one who ranks as high as himself, himself
\* included: not by grants to a group he is in, not on folders further down, not
\* by revoking.  Requests that overlap may: they act on authority already lost.
RankRespected ==
  [][~overlap' => \A r \in Req : req[r].at \in {"grant", "revoke"} /\ req'[r] = Idle =>
       \A v \in User, f \in Folders :
         Level[GetEffectiveRole(v, f)] >= Level[GetEffectiveRole(req[r].by, f)] =>
           GetEffectiveRole(v, f)' = GetEffectiveRole(v, f)]_vars
=============================================================================
