--------------------------- MODULE GroupMembership --------------------------
(***************************************************************************)
(* One group: its owner, its memberships and its invitations, under the    *)
(* collaboration commands running concurrently over PostgreSQL.  Groups    *)
(* share no rows, so one of them is the whole component.                   *)
(*                                                                         *)
(* Every command reads rows one statement at a time, decides on the        *)
(* entities it holds, and ends with one transaction or statement that      *)
(* writes by primary key.  That write asks nothing of the rows but what    *)
(* PostgreSQL asks: UPDATE ... RETURNING needs the row, an insert needs    *)
(* the group (foreign key) and UNIQUE (group_id, user_id).                 *)
(***************************************************************************)
EXTENDS FileTable, FiniteSets

CONSTANTS
  User,        \* registered users; an e-mail address belongs to one of them
  MemberId,    \* identifiers uuid.New() may return for a membership
  InviteId,    \* the same for an invitation (and its token)
  Req,         \* commands running at the same time
  JobStarted   \* TRUE: InvitationExpiryJob runs (main.go never starts it)

ASSUME JobAssumption == JobStarted \in BOOLEAN

VARIABLES
  group,     \* the row of table groups
  deleted,   \* the row was there and is gone; identifiers are not reused
  members,   \* table memberships
  invites,   \* table invitations
  lapsed,    \* invitations past their expires_at
  named,     \* history: users the group was created by or transferred to
  req        \* the commands

tables == <<group, deleted, members, invites>>
vars == <<tables, lapsed, named, req>>

Role == {"viewer", "contributor", "owner"}
Level == [viewer |-> 1, contributor |-> 2, owner |-> 3]

Group      == [status: {"active"}, owner: User]
Membership == [status: {"member"}, user: User, role: Role]
InvitationStatus == {"pending", "accepted", "declined", "expired", "cancelled"}
Invitation == [status: InvitationStatus, user: User, role: Role \ {"owner"}]

Idle == [pc |-> "idle"]

Request ==
  [pc: {"update_actor", "update"}, by: User, owner: User]
    \cup
  [pc: {"transfer_members"}, by: User, to: User]
    \cup
  [pc: {"transfer"}, to: User, new: MemberId, old: MemberId]
    \cup
  [pc: {"delete", "change_target", "remove_target", "cancel_invite"}]
    \cup
  [pc: {"invite_member", "invite_pending", "invite"}, user: User, role: Role \ {"owner"}]
    \cup
  [pc: {"change"}, member: MemberId, role: Role]
    \cup
  [pc: {"remove"}, member: MemberId]
    \cup
  [pc: {"accept_member", "accept"}, invite: InviteId, user: User, role: Role \ {"owner"}]
    \cup
  [pc: {"save"}, invite: InviteId, status: {"declined", "cancelled"}]

TypeOK ==
  /\ group \in Group \cup {NoRow}
  /\ deleted \in BOOLEAN
  /\ members \in [MemberId -> Membership \cup {NoRow}]
  /\ invites \in [InviteId -> Invitation \cup {NoRow}]
  /\ lapsed \subseteq InviteId
  /\ named \subseteq User
  /\ req \in [Req -> Request \cup {Idle}]

Init ==
  /\ group = NoRow
  /\ deleted = FALSE
  /\ members = [m \in MemberId |-> NoRow]
  /\ invites = [i \in InviteId |-> NoRow]
  /\ lapsed = {}
  /\ named = {}
  /\ req = [r \in Req |-> Idle]

Become(r, state) == req' = [req EXCEPT ![r] = state]

\* FindByGroupAndUser, and the UNIQUE constraint.
IsMembership(m, u) == members[m] # NoRow /\ members[m].user = u
IsMember(u) == \E m \in MemberId : IsMembership(m, u)

IsOwnedBy(by) == group # NoRow /\ group.owner = by

\* GroupRole.CanInvite and CanAssign; CanManageMembers is being an owner.
CanInvite(role) == role \in {"contributor", "owner"}

\* Mutant: the owner role is assigned like any other.
CanAssignOwner(role, target) == Level[role] >= Level[target]

CanAssign(role, target) == target # "owner" /\ Level[role] > Level[target]

\* Mutant: only the clock is asked.
CanRespondInTime(i, status) == i \notin lapsed

\* Invitation.CanRespond, of the entity and the clock.
CanRespond(i, status) == status = "pending" /\ i \notin lapsed

HasRole(u, roles) == \E m \in MemberId : IsMembership(m, u) /\ members[m].role \in roles

MentionsMember(r, m) ==
  \/ req[r].pc = "transfer" /\ m \in {req[r].new, req[r].old}
  \/ req[r].pc \in {"change", "remove"} /\ req[r].member = m

FreshMember(m) == members[m] = NoRow /\ \A r \in Req : ~MentionsMember(r, m)

-----------------------------------------------------------------------------
(* The writes of the repositories *)

InsertGroup(u) == group' = [status |-> "active", owner |-> u]

\* GroupRepository.Update: the row must be there, every column is written.
SaveGroup(owner) ==
  /\ group # NoRow
  /\ group' = [group EXCEPT !.owner = owner]

InsertMember(m, u, role) ==
  /\ FreshMember(m)
  /\ ~IsMember(u)
  /\ members' = [members EXCEPT ![m] = [status |-> "member", user |-> u, role |-> role]]

SaveMember(m, role) ==
  /\ members[m] # NoRow
  /\ members' = [members EXCEPT ![m].role = role]

\* DELETE, whether or not the membership is still there and still as it was.
DeleteMember(m) == members' = [members EXCEPT ![m] = NoRow]

InsertInvite(i, u, role) ==
  /\ invites[i] = NoRow /\ i \notin lapsed
  /\ invites' = [invites EXCEPT ![i] = [status |-> "pending", user |-> u, role |-> role]]

\* The link in the mail names the token, the owner's request the identifier.
FindByToken(i) == invites[i] # NoRow
FindInvitation(i) == invites[i] # NoRow

UpdateInvite(i, status) ==
  /\ invites[i] # NoRow
  /\ invites' = [invites EXCEPT ![i].status = status]

\* None of the three asks for a row.
DeleteInvites == invites' = [i \in InviteId |-> NoRow]
DeleteMembers == members' = [m \in MemberId |-> NoRow]
DeleteRow == group' = NoRow /\ deleted' = TRUE

-----------------------------------------------------------------------------
(* CreateGroup *)

CreateGroup(u, m) ==
  /\ group = NoRow /\ ~deleted
  /\ InsertGroup(u)
  /\ InsertMember(m, u, "owner")
  /\ named' = named \cup {u}
  /\ UNCHANGED <<deleted, invites, lapsed, req>>

-----------------------------------------------------------------------------
(* UpdateGroup.  Name and description are left out; what matters is the      *)
(* owner column, which the UPDATE writes as it was read.                     *)

UpdateRead(r, by) ==
  /\ req[r] = Idle
  /\ group # NoRow
  /\ Become(r, [pc |-> "update_actor", by |-> by, owner |-> group.owner])
  /\ UNCHANGED <<tables, lapsed, named>>

UpdateActor(r) ==
  /\ req[r].pc = "update_actor"
  /\ HasRole(req[r].by, {"owner"})
  /\ Become(r, [req[r] EXCEPT !.pc = "update"])
  /\ UNCHANGED <<tables, lapsed, named>>

UpdateCommit(r) ==
  /\ req[r].pc = "update"
  /\ SaveGroup(req[r].owner)
  /\ Become(r, Idle)
  /\ UNCHANGED <<deleted, members, invites, lapsed, named>>

-----------------------------------------------------------------------------
(* TransferOwnership *)

TransferRead(r, by, to) ==
  /\ req[r] = Idle
  /\ by # to
  /\ IsOwnedBy(by)
  /\ Become(r, [pc |-> "transfer_members", by |-> by, to |-> to])
  /\ UNCHANGED <<tables, lapsed, named>>

\* The two memberships; their roles are not looked at.
TransferMembers(r) ==
  /\ req[r].pc = "transfer_members"
  /\ \E new, old \in MemberId :
       /\ IsMembership(new, req[r].to)
       /\ IsMembership(old, req[r].by)
       /\ Become(r, [pc |-> "transfer", to |-> req[r].to, new |-> new, old |-> old])
  /\ UNCHANGED <<tables, lapsed, named>>

Demoted(r) == [members EXCEPT ![req[r].new].role = "owner",
                              ![req[r].old].role = "contributor"]

TransferCommit(r) ==
  /\ req[r].pc = "transfer"
  /\ members[req[r].new] # NoRow /\ members[req[r].old] # NoRow
  /\ SaveGroup(req[r].to)
  /\ members' = Demoted(r)
  /\ named' = named \cup {req[r].to}
  /\ Become(r, Idle)
  /\ UNCHANGED <<deleted, invites, lapsed>>

-----------------------------------------------------------------------------
(* DeleteGroup *)

DeleteRead(r, by) ==
  /\ req[r] = Idle
  /\ IsOwnedBy(by)
  /\ Become(r, [pc |-> "delete"])
  /\ UNCHANGED <<tables, lapsed, named>>

DeleteCommit(r) ==
  /\ req[r].pc = "delete"
  /\ DeleteInvites
  /\ DeleteMembers
  /\ DeleteRow
  /\ Become(r, Idle)
  /\ UNCHANGED <<lapsed, named>>

-----------------------------------------------------------------------------
(* InviteMember *)

InviteRead(r, by, user, role) ==
  /\ req[r] = Idle
  /\ \E m \in MemberId : /\ IsMembership(m, by)
                         /\ CanInvite(members[m].role)
                         /\ CanAssign(members[m].role, role)
  /\ Become(r, [pc |-> "invite_member", user |-> user, role |-> role])
  /\ UNCHANGED <<tables, lapsed, named>>

InviteMember(r) ==
  /\ req[r].pc = "invite_member"
  /\ ~IsMember(req[r].user)
  /\ Become(r, [req[r] EXCEPT !.pc = "invite_pending"])
  /\ UNCHANGED <<tables, lapsed, named>>

\* Mutant: an invitation that has run out does not count.
PendingInTime(user) ==
  \E i \in InviteId : /\ invites[i].status = "pending" /\ invites[i].user = user
                      /\ i \notin lapsed

\* FindPendingByGroupAndEmail does not look at expires_at.
Pending(user) ==
  \E i \in InviteId : invites[i].status = "pending" /\ invites[i].user = user

InvitePending(r) ==
  /\ req[r].pc = "invite_pending"
  /\ ~Pending(req[r].user)
  /\ Become(r, [req[r] EXCEPT !.pc = "invite"])
  /\ UNCHANGED <<tables, lapsed, named>>

\* Mutant: invitations without a foreign key.
GroupThereAlways == TRUE

\* The foreign keys memberships.group_id and invitations.group_id.
GroupThere == group # NoRow

InviteCommit(r, i) ==
  /\ req[r].pc = "invite"
  /\ GroupThere
  /\ InsertInvite(i, req[r].user, req[r].role)
  /\ Become(r, Idle)
  /\ UNCHANGED <<group, deleted, members, lapsed, named>>

-----------------------------------------------------------------------------
(* AcceptInvitation, DeclineInvitation, CancelInvitation *)

AcceptRead(r, i) ==
  /\ req[r] = Idle
  /\ FindByToken(i)
  /\ CanRespond(i, invites[i].status)
  /\ Become(r, [pc |-> "accept_member", invite |-> i,
                user |-> invites[i].user, role |-> invites[i].role])
  /\ UNCHANGED <<tables, lapsed, named>>

AcceptMember(r) ==
  /\ req[r].pc = "accept_member"
  /\ GroupThere
  /\ ~IsMember(req[r].user)
  /\ Become(r, [req[r] EXCEPT !.pc = "accept"])
  /\ UNCHANGED <<tables, lapsed, named>>

\* Accept asks again, but of the entity that was read: only the clock can
\* have moved.
AcceptCommit(r, m) ==
  LET i == req[r].invite IN
  /\ req[r].pc = "accept"
  /\ CanRespond(i, "pending")
  /\ GroupThere
  /\ UpdateInvite(i, "accepted")
  /\ InsertMember(m, req[r].user, req[r].role)
  /\ Become(r, Idle)
  /\ UNCHANGED <<group, deleted, lapsed, named>>

DeclineRead(r, i) ==
  /\ req[r] = Idle
  /\ FindByToken(i)
  /\ CanRespond(i, invites[i].status)
  /\ Become(r, [pc |-> "save", invite |-> i, status |-> "declined"])
  /\ UNCHANGED <<tables, lapsed, named>>

CancelInvite(r, i) ==
  /\ req[r].pc = "cancel_invite"
  /\ FindInvitation(i)
  /\ invites[i].status = "pending"
  /\ Become(r, [pc |-> "save", invite |-> i, status |-> "cancelled"])
  /\ UNCHANGED <<tables, lapsed, named>>

SaveInvite(r) ==
  /\ req[r].pc = "save"
  /\ UpdateInvite(req[r].invite, req[r].status)
  /\ Become(r, Idle)
  /\ UNCHANGED <<group, deleted, members, lapsed, named>>

-----------------------------------------------------------------------------
(* ChangeRole, RemoveMember, LeaveGroup *)

\* The actor of ChangeRole, RemoveMember and CancelInvitation must manage
\* members, that is, have the owner role.
ManageRead(r, by, next) ==
  /\ req[r] = Idle
  /\ HasRole(by, {"owner"})
  /\ Become(r, [pc |-> next])
  /\ UNCHANGED <<tables, lapsed, named>>

\* The owner role is refused before anything is read, here with the target.
ChangeRead(r, by) == ManageRead(r, by, "change_target")

CancelRead(r, by) == ManageRead(r, by, "cancel_invite")

RemoveRead(r, by) == ManageRead(r, by, "remove_target")

ChangeTarget(r, m, role) ==
  /\ req[r].pc = "change_target"
  /\ members[m] # NoRow /\ members[m].role # "owner"
  /\ CanAssign("owner", role)
  /\ Become(r, [pc |-> "change", member |-> m, role |-> role])
  /\ UNCHANGED <<tables, lapsed, named>>

ChangeCommit(r) ==
  /\ req[r].pc = "change"
  /\ SaveMember(req[r].member, req[r].role)
  /\ Become(r, Idle)
  /\ UNCHANGED <<group, deleted, invites, lapsed, named>>

RemoveTarget(r, m) ==
  /\ req[r].pc = "remove_target"
  /\ members[m] # NoRow /\ members[m].role # "owner"
  /\ Become(r, [pc |-> "remove", member |-> m])
  /\ UNCHANGED <<tables, lapsed, named>>

\* Mutant: an owner may leave.
MayLeaveAny(m) == members[m] # NoRow

MayLeave(m) == members[m] # NoRow /\ members[m].role # "owner"

LeaveRead(r, m) ==
  /\ req[r] = Idle
  /\ MayLeave(m)
  /\ Become(r, [pc |-> "remove", member |-> m])
  /\ UNCHANGED <<tables, lapsed, named>>

RemoveCommit(r) ==
  /\ req[r].pc = "remove"
  /\ DeleteMember(req[r].member)
  /\ Become(r, Idle)
  /\ UNCHANGED <<group, deleted, invites, lapsed, named>>

-----------------------------------------------------------------------------
\* A check says no, a statement fails, or the process dies.  Every command
\* writes in its last step only, so nothing of it remains.
Fail(r) ==
  /\ req[r] # Idle
  /\ Become(r, Idle)
  /\ UNCHANGED <<tables, lapsed, named>>

Lapse(i) ==
  /\ invites[i].status = "pending"
  /\ i \notin lapsed
  /\ lapsed' = lapsed \cup {i}
  /\ UNCHANGED <<tables, named, req>>

\* InvitationExpiryJob: one UPDATE of all that ran out.
ExpireOld ==
  /\ JobStarted
  /\ invites' = [i \in InviteId |->
       IF invites[i].status = "pending" /\ i \in lapsed
         THEN [invites[i] EXCEPT !.status = "expired"] ELSE invites[i]]
  /\ UNCHANGED <<group, deleted, members, lapsed, named, req>>

-----------------------------------------------------------------------------
(* The requests: each is served by one of the commands. *)

NewGroup(u) == \E m \in MemberId : CreateGroup(u, m)

UpdateGroup(r) ==
  (\E by \in User : UpdateRead(r, by)) \/ UpdateActor(r) \/ UpdateCommit(r)

TransferOwnership(r) ==
  \/ \E by, to \in User : TransferRead(r, by, to)
  \/ TransferMembers(r)
  \/ TransferCommit(r)

DeleteGroup(r) == (\E by \in User : DeleteRead(r, by)) \/ DeleteCommit(r)

Invite(r) ==
  \/ \E by, user \in User, role \in Role : InviteRead(r, by, user, role)
  \/ InviteMember(r)
  \/ InvitePending(r)
  \/ \E i \in InviteId : InviteCommit(r, i)

AcceptInvitation(r) ==
  \/ \E i \in InviteId : AcceptRead(r, i)
  \/ AcceptMember(r)
  \/ \E m \in MemberId : AcceptCommit(r, m)

DeclineInvitation(r) == (\E i \in InviteId : DeclineRead(r, i)) \/ SaveInvite(r)

CancelInvitation(r) ==
  \/ \E by \in User : CancelRead(r, by)
  \/ \E i \in InviteId : CancelInvite(r, i)
  \/ SaveInvite(r)

ChangeRole(r) ==
  \/ \E by \in User : ChangeRead(r, by)
  \/ \E m \in MemberId, role \in Role : ChangeTarget(r, m, role)
  \/ ChangeCommit(r)

RemoveMember(r) ==
  \/ \E by \in User : RemoveRead(r, by)
  \/ \E m \in MemberId : RemoveTarget(r, m)
  \/ RemoveCommit(r)

LeaveGroup(r) == (\E m \in MemberId : LeaveRead(r, m)) \/ RemoveCommit(r)

Next ==
  \/ \E u \in User : NewGroup(u)
  \/ \E r \in Req :
       \/ UpdateGroup(r) \/ TransferOwnership(r) \/ DeleteGroup(r)
       \/ Invite(r) \/ AcceptInvitation(r) \/ DeclineInvitation(r) \/ CancelInvitation(r)
       \/ ChangeRole(r) \/ RemoveMember(r) \/ LeaveGroup(r)
       \/ Fail(r)
  \/ \E i \in InviteId : Lapse(i)
  \/ ExpireOld

Spec == Init /\ [][Next]_vars

-----------------------------------------------------------------------------
(* What the queries answer to a user.  A refusal is an empty answer. *)

MemberRows == {m \in MemberId : members[m] # NoRow}

ListMembers(u) == IF group # NoRow /\ IsMember(u) THEN MemberRows ELSE {}

\* The group, through the membership that joins it.
FindByMemberID(u) == IF group # NoRow THEN {m \in MemberId : IsMembership(m, u)} ELSE {}

ListMyGroups(u) == FindByMemberID(u)

GetGroup(u) ==
  IF group # NoRow /\ IsMember(u)
    THEN [status |-> "found",
          role |-> members[CHOOSE m \in MemberId : IsMembership(m, u)].role]
    ELSE NoRow

\* Both lists are of pending invitations, run out or not.
PendingInvites == {i \in InviteId : invites[i].status = "pending"}

ListInvitations(u) ==
  IF group # NoRow /\ \E m \in MemberId : IsMembership(m, u) /\ CanInvite(members[m].role)
    THEN PendingInvites ELSE {}

FindPendingByEmail(u) ==
  {i \in InviteId : invites[i].status = "pending" /\ invites[i].user = u}

\* An invitation to a group that is gone is skipped.
ListPendingInvitations(u) == IF group # NoRow THEN FindPendingByEmail(u) ELSE {}

-----------------------------------------------------------------------------
(* Properties that hold however the commands interleave *)

\* docs/03-domains/group.md, I-GD002 and I-GM002: a deleted group leaves no
\* membership and no invitation, and no command that was under way brings one
\* or the group itself back.  Grants to the group are rows of Permissions: no
\* code deletes them, though I-GD003 says that the deletion does.
NothingLeft ==
  deleted => /\ group = NoRow
             /\ \A m \in MemberId : members[m] = NoRow
             /\ \A i \in InviteId : invites[i] = NoRow

\* docs/03-domains/group.md, I-GO004: only the creator and users an owner
\* transferred the group to ever hold the owner role or the owner column.
NoEscalation ==
  /\ group # NoRow => group.owner \in named
  /\ \A m \in MemberId : members[m].status = "member" /\ members[m].role = "owner"
                           => members[m].user \in named

-----------------------------------------------------------------------------
(* Properties that hold as long as one command runs at a time *)

\* docs/03-domains/group.md, R-G001 and R-M002: the owner finds himself in
\* that role, finds nobody else in it, and sees every invitation that somebody
\* can answer.
OwnerAgrees ==
  group # NoRow =>
    /\ GetGroup(group.owner).status = "found" /\ GetGroup(group.owner).role = "owner"
    /\ Cardinality({m \in ListMembers(group.owner) : members[m].role = "owner"}) = 1
    /\ \A u \in User : ListPendingInvitations(u) \subseteq ListInvitations(group.owner)

\* I-GI002, I-GI004: nobody has two invitations to choose from, or one to a
\* group that is in the list of his groups.
OneWayIn ==
  \A u \in User : /\ Cardinality(ListPendingInvitations(u)) <= 1
                  /\ ListMyGroups(u) # {} => ListPendingInvitations(u) = {}

\* An invitation that was answered or withdrawn, in a group that stays.
Answered(i) ==
  invites[i].status \in InvitationStatus \ {"pending"} /\ group' # NoRow

\* An answer stays: no later command turns it into another answer.
AnswerIsFinal == [][\A i \in InviteId : Answered(i) => invites'[i] = invites[i]]_vars
=============================================================================
