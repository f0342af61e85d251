---------------------------- MODULE GroupProofs -----------------------------
(***************************************************************************)
(* What GroupMembership keeps however its commands interleave, for every   *)
(* number of users, commands and identifiers: a deleted group stays        *)
(* deleted, and nobody becomes owner whom no owner named.                  *)
(***************************************************************************)
EXTENDS GroupHistory, FiniteSetTheorems, TLAPS

\* The entities a command holds are about the users it read them for: a
\* transfer promotes the membership of the user it names, an update writes
\* an owner that was named, and a change of role never says owner.
CopiesAgree ==
  \A r \in Req :
    /\ req[r].pc \in {"update_actor", "update"} => req[r].owner \in named
    /\ req[r].pc = "change" => req[r].role # "owner"
    /\ req[r].pc = "transfer" /\ members[req[r].new] # NoRow
         => members[req[r].new].user = req[r].to

GInv == TypeOK /\ CopiesAgree /\ NothingLeft /\ NoEscalation

-----------------------------------------------------------------------------
(* Commands one after another *)

\* UNIQUE (group_id, user_id), and the foreign keys: without the group there is
\* no row of it, and before it is created there is no command for it.
Rows ==
  /\ \A m, n \in MemberId :
       members[m] # NoRow /\ members[n] # NoRow /\ members[m].user = members[n].user => m = n
  /\ group = NoRow =>
       /\ \A m \in MemberId : members[m] = NoRow
       /\ \A i \in InviteId : invites[i] = NoRow
       /\ deleted \/ \A r \in Req : req[r] = Idle

\* The owner column and the owner role are about one user.
OneOwner ==
  group # NoRow =>
    /\ \E m \in MemberId : IsMembership(m, group.owner) /\ members[m].role = "owner"
    /\ \A m \in MemberId : members[m] # NoRow /\ members[m].role = "owner" => members[m].user = group.owner

\* A pending invitation is the only one of a user who is no member.
OneInvitation ==
  \A i \in InviteId : invites[i].status = "pending" =>
    /\ ~IsMember(invites[i].user)
    /\ \A j \in InviteId : invites[j].status = "pending" /\ invites[j].user = invites[i].user => i = j

\* What a command that runs alone has read is still so.
Current(q) ==
  /\ q.pc \in {"update_actor", "update"} => IsOwnedBy(q.owner)
  /\ q.pc = "transfer_members" => IsOwnedBy(q.by) /\ q.by # q.to
  /\ q.pc = "transfer" => /\ group # NoRow /\ group.owner # q.to
                          /\ IsMembership(q.new, q.to) /\ IsMembership(q.old, group.owner)
  /\ q.pc \in {"invite_pending", "invite"} => ~IsMember(q.user)
  /\ q.pc = "invite" => ~Pending(q.user)
  /\ q.pc \in {"accept_member", "accept"} =>
       invites[q.invite].status = "pending" /\ invites[q.invite].user = q.user
  /\ q.pc = "save" => invites[q.invite].status = "pending"
  /\ q.pc \in {"change", "remove"} => members[q.member] # NoRow /\ members[q.member].role # "owner"

Alone ==
  /\ \A r, q \in Req : req[r] # Idle /\ req[q] # Idle => r = q
  /\ OneOwner
  /\ OneInvitation
  /\ \A r \in Req : Current(req[r])

HistoryInv == GInv /\ Rows /\ (~overlapped => Alone)

-----------------------------------------------------------------------------
(* However commands interleave *)

LEMMA RequestShape ==
  ASSUME TypeOK, NEW r \in Req
  PROVE  /\ req[r].pc \in {"update_actor", "update"} => req[r].by \in User /\ req[r].owner \in User
         /\ req[r].pc = "transfer_members" => req[r].by \in User /\ req[r].to \in User
         /\ req[r].pc = "transfer" => /\ req[r].to \in User
                                      /\ req[r].new \in MemberId /\ req[r].old \in MemberId
         /\ req[r].pc \in {"invite_member", "invite_pending", "invite"}
              => req[r].user \in User /\ req[r].role \in Role \ {"owner"}
         /\ req[r].pc = "change" => req[r].member \in MemberId /\ req[r].role \in Role
         /\ req[r].pc = "remove" => req[r].member \in MemberId
         /\ req[r].pc \in {"accept_member", "accept"} =>
              /\ req[r].invite \in InviteId /\ req[r].user \in User
              /\ req[r].role \in Role \ {"owner"}
         /\ req[r].pc = "save" => /\ req[r].invite \in InviteId
                                  /\ req[r].status \in {"declined", "cancelled"}
BY DEF TypeOK, Request, Idle

LEMMA InitGInv == Init => GInv
<1> SUFFICES ASSUME Init PROVE GInv
  OBVIOUS
<1>1. TypeOK
  BY DEF Init, TypeOK
<1>2. CopiesAgree
  BY DEF Init, CopiesAgree, Idle
<1>3. NothingLeft /\ NoEscalation
  BY DEF Init, NothingLeft, NoEscalation, NoRow
<1> QED
  BY <1>1, <1>2, <1>3 DEF GInv

\* A step that reads and keeps what it read: the tables stay.
LEMMA QuietStep ==
  ASSUME GInv, UNCHANGED <<tables, named>>, lapsed' \subseteq InviteId,
         NEW r \in Req, NEW state \in Request \cup {Idle}, Become(r, state),
         state.pc \in {"update_actor", "update"} => state.owner \in named,
         state.pc = "change" => state.role # "owner",
         state.pc = "transfer" /\ members[state.new] # NoRow
           => members[state.new].user = state.to
  PROVE  GInv'
<1>1. TypeOK'
  BY DEF GInv, TypeOK, tables, Become
<1>2. \A q \in Req : req'[q] = IF q = r THEN state ELSE req[q]
  BY DEF GInv, TypeOK, Become
<1>3. CopiesAgree'
  BY <1>2 DEF GInv, CopiesAgree, tables
<1>4. NothingLeft' /\ NoEscalation'
  BY DEF GInv, NothingLeft, NoEscalation, tables
<1> QED
  BY <1>1, <1>3, <1>4 DEF GInv

\* A step that ends a command.
LEMMA LastStep ==
  ASSUME GInv, TypeOK', NothingLeft', NoEscalation', named \subseteq named',
         NEW r \in Req, Become(r, Idle),
         \A m \in MemberId :
           \/ members'[m] = NoRow
           \/ members'[m].user = members[m].user /\ members[m] # NoRow
           \/ FreshMember(m)
  PROVE  GInv'
<1>1. \A q \in Req : req'[q] = IF q = r THEN Idle ELSE req[q]
  BY DEF GInv, TypeOK, Become
<1>2. ASSUME NEW q \in Req, req'[q].pc = "transfer", members'[req'[q].new] # NoRow
      PROVE  members'[req'[q].new].user = req'[q].to
  <2>1. req'[q] = req[q] /\ req[q].pc = "transfer"
    BY <1>1, <1>2 DEF Idle
  <2>2. req[q].new \in MemberId /\ ~FreshMember(req[q].new)
    BY <2>1, RequestShape DEF GInv, FreshMember, MentionsMember
  <2> QED
    BY <1>2, <2>1, <2>2 DEF GInv, CopiesAgree
<1>3. CopiesAgree'
  BY <1>1, <1>2 DEF GInv, CopiesAgree, Idle
<1> QED
  BY <1>3 DEF GInv

LEMMA NextGInv == GInv /\ [Next]_vars => GInv'
<1> SUFFICES ASSUME GInv, [Next]_vars PROVE GInv'
  OBVIOUS
<1>0. TypeOK /\ CopiesAgree /\ NothingLeft /\ NoEscalation
  BY DEF GInv
<1>1. ASSUME NEW u \in User, NEW m \in MemberId, CreateGroup(u, m)
      PROVE  GInv'
  <2>1. TypeOK'
    BY <1>0, <1>1 DEF CreateGroup, InsertGroup, InsertMember, TypeOK, Group, Membership, Role
  <2>2. NothingLeft' /\ NoEscalation'
    BY <1>0, <1>1 DEF CreateGroup, InsertGroup, InsertMember, NothingLeft, NoEscalation, TypeOK
  <2>3. ASSUME NEW q \in Req, req[q].pc = "transfer", members'[req[q].new] # NoRow
        PROVE  members'[req[q].new].user = req[q].to
    BY <1>0, <1>1, <2>3, RequestShape
       DEF CreateGroup, InsertGroup, InsertMember, CopiesAgree, FreshMember, MentionsMember, TypeOK
  <2>4. CopiesAgree'
    BY <1>0, <1>1, <2>3 DEF CreateGroup, InsertGroup, InsertMember, CopiesAgree
  <2> QED
    BY <2>1, <2>2, <2>4 DEF GInv
<1>2. ASSUME NEW r \in Req, NEW by \in User, UpdateRead(r, by)
      PROVE  GInv'
  <2>1. [pc |-> "update_actor", by |-> by, owner |-> group.owner] \in Request
    BY <1>0, <1>2 DEF UpdateRead, TypeOK, Group, Request
  <2> QED
    BY <1>0, <1>2, <2>1, QuietStep DEF UpdateRead, NoEscalation, TypeOK
<1>3. ASSUME NEW r \in Req, UpdateActor(r)
      PROVE  GInv'
  <2>1. [req[r] EXCEPT !.pc = "update"] \in Request
    BY <1>0, <1>3 DEF UpdateActor, TypeOK, Request, Idle
  <2>2. /\ [req[r] EXCEPT !.pc = "update"].owner = req[r].owner
        /\ [req[r] EXCEPT !.pc = "update"].pc = "update"
    BY <1>0, <1>3 DEF UpdateActor, TypeOK, Request, Idle
  <2> DEFINE state == [req[r] EXCEPT !.pc = "update"]
  <2>3. state.owner \in named
    BY <1>0, <1>3, <2>2 DEF UpdateActor, CopiesAgree
  <2>4. Become(r, state) /\ UNCHANGED <<tables, lapsed, named>> /\ lapsed \subseteq InviteId
    BY <1>0, <1>3 DEF UpdateActor, TypeOK
  <2> HIDE DEF state
  <2> QED
    BY <2>1, <2>2, <2>3, <2>4, QuietStep DEF state
<1>4. ASSUME NEW r \in Req, UpdateCommit(r)
      PROVE  GInv'
  <2>1. TypeOK'
    BY <1>0, <1>4, RequestShape DEF UpdateCommit, SaveGroup, TypeOK, Group, Become
  <2>2. NothingLeft' /\ NoEscalation'
    BY <1>0, <1>4, RequestShape
       DEF UpdateCommit, SaveGroup, NothingLeft, NoEscalation, CopiesAgree, TypeOK, Group
  <2> QED
    BY <1>0, <1>4, <2>1, <2>2, LastStep DEF UpdateCommit
<1>5. ASSUME NEW r \in Req, NEW by \in User, NEW to \in User, TransferRead(r, by, to)
      PROVE  GInv'
  BY <1>0, <1>5, QuietStep DEF TransferRead, IsOwnedBy, Request, TypeOK
<1>6. ASSUME NEW r \in Req, TransferMembers(r)
      PROVE  GInv'
  <2>1. PICK new \in MemberId, old \in MemberId :
          /\ IsMembership(new, req[r].to)
          /\ Become(r, [pc |-> "transfer", to |-> req[r].to, new |-> new, old |-> old])
    BY <1>6 DEF TransferMembers
  <2>2. [pc |-> "transfer", to |-> req[r].to, new |-> new, old |-> old] \in Request
    BY <1>0, <1>6, RequestShape DEF TransferMembers, Request
  <2> QED
    BY <1>0, <1>6, <2>1, <2>2, QuietStep DEF TransferMembers, IsMembership, TypeOK
<1>7. ASSUME NEW r \in Req, TransferCommit(r)
      PROVE  GInv'
  <2> DEFINE new == req[r].new
             old == req[r].old
  <2>1. /\ new \in MemberId /\ old \in MemberId /\ req[r].to \in User
        /\ members[new] # NoRow /\ members[old] # NoRow
        /\ members[new].user = req[r].to
    BY <1>0, <1>7, RequestShape DEF TransferCommit, CopiesAgree
  <2>2. members[new] \in Membership /\ members[old] \in Membership
    BY <1>0, <2>1 DEF TypeOK
  <2>3. TypeOK'
    BY <1>0, <1>7, <2>1, <2>2
       DEF TransferCommit, Demoted, SaveGroup, TypeOK, Group, Membership, Role, Become
  <2>4. \A m \in MemberId :
          /\ members'[m].user = members[m].user \/ members'[m] = NoRow
          /\ members[m] = NoRow => members'[m] = NoRow
          /\ m \notin {new, old} => members'[m] = members[m]
          /\ m = old => members'[m].role = "contributor"
    BY <1>0, <1>7, <2>1, <2>2 DEF TransferCommit, Demoted, TypeOK, Membership
  <2>5. group' # NoRow /\ group'.owner = req[r].to /\ named' = named \cup {req[r].to}
        /\ group # NoRow /\ deleted' = deleted
    BY <1>0, <1>7 DEF TransferCommit, SaveGroup, TypeOK, Group, NoRow
  <2>6. NoEscalation'
    <3> SUFFICES ASSUME NEW m \in MemberId, members'[m].status = "member",
                        members'[m].role = "owner"
                 PROVE  members'[m].user \in named'
      BY <2>5 DEF NoEscalation
    <3>1. CASE m = new
      BY <2>1, <2>2, <2>4, <2>5, <3>1 DEF Membership, NoRow
    <3>2. CASE m \notin {new, old}
      BY <1>0, <2>4, <2>5, <3>2 DEF NoEscalation
    <3> QED
      BY <2>4, <3>1, <3>2
  <2>7. NothingLeft'
    BY <1>0, <2>5 DEF NothingLeft
  <2>8. \A m \in MemberId :
          \/ members'[m] = NoRow
          \/ members'[m].user = members[m].user /\ members[m] # NoRow
    BY <2>4
  <2>9. Become(r, Idle) /\ named \subseteq named'
    BY <1>7, <2>5 DEF TransferCommit
  <2> QED
    BY <2>3, <2>6, <2>7, <2>8, <2>9, LastStep
<1>8. ASSUME NEW r \in Req, NEW by \in User, DeleteRead(r, by)
      PROVE  GInv'
  BY <1>0, <1>8, QuietStep DEF DeleteRead, IsOwnedBy, Request, TypeOK
<1>9. ASSUME NEW r \in Req, DeleteCommit(r)
      PROVE  GInv'
  <2>1. TypeOK'
    BY <1>0, <1>9 DEF DeleteCommit, DeleteInvites, DeleteMembers, DeleteRow, TypeOK, Become
  <2>2. NothingLeft' /\ NoEscalation'
    BY <1>9 DEF DeleteCommit, DeleteInvites, DeleteMembers, DeleteRow, NothingLeft, NoEscalation, NoRow
  <2> QED
    BY <1>9, <2>1, <2>2, LastStep DEF DeleteCommit, DeleteInvites, DeleteMembers, DeleteRow
<1>10. ASSUME NEW r \in Req, NEW by \in User, NEW user \in User, NEW role \in Role,
              InviteRead(r, by, user, role)
       PROVE  GInv'
  BY <1>0, <1>10, QuietStep DEF InviteRead, CanAssign, Request, TypeOK
<1>11. ASSUME NEW r \in Req, InviteMember(r) \/ InvitePending(r)
       PROVE  GInv'
  <2>1. PICK pc \in {"invite_pending", "invite"} : Become(r, [req[r] EXCEPT !.pc = pc])
    BY <1>11 DEF InviteMember, InvitePending
  <2> DEFINE state == [req[r] EXCEPT !.pc = pc]
  <2>2. state \in Request /\ state.pc \in {"invite_pending", "invite"}
    BY <1>0, <1>11 DEF InviteMember, InvitePending, TypeOK, Request, Idle
  <2>3. UNCHANGED <<tables, lapsed, named>> /\ lapsed \subseteq InviteId
    BY <1>0, <1>11 DEF InviteMember, InvitePending, TypeOK
  <2> HIDE DEF state
  <2> QED
    BY <2>1, <2>2, <2>3, QuietStep DEF state
<1>12. ASSUME NEW r \in Req, NEW i \in InviteId, InviteCommit(r, i)
       PROVE  GInv'
  <2>1. TypeOK'
    BY <1>0, <1>12, RequestShape
       DEF InviteCommit, InsertInvite, TypeOK, Invitation, InvitationStatus, Become
  <2>2. NothingLeft' /\ NoEscalation'
    BY <1>0, <1>12 DEF InviteCommit, InsertInvite, GroupThere, NothingLeft, NoEscalation
  <2> QED
    BY <1>12, <2>1, <2>2, LastStep DEF InviteCommit, InsertInvite
<1>13. ASSUME NEW r \in Req, NEW i \in InviteId, AcceptRead(r, i)
       PROVE  GInv'
  <2>1. [pc |-> "accept_member", invite |-> i,
         user |-> invites[i].user, role |-> invites[i].role] \in Request
    BY <1>0, <1>13 DEF AcceptRead, FindByToken, TypeOK, Invitation, Request
  <2> QED
    BY <1>0, <1>13, <2>1, QuietStep DEF AcceptRead, TypeOK
<1>14. ASSUME NEW r \in Req, AcceptMember(r)
       PROVE  GInv'
  <2> DEFINE state == [req[r] EXCEPT !.pc = "accept"]
  <2>1. state \in Request /\ state.pc = "accept"
    BY <1>0, <1>14 DEF AcceptMember, TypeOK, Request, Idle
  <2>2. /\ Become(r, state) /\ UNCHANGED <<tables, lapsed, named>>
        /\ lapsed \subseteq InviteId
    BY <1>0, <1>14 DEF AcceptMember, TypeOK
  <2> HIDE DEF state
  <2> QED
    BY <2>1, <2>2, QuietStep
<1>15. ASSUME NEW r \in Req, NEW m \in MemberId, AcceptCommit(r, m)
       PROVE  GInv'
  <2>1. TypeOK'
    BY <1>0, <1>15, RequestShape
       DEF AcceptCommit, UpdateInvite, InsertMember, TypeOK, Invitation, InvitationStatus,
           Membership, Become
  <2>2. /\ \A n \in MemberId \ {m} : members'[n] = members[n]
        /\ members'[m].role # "owner" /\ FreshMember(m)
    BY <1>0, <1>15, RequestShape DEF AcceptCommit, UpdateInvite, InsertMember, TypeOK
  <2>3. NothingLeft' /\ NoEscalation'
    BY <1>0, <1>15, <2>2
       DEF AcceptCommit, UpdateInvite, InsertMember, GroupThere, NothingLeft, NoEscalation
  <2> QED
    BY <1>15, <2>1, <2>2, <2>3, LastStep DEF AcceptCommit, UpdateInvite, InsertMember
<1>16. ASSUME NEW r \in Req, NEW i \in InviteId, DeclineRead(r, i) \/ CancelInvite(r, i)
       PROVE  GInv'
  BY <1>0, <1>16, QuietStep DEF DeclineRead, CancelInvite, Request, TypeOK
<1>17. ASSUME NEW r \in Req, SaveInvite(r)
       PROVE  GInv'
  <2>1. req[r].invite \in InviteId /\ invites[req[r].invite] \in Invitation
    BY <1>0, <1>17, RequestShape DEF SaveInvite, UpdateInvite, TypeOK
  <2>2. TypeOK'
    BY <1>0, <1>17, <2>1, RequestShape
       DEF SaveInvite, UpdateInvite, TypeOK, Invitation, InvitationStatus, Become
  <2>3. NothingLeft' /\ NoEscalation'
    BY <1>0, <1>17, <2>1 DEF SaveInvite, UpdateInvite, NothingLeft, NoEscalation
  <2> QED
    BY <1>17, <2>2, <2>3, LastStep DEF SaveInvite, UpdateInvite
<1>18. ASSUME NEW r \in Req, NEW by \in User,
              NEW next \in {"change_target", "remove_target", "cancel_invite"},
              ManageRead(r, by, next)
       PROVE  GInv'
  BY <1>0, <1>18, QuietStep DEF ManageRead, Request, TypeOK
<1>19. ASSUME NEW r \in Req, NEW m \in MemberId, NEW role \in Role, ChangeTarget(r, m, role)
       PROVE  GInv'
  BY <1>0, <1>19, QuietStep DEF ChangeTarget, CanAssign, Request, TypeOK
<1>20. ASSUME NEW r \in Req, ChangeCommit(r)
       PROVE  GInv'
  <2> DEFINE m == req[r].member
  <2>1. /\ m \in MemberId /\ members[m] \in Membership
        /\ req[r].role \in Role \ {"owner"}
    BY <1>0, <1>20, RequestShape DEF ChangeCommit, SaveMember, TypeOK, CopiesAgree
  <2>2. members' = [members EXCEPT ![m].role = req[r].role]
    BY <1>20 DEF ChangeCommit, SaveMember
  <2>3. TypeOK'
    BY <1>0, <1>20, <2>1 DEF ChangeCommit, SaveMember, TypeOK, Membership, Become
  <2>4. /\ \A n \in MemberId : n # m => members'[n] = members[n]
        /\ \A n \in MemberId : n = m => /\ members'[n].role # "owner"
                                        /\ members'[n].user = members[n].user
                                        /\ members[n] # NoRow
    BY <1>0, <1>20, <2>1, <2>2 DEF ChangeCommit, SaveMember, TypeOK, Membership
  <2>5. NothingLeft' /\ NoEscalation'
    BY <1>0, <1>20, <2>1, <2>4 DEF ChangeCommit, SaveMember, NothingLeft, NoEscalation
  <2> HIDE DEF m
  <2> QED
    BY <1>20, <2>3, <2>4, <2>5, LastStep DEF ChangeCommit, SaveMember
<1>21. ASSUME NEW r \in Req, NEW m \in MemberId, RemoveTarget(r, m) \/ LeaveRead(r, m)
       PROVE  GInv'
  BY <1>0, <1>21, QuietStep DEF RemoveTarget, LeaveRead, Request, TypeOK
<1>22. ASSUME NEW r \in Req, RemoveCommit(r)
       PROVE  GInv'
  <2>1. TypeOK'
    BY <1>0, <1>22, RequestShape DEF RemoveCommit, DeleteMember, TypeOK, Become
  <2>2. \A n \in MemberId : members'[n] = NoRow \/ members'[n] = members[n]
    BY <1>0, <1>22, RequestShape DEF RemoveCommit, DeleteMember, TypeOK
  <2>3. NothingLeft' /\ NoEscalation'
    BY <1>0, <1>22, <2>2 DEF RemoveCommit, DeleteMember, NothingLeft, NoEscalation, NoRow
  <2> QED
    BY <1>22, <2>1, <2>2, <2>3, LastStep DEF RemoveCommit, DeleteMember
<1>23. ASSUME NEW r \in Req, Fail(r)
       PROVE  GInv'
  BY <1>0, <1>23, QuietStep DEF Fail, Idle, TypeOK
<1>24. ASSUME (\E i \in InviteId : Lapse(i)) \/ ExpireOld
       PROVE  GInv'
  <2>1. UNCHANGED <<group, deleted, members, named, req>>
    BY <1>24 DEF Lapse, ExpireOld, tables
  <2>2. \A i \in InviteId : invites[i] = NoRow => invites'[i] = NoRow
    BY <1>0, <1>24 DEF Lapse, ExpireOld, TypeOK, tables, NoRow
  <2>3. TypeOK'
    <3>1. CASE \E i \in InviteId : Lapse(i)
      BY <1>0, <3>1 DEF Lapse, TypeOK, tables
    <3>2. CASE ExpireOld
      <4>1. ASSUME NEW i \in InviteId
            PROVE  (IF invites[i].status = "pending" /\ i \in lapsed
                      THEN [invites[i] EXCEPT !.status = "expired"] ELSE invites[i])
                   \in Invitation \cup {NoRow}
        <5>1. CASE invites[i] = NoRow
          BY <5>1 DEF NoRow
        <5>2. CASE invites[i] \in Invitation
          BY <5>2 DEF Invitation, InvitationStatus
        <5> QED
          BY <1>0, <5>1, <5>2 DEF TypeOK
      <4> QED
        BY <1>0, <3>2, <4>1 DEF ExpireOld, TypeOK
    <3> QED
      BY <1>24, <3>1, <3>2
  <2> QED
    BY <1>0, <2>1, <2>2, <2>3 DEF GInv, CopiesAgree, NothingLeft, NoEscalation
<1>25. CASE UNCHANGED vars
  BY <1>0, <1>25 DEF vars, tables, GInv, TypeOK, CopiesAgree, NothingLeft, NoEscalation
<1> QED
  BY <1>1, <1>2, <1>3, <1>4, <1>5, <1>6, <1>7, <1>8, <1>9, <1>10, <1>11, <1>12, <1>13,
     <1>14, <1>15, <1>16, <1>17, <1>18, <1>19, <1>20, <1>21, <1>22, <1>23, <1>24, <1>25
     DEF Next, NewGroup, UpdateGroup, TransferOwnership, DeleteGroup, Invite,
         AcceptInvitation, DeclineInvitation, CancelInvitation, CancelRead,
         ChangeRole, ChangeRead, RemoveMember, RemoveRead, LeaveGroup

\* Group, memberships, invitations and commands fit together, as GInv says in its
\* parts, after every statement of every command.
THEOREM GroupInvariance == Spec => []GInv
BY InitGInv, NextGInv, PTL DEF Spec

\* Rows and entities are well formed: roles of the group vocabulary only, no
\* invitation as owner.
THEOREM GroupTypeCorrect == Spec => []TypeOK
<1>1. GInv => TypeOK
  BY DEF GInv
<1> QED
  BY <1>1, GroupInvariance, PTL

\* DeleteGroup is final: whatever was under way when it committed fails on a
\* missing row or a foreign key and brings nothing back.
THEOREM DeletionIsComplete == Spec => []NothingLeft
<1>1. GInv => NothingLeft
  BY DEF GInv
<1> QED
  BY <1>1, GroupInvariance, PTL

\* Stale reads can lose or duplicate the owner role, but never give it, or the
\* owner column, to a user no owner transferred the group to.
THEOREM OwnersWereNamed == Spec => []NoEscalation
<1>1. GInv => NoEscalation
  BY DEF GInv
<1> QED
  BY <1>1, GroupInvariance, PTL

-----------------------------------------------------------------------------
(* Commands one after another: the proof *)

LEMMA HistoryIsNext ==
  ASSUME [HistoryNext]_<<vars, overlapped>>
  PROVE  [Next]_vars
BY DEF HistoryNext, Next

\* The history only watches: every promise of Spec holds of HistorySpec too.
THEOREM HistoryOnlyWatches == HistorySpec => Spec
<1>1. HistoryInit => Init
  BY DEF HistoryInit
<1> QED
  BY <1>1, HistoryIsNext, PTL DEF HistorySpec, Spec

\* A command that runs alone and writes nothing.
LEMMA HistoryQuiet ==
  ASSUME HistoryInv, GInv', UNCHANGED tables, Notice,
         NEW r \in Req, NEW state, Become(r, state),
         state = Idle \/ group # NoRow \/ deleted,
         ~overlapped => Current(state)
  PROVE  HistoryInv'
<1>0. /\ TypeOK /\ Rows /\ (~overlapped => Alone)
      /\ UNCHANGED <<group, deleted, members, invites>>
  BY DEF HistoryInv, GInv, tables
<1>1. \A q \in Req : req'[q] = IF q = r THEN state ELSE req[q]
  BY <1>0 DEF TypeOK, Become
<1>2. Rows'
  BY <1>0, <1>1 DEF Rows
<1>3. ASSUME ~overlapped' PROVE Alone'
  <2>1. ~overlapped /\ \A q, s \in Req : req'[q] # Idle /\ req'[s] # Idle => q = s
    BY <1>3 DEF Notice
  <2>2. OneOwner' /\ OneInvitation'
    BY <1>0, <2>1 DEF Alone, OneOwner, OneInvitation, IsMembership, IsMember
  <2>3. ASSUME NEW q \in Req PROVE Current(req[q])'
    <3>1. PICK s : s = req'[q]
      OBVIOUS
    <3>2. Current(s)
      BY <1>0, <1>1, <2>1, <3>1 DEF Alone
    <3>3. Current(s)'
      BY <1>0, <3>2 DEF Current, IsOwnedBy, IsMembership, IsMember, Pending
    <3> QED
      BY <3>1, <3>3 DEF Current
  <2> QED
    BY <2>1, <2>2, <2>3 DEF Alone
<1> QED
  BY <1>2, <1>3 DEF HistoryInv

\* The last step of a command that ran alone.
LEMMA HistoryWrite ==
  ASSUME HistoryInv, GInv', Notice, NEW r \in Req, Become(r, Idle), req[r] # Idle, Rows',
         ~overlapped => OneOwner' /\ OneInvitation'
  PROVE  HistoryInv'
<1>1. \A q \in Req : req'[q] = IF q = r THEN Idle ELSE req[q]
  BY DEF HistoryInv, GInv, TypeOK, Become
<1>2. ASSUME ~overlapped' PROVE Alone'
  <2>1. ~overlapped /\ Alone
    BY <1>2 DEF Notice, HistoryInv
  <2>2. \A q \in Req : req'[q] = Idle
    BY <1>1, <2>1 DEF Alone
  <2>3. \A q \in Req : req'[q].pc = "idle"
    BY <2>2 DEF Idle
  <2>4. \A q \in Req : Current(req[q])'
    BY <2>3 DEF Current
  <2> QED
    BY <2>1, <2>2, <2>4 DEF Alone
<1> QED
  BY <1>2 DEF HistoryInv

\* As long as there is no group, nothing of it can be read.
LEMMA ReadersHaveGroup ==
  ASSUME HistoryInv, NEW r \in Req, req[r] # Idle
  PROVE  group # NoRow \/ deleted
BY DEF HistoryInv, Rows

LEMMA HistoryReads ==
  ASSUME HistoryInv, GInv', Notice, NEW r \in Req,
         \/ \E by \in User : UpdateRead(r, by) \/ DeleteRead(r, by)
                               \/ CancelRead(r, by) \/ ChangeRead(r, by) \/ RemoveRead(r, by)
         \/ \E by, to \in User : TransferRead(r, by, to)
         \/ \E by, user \in User, role \in Role : InviteRead(r, by, user, role)
         \/ \E i \in InviteId : AcceptRead(r, i) \/ DeclineRead(r, i)
         \/ \E m \in MemberId : LeaveRead(r, m)
  PROVE  HistoryInv'
<1>0. TypeOK /\ Rows /\ (~overlapped => Alone)
  BY DEF HistoryInv, GInv
<1>1. UNCHANGED tables
  BY DEF UpdateRead, DeleteRead, CancelRead, ChangeRead, RemoveRead, ManageRead, TransferRead,
         InviteRead, AcceptRead, DeclineRead, LeaveRead
<1>2. CASE \E by \in User : UpdateRead(r, by)
  <2>1. PICK by \in User : UpdateRead(r, by)
    BY <1>2
  <2>2. PICK state : state = [pc |-> "update_actor", by |-> by, owner |-> group.owner]
    OBVIOUS
  <2>3. Current(state) /\ Become(r, state) /\ group # NoRow
    BY <2>1, <2>2 DEF UpdateRead, Current, IsOwnedBy
  <2> QED
    BY <1>1, <2>3, HistoryQuiet
<1>3. CASE \E by \in User : DeleteRead(r, by)
  <2>1. PICK state : state = [pc |-> "delete"]
    OBVIOUS
  <2>2. Current(state) /\ Become(r, state) /\ group # NoRow
    BY <1>3, <2>1 DEF DeleteRead, IsOwnedBy, Current
  <2> QED
    BY <1>1, <2>2, HistoryQuiet
<1>4. CASE \E by \in User : CancelRead(r, by) \/ ChangeRead(r, by) \/ RemoveRead(r, by)
  <2>1. PICK by \in User, next \in {"cancel_invite", "change_target", "remove_target"} :
          ManageRead(r, by, next)
    BY <1>4 DEF CancelRead, ChangeRead, RemoveRead
  <2>2. PICK state : state = [pc |-> next]
    OBVIOUS
  <2>3. Current(state) /\ Become(r, state) /\ group # NoRow
    BY <1>0, <2>1, <2>2 DEF ManageRead, HasRole, IsMembership, Current, Rows
  <2> QED
    BY <1>1, <2>3, HistoryQuiet
<1>5. CASE \E by, to \in User : TransferRead(r, by, to)
  <2>1. PICK by \in User, to \in User : TransferRead(r, by, to)
    BY <1>5
  <2>2. PICK state : state = [pc |-> "transfer_members", by |-> by, to |-> to]
    OBVIOUS
  <2>3. Current(state) /\ Become(r, state) /\ group # NoRow
    BY <2>1, <2>2 DEF TransferRead, IsOwnedBy, Current
  <2> QED
    BY <1>1, <2>3, HistoryQuiet
<1>6. CASE \E by, user \in User, role \in Role : InviteRead(r, by, user, role)
  <2>1. PICK by \in User, user \in User, role \in Role : InviteRead(r, by, user, role)
    BY <1>6
  <2>2. PICK state : state = [pc |-> "invite_member", user |-> user, role |-> role]
    OBVIOUS
  <2>3. Current(state) /\ Become(r, state) /\ group # NoRow
    BY <1>0, <2>1, <2>2 DEF InviteRead, IsMembership, Current, Rows
  <2> QED
    BY <1>1, <2>3, HistoryQuiet
<1>7. CASE \E i \in InviteId : AcceptRead(r, i)
  <2>1. PICK i \in InviteId : AcceptRead(r, i)
    BY <1>7
  <2>2. PICK state : state = [pc |-> "accept_member", invite |-> i,
                              user |-> invites[i].user, role |-> invites[i].role]
    OBVIOUS
  <2>3. Current(state) /\ Become(r, state) /\ group # NoRow
    BY <1>0, <2>1, <2>2 DEF AcceptRead, FindByToken, CanRespond, Current, Rows
  <2> QED
    BY <1>1, <2>3, HistoryQuiet
<1>8. CASE \E i \in InviteId : DeclineRead(r, i)
  <2>1. PICK i \in InviteId : DeclineRead(r, i)
    BY <1>8
  <2>2. PICK state : state = [pc |-> "save", invite |-> i, status |-> "declined"]
    OBVIOUS
  <2>3. Current(state) /\ Become(r, state) /\ group # NoRow
    BY <1>0, <2>1, <2>2 DEF DeclineRead, FindByToken, CanRespond, Current, Rows
  <2> QED
    BY <1>1, <2>3, HistoryQuiet
<1>9. CASE \E m \in MemberId : LeaveRead(r, m)
  <2>1. PICK m \in MemberId : LeaveRead(r, m)
    BY <1>9
  <2>2. PICK state : state = [pc |-> "remove", member |-> m]
    OBVIOUS
  <2>3. Current(state) /\ Become(r, state) /\ group # NoRow
    BY <1>0, <2>1, <2>2 DEF LeaveRead, MayLeave, Current, Rows
  <2> QED
    BY <1>1, <2>3, HistoryQuiet
<1> QED
  BY <1>2, <1>3, <1>4, <1>5, <1>6, <1>7, <1>8, <1>9

LEMMA HistoryChecks ==
  ASSUME HistoryInv, GInv', Notice, NEW r \in Req,
         \/ UpdateActor(r) \/ TransferMembers(r) \/ InviteMember(r) \/ InvitePending(r)
         \/ AcceptMember(r) \/ Fail(r)
         \/ \E i \in InviteId : CancelInvite(r, i)
         \/ \E m \in MemberId : RemoveTarget(r, m) \/ \E role \in Role : ChangeTarget(r, m, role)
  PROVE  HistoryInv'
<1>0. TypeOK /\ (~overlapped => Alone /\ Current(req[r]))
  BY DEF HistoryInv, GInv, Alone
<1>b. UNCHANGED tables
  BY DEF UpdateActor, TransferMembers, InviteMember, InvitePending, AcceptMember, Fail,
         CancelInvite, RemoveTarget, ChangeTarget
<1>c. req[r] # Idle
  <2>1. \/ req[r].pc \in {"update_actor", "transfer_members", "invite_member", "invite_pending",
                          "accept_member", "cancel_invite", "remove_target", "change_target"}
        \/ req[r] # Idle
    BY DEF UpdateActor, TransferMembers, InviteMember, InvitePending, AcceptMember, Fail,
           CancelInvite, RemoveTarget, ChangeTarget
  <2> QED
    BY <2>1 DEF Idle
<1>1. UNCHANGED tables /\ req[r] # Idle
  BY <1>b, <1>c
<1>a. group # NoRow \/ deleted
  BY <1>1, ReadersHaveGroup
<1>2. CASE Fail(r)
  <2>1. Become(r, Idle) /\ Current(Idle)
    BY <1>2 DEF Fail, Current, Idle
  <2> QED
    BY <1>1, <2>1, HistoryQuiet
<1>3. CASE UpdateActor(r)
  <2>1. PICK state : state = [req[r] EXCEPT !.pc = "update"]
    OBVIOUS
  <2>2. Become(r, state) /\ req[r].pc = "update_actor"
    BY <1>3, <2>1 DEF UpdateActor
  <2>3. state.pc = "update" /\ state.owner = req[r].owner
    BY <1>0, <2>1, <2>2 DEF TypeOK, Request, Idle
  <2>4. ~overlapped => Current(state)
    BY <1>0, <2>2, <2>3 DEF Current
  <2> QED
    BY <1>1, <1>a, <2>2, <2>4, HistoryQuiet
<1>4. CASE TransferMembers(r)
  <2>1. PICK new \in MemberId, old \in MemberId :
          /\ req[r].pc = "transfer_members"
          /\ IsMembership(new, req[r].to) /\ IsMembership(old, req[r].by)
          /\ Become(r, [pc |-> "transfer", to |-> req[r].to, new |-> new, old |-> old])
    BY <1>4 DEF TransferMembers
  <2>2. PICK state : state = [pc |-> "transfer", to |-> req[r].to, new |-> new, old |-> old]
    OBVIOUS
  <2>3. ~overlapped => Current(state)
    BY <1>0, <2>1, <2>2 DEF Current, IsOwnedBy
  <2> QED
    BY <1>1, <1>a, <2>1, <2>2, <2>3, HistoryQuiet
<1>5. CASE InviteMember(r)
  <2>1. PICK state : state = [req[r] EXCEPT !.pc = "invite_pending"]
    OBVIOUS
  <2>2. Become(r, state) /\ req[r].pc = "invite_member" /\ ~IsMember(req[r].user)
    BY <1>5, <2>1 DEF InviteMember
  <2>3. state.pc = "invite_pending" /\ state.user = req[r].user
    BY <1>0, <2>1, <2>2 DEF TypeOK, Request, Idle
  <2>4. ~overlapped => Current(state)
    BY <2>2, <2>3 DEF Current
  <2> QED
    BY <1>1, <1>a, <2>2, <2>4, HistoryQuiet
<1>6. CASE InvitePending(r)
  <2>1. PICK state : state = [req[r] EXCEPT !.pc = "invite"]
    OBVIOUS
  <2>2. Become(r, state) /\ req[r].pc = "invite_pending" /\ ~Pending(req[r].user)
    BY <1>6, <2>1 DEF InvitePending
  <2>3. state.pc = "invite" /\ state.user = req[r].user
    BY <1>0, <2>1, <2>2 DEF TypeOK, Request, Idle
  <2>4. ~overlapped => Current(state)
    BY <1>0, <2>2, <2>3 DEF Current
  <2> QED
    BY <1>1, <1>a, <2>2, <2>4, HistoryQuiet
<1>7. CASE AcceptMember(r)
  <2>1. PICK state : state = [req[r] EXCEPT !.pc = "accept"]
    OBVIOUS
  <2>2. Become(r, state) /\ req[r].pc = "accept_member"
    BY <1>7, <2>1 DEF AcceptMember
  <2>3. state.pc = "accept" /\ state.user = req[r].user /\ state.invite = req[r].invite
    BY <1>0, <2>1, <2>2 DEF TypeOK, Request, Idle
  <2>4. ~overlapped => Current(state)
    BY <1>0, <2>2, <2>3 DEF Current
  <2> QED
    BY <1>1, <1>a, <2>2, <2>4, HistoryQuiet
<1>8. CASE \E i \in InviteId : CancelInvite(r, i)
  <2>1. PICK i \in InviteId : CancelInvite(r, i)
    BY <1>8
  <2>2. PICK state : state = [pc |-> "save", invite |-> i, status |-> "cancelled"]
    OBVIOUS
  <2>3. Become(r, state) /\ Current(state)
    BY <2>1, <2>2 DEF CancelInvite, Current
  <2> QED
    BY <1>1, <1>a, <2>3, HistoryQuiet
<1>9. CASE \E m \in MemberId : RemoveTarget(r, m)
  <2>1. PICK m \in MemberId : RemoveTarget(r, m)
    BY <1>9
  <2>2. PICK state : state = [pc |-> "remove", member |-> m]
    OBVIOUS
  <2>3. Become(r, state) /\ Current(state)
    BY <2>1, <2>2 DEF RemoveTarget, Current
  <2> QED
    BY <1>1, <1>a, <2>3, HistoryQuiet
<1>10. CASE \E m \in MemberId, role \in Role : ChangeTarget(r, m, role)
  <2>1. PICK m \in MemberId, role \in Role : ChangeTarget(r, m, role)
    BY <1>10
  <2>2. PICK state : state = [pc |-> "change", member |-> m, role |-> role]
    OBVIOUS
  <2>3. Become(r, state) /\ Current(state)
    BY <2>1, <2>2 DEF ChangeTarget, Current
  <2> QED
    BY <1>1, <1>a, <2>3, HistoryQuiet
<1> QED
  BY <1>2, <1>3, <1>4, <1>5, <1>6, <1>7, <1>8, <1>9, <1>10

LEMMA MembershipWrites ==
  ASSUME HistoryInv, GInv', Notice, NEW r \in Req,
         UpdateCommit(r) \/ TransferCommit(r) \/ DeleteCommit(r) \/ ChangeCommit(r) \/ RemoveCommit(r)
  PROVE  HistoryInv'
<1>0. TypeOK /\ CopiesAgree /\ Rows /\ (~overlapped => Alone /\ Current(req[r]))
  BY DEF HistoryInv, GInv, Alone
<1>1. CASE UpdateCommit(r)
  <2>1. /\ req[r].pc = "update" /\ req[r] # Idle /\ Become(r, Idle)
        /\ group # NoRow /\ group' = [group EXCEPT !.owner = req[r].owner]
        /\ UNCHANGED <<deleted, members, invites>>
    BY <1>1 DEF UpdateCommit, SaveGroup, Idle
  <2>2. group' # NoRow /\ group'.owner = req[r].owner
    BY <1>0, <2>1 DEF TypeOK, Group, NoRow
  <2>3. Rows'
    BY <1>0, <2>1, <2>2 DEF Rows
  <2>4. ASSUME ~overlapped PROVE OneOwner' /\ OneInvitation'
    <3>1. OneOwner /\ OneInvitation /\ req[r].owner = group.owner
      BY <1>0, <2>1, <2>4 DEF Alone, Current, IsOwnedBy
    <3> QED
      BY <2>1, <2>2, <3>1 DEF OneOwner, OneInvitation, IsMembership, IsMember
  <2> QED
    BY <2>1, <2>3, <2>4, HistoryWrite
<1>2. CASE TransferCommit(r)
  <2>1. PICK to, new, old : to = req[r].to /\ new = req[r].new /\ old = req[r].old
    OBVIOUS
  <2>2. /\ req[r].pc = "transfer" /\ req[r] # Idle /\ Become(r, Idle)
        /\ group # NoRow /\ group' = [group EXCEPT !.owner = to]
        /\ members[new] # NoRow /\ members[old] # NoRow
        /\ members' = [members EXCEPT ![new].role = "owner", ![old].role = "contributor"]
        /\ UNCHANGED <<deleted, invites>>
    BY <1>2, <2>1 DEF TransferCommit, SaveGroup, Demoted, Idle
  <2>3. new \in MemberId /\ old \in MemberId /\ members[new] \in Membership /\ members[old] \in Membership
    BY <1>0, <2>1, <2>2, RequestShape DEF TypeOK
  <2>4. /\ \A m \in MemberId : /\ members'[m] = NoRow <=> members[m] = NoRow
                               /\ members'[m].user = members[m].user
                               /\ m \notin {new, old} => members'[m] = members[m]
        /\ members'[old].role = "contributor"
        /\ new # old => members'[new].role = "owner"
    BY <1>0, <2>2, <2>3 DEF TypeOK, Membership, NoRow
  <2>5. group' # NoRow /\ group'.owner = to
    BY <1>0, <2>2 DEF TypeOK, Group, NoRow
  <2>6. Rows'
    BY <1>0, <2>4, <2>5 DEF Rows
  <2>7. ASSUME ~overlapped PROVE OneOwner' /\ OneInvitation'
    <3>1. /\ OneOwner /\ OneInvitation
          /\ group.owner # to /\ IsMembership(new, to) /\ IsMembership(old, group.owner)
      BY <1>0, <2>1, <2>2, <2>7 DEF Alone, Current
    <3>2. new # old
      BY <3>1 DEF IsMembership
    <3>3. \A m \in MemberId : members[m] # NoRow /\ members[m].role = "owner" => m = old
      BY <1>0, <2>2, <2>3, <3>1 DEF OneOwner, IsMembership, Rows
    <3>4. OneOwner'
      BY <2>2, <2>3, <2>4, <2>5, <3>1, <3>2, <3>3 DEF OneOwner, IsMembership
    <3>5. OneInvitation'
      BY <2>2, <2>4, <3>1 DEF OneInvitation, IsMember, IsMembership
    <3> QED
      BY <3>4, <3>5
  <2> QED
    BY <2>2, <2>6, <2>7, HistoryWrite
<1>3. CASE DeleteCommit(r)
  <2>1. /\ req[r] # Idle /\ Become(r, Idle)
        /\ group' = NoRow /\ deleted' = TRUE
        /\ members' = [m \in MemberId |-> NoRow] /\ invites' = [i \in InviteId |-> NoRow]
    BY <1>3 DEF DeleteCommit, DeleteInvites, DeleteMembers, DeleteRow, Idle
  <2>2. Rows' /\ OneOwner'
    BY <2>1 DEF Rows, OneOwner
  <2>3. OneInvitation'
    BY <2>1 DEF OneInvitation, NoRow
  <2> QED
    BY <2>1, <2>2, <2>3, HistoryWrite
<1>4. CASE ChangeCommit(r)
  <2>1. PICK m, role : m = req[r].member /\ role = req[r].role
    OBVIOUS
  <2>2. /\ req[r].pc = "change" /\ req[r] # Idle /\ Become(r, Idle)
        /\ members[m] # NoRow /\ members' = [members EXCEPT ![m].role = role]
        /\ UNCHANGED <<group, deleted, invites>>
    BY <1>4, <2>1 DEF ChangeCommit, SaveMember, Idle
  <2>3. m \in MemberId /\ members[m] \in Membership /\ role # "owner"
    BY <1>0, <2>1, <2>2, RequestShape DEF TypeOK, CopiesAgree
  <2>4. \A n \in MemberId : /\ members'[n] = NoRow <=> members[n] = NoRow
                            /\ members'[n].user = members[n].user
                            /\ n # m => members'[n] = members[n]
                            /\ n = m => members'[n].role = role
    BY <1>0, <2>2, <2>3 DEF TypeOK, Membership, NoRow
  <2>5. Rows'
    BY <1>0, <2>2, <2>3, <2>4 DEF Rows
  <2>6. ASSUME ~overlapped PROVE OneOwner' /\ OneInvitation'
    <3>1. OneOwner /\ OneInvitation /\ members[m].role # "owner"
      BY <1>0, <2>1, <2>2, <2>6 DEF Alone, Current
    <3>2. OneOwner'
      BY <2>2, <2>3, <2>4, <3>1 DEF OneOwner, IsMembership
    <3>3. OneInvitation'
      BY <2>2, <2>4, <3>1 DEF OneInvitation, IsMember, IsMembership
    <3> QED
      BY <3>2, <3>3
  <2> QED
    BY <2>2, <2>5, <2>6, HistoryWrite
<1>5. CASE RemoveCommit(r)
  <2>1. PICK m : m = req[r].member
    OBVIOUS
  <2>2. /\ req[r].pc = "remove" /\ req[r] # Idle /\ Become(r, Idle)
        /\ members' = [members EXCEPT ![m] = NoRow]
        /\ UNCHANGED <<group, deleted, invites>>
    BY <1>5, <2>1 DEF RemoveCommit, DeleteMember, Idle
  <2>3. \A n \in MemberId : members'[n] = IF n = m THEN NoRow ELSE members[n]
    BY <1>0, <2>2 DEF TypeOK
  <2>4. Rows'
    <3>1. group = NoRow => \A q \in Req : req'[q] = Idle \/ req'[q] = req[q]
      BY <1>0, <2>2 DEF TypeOK, Become
    <3> QED
      BY <1>0, <2>2, <2>3, <3>1 DEF Rows
  <2>5. ASSUME ~overlapped PROVE OneOwner' /\ OneInvitation'
    <3>1. OneOwner /\ OneInvitation /\ members[m].role # "owner"
      BY <1>0, <2>1, <2>2, <2>5 DEF Alone, Current
    <3>2. OneOwner'
      BY <2>2, <2>3, <3>1 DEF OneOwner, IsMembership
    <3>3. OneInvitation'
      BY <2>2, <2>3, <3>1 DEF OneInvitation, IsMember, IsMembership
    <3> QED
      BY <3>2, <3>3
  <2> QED
    BY <2>2, <2>4, <2>5, HistoryWrite
<1> QED
  BY <1>1, <1>2, <1>3, <1>4, <1>5

LEMMA InvitationWrites ==
  ASSUME HistoryInv, GInv', Notice, NEW r \in Req,
         \/ \E i \in InviteId : InviteCommit(r, i)
         \/ \E m \in MemberId : AcceptCommit(r, m)
         \/ SaveInvite(r)
  PROVE  HistoryInv'
<1>0. TypeOK /\ Rows /\ (~overlapped => Alone /\ Current(req[r]))
  BY DEF HistoryInv, GInv, Alone
<1>1. CASE \E i \in InviteId : InviteCommit(r, i)
  <2>1. PICK i \in InviteId : InviteCommit(r, i)
    BY <1>1
  <2>2. PICK user, row : user = req[r].user /\ row = [status |-> "pending", user |-> user, role |-> req[r].role]
    OBVIOUS
  <2>3. /\ req[r].pc = "invite" /\ req[r] # Idle /\ Become(r, Idle)
        /\ group # NoRow /\ invites' = [invites EXCEPT ![i] = row]
        /\ UNCHANGED <<group, deleted, members>>
    BY <2>1, <2>2 DEF InviteCommit, InsertInvite, GroupThere, Idle
  <2>4. \A j \in InviteId : invites'[j] = IF j = i THEN row ELSE invites[j]
    BY <1>0, <2>3 DEF TypeOK
  <2>5. Rows'
    BY <1>0, <2>3 DEF Rows
  <2>6. ASSUME ~overlapped PROVE OneOwner' /\ OneInvitation'
    <3>1. OneOwner /\ OneInvitation /\ ~IsMember(user) /\ ~Pending(user)
      BY <1>0, <2>2, <2>3, <2>6 DEF Alone, Current
    <3>2. row.status = "pending" /\ row.user = user
      BY <2>2
    <3>3. OneOwner'
      BY <2>3, <3>1 DEF OneOwner, IsMembership
    <3>4. OneInvitation'
      BY <2>3, <2>4, <3>1, <3>2 DEF OneInvitation, IsMember, IsMembership, Pending
    <3> QED
      BY <3>3, <3>4
  <2> QED
    BY <2>3, <2>5, <2>6, HistoryWrite
<1>2. CASE \E m \in MemberId : AcceptCommit(r, m)
  <2>1. PICK m \in MemberId : AcceptCommit(r, m)
    BY <1>2
  <2>2. PICK i, user, row : /\ i = req[r].invite /\ user = req[r].user
                            /\ row = [status |-> "member", user |-> user, role |-> req[r].role]
    OBVIOUS
  <2>3. /\ req[r].pc = "accept" /\ req[r] # Idle /\ Become(r, Idle)
        /\ group # NoRow /\ invites[i] # NoRow /\ members[m] = NoRow /\ ~IsMember(user)
        /\ invites' = [invites EXCEPT ![i].status = "accepted"]
        /\ members' = [members EXCEPT ![m] = row]
        /\ UNCHANGED <<group, deleted>>
    BY <2>1, <2>2 DEF AcceptCommit, UpdateInvite, InsertMember, FreshMember, GroupThere, Idle
  <2>4. i \in InviteId /\ invites[i] \in Invitation /\ row.user = user /\ row.role = req[r].role
        /\ row # NoRow /\ row.role # "owner"
    BY <1>0, <2>2, <2>3, RequestShape DEF TypeOK, NoRow
  <2>5. /\ \A n \in MemberId : members'[n] = IF n = m THEN row ELSE members[n]
        /\ \A j \in InviteId : j # i => invites'[j] = invites[j]
        /\ invites'[i].status = "accepted"
    BY <1>0, <2>1, <2>3, <2>4 DEF TypeOK, Invitation
  <2>6. Rows'
    BY <1>0, <2>3, <2>4, <2>5 DEF Rows, IsMember, IsMembership
  <2>7. ASSUME ~overlapped PROVE OneOwner' /\ OneInvitation'
    <3>1. OneOwner /\ OneInvitation /\ invites[i].status = "pending" /\ invites[i].user = user
      BY <1>0, <2>2, <2>3, <2>7 DEF Alone, Current
    <3>2. OneOwner'
      BY <2>3, <2>4, <2>5, <3>1 DEF OneOwner, IsMembership
    <3>3. \A j \in InviteId : invites'[j].status = "pending" =>
            j # i /\ invites'[j] = invites[j] /\ invites[j].user # user
      BY <2>4, <2>5, <3>1 DEF OneInvitation
    <3>4. OneInvitation'
      BY <2>4, <2>5, <3>1, <3>3 DEF OneInvitation, IsMember, IsMembership
    <3> QED
      BY <3>2, <3>4
  <2> QED
    BY <2>3, <2>6, <2>7, HistoryWrite
<1>3. CASE SaveInvite(r)
  <2>1. PICK i, status : i = req[r].invite /\ status = req[r].status
    OBVIOUS
  <2>2. /\ req[r].pc = "save" /\ req[r] # Idle /\ Become(r, Idle)
        /\ invites[i] # NoRow /\ invites' = [invites EXCEPT ![i].status = status]
        /\ UNCHANGED <<group, deleted, members>>
    BY <1>3, <2>1 DEF SaveInvite, UpdateInvite, Idle
  <2>3. i \in InviteId /\ invites[i] \in Invitation /\ status # "pending"
    BY <1>0, <2>1, <2>2, RequestShape DEF TypeOK
  <2>4. /\ \A j \in InviteId : j # i => invites'[j] = invites[j]
        /\ invites'[i].status # "pending"
    BY <1>0, <2>2, <2>3 DEF TypeOK, Invitation
  <2>5. Rows'
    BY <1>0, <2>2, <2>3 DEF Rows
  <2>6. ASSUME ~overlapped PROVE OneOwner' /\ OneInvitation'
    <3>1. OneOwner /\ OneInvitation
      BY <1>0, <2>6 DEF Alone
    <3> QED
      BY <2>2, <2>4, <3>1 DEF OneOwner, OneInvitation, IsMember, IsMembership
  <2> QED
    BY <2>2, <2>5, <2>6, HistoryWrite
<1> QED
  BY <1>1, <1>2, <1>3

\* The creation of the group, and what no command does.
LEMMA HistoryOthers ==
  ASSUME HistoryInv, GInv',
         \/ \E u \in User : NewGroup(u) /\ Notice
         \/ \E i \in InviteId : Lapse(i) /\ Notice
         \/ ExpireOld /\ NoticeJob
         \/ UNCHANGED <<vars, overlapped>>
  PROVE  HistoryInv'
<1>0. TypeOK /\ Rows /\ (~overlapped => Alone)
  BY DEF HistoryInv, GInv
<1>1. CASE \E u \in User : NewGroup(u) /\ Notice
  <2>1. PICK u \in User, m \in MemberId : CreateGroup(u, m) /\ Notice
    BY <1>1 DEF NewGroup
  <2>2. PICK row : row = [status |-> "member", user |-> u, role |-> "owner"]
    OBVIOUS
  <2>3. /\ group = NoRow /\ ~deleted /\ group' # NoRow /\ group'.owner = u
        /\ members' = [members EXCEPT ![m] = row]
        /\ UNCHANGED <<deleted, invites, req>>
    BY <2>1, <2>2 DEF CreateGroup, InsertGroup, InsertMember, NoRow
  <2>4. /\ \A n \in MemberId : members[n] = NoRow
        /\ \A i \in InviteId : invites[i] = NoRow
        /\ \A q \in Req : req[q] = Idle
    BY <1>0, <2>3 DEF Rows
  <2>5. \A n \in MemberId : members'[n] = IF n = m THEN row ELSE NoRow
    BY <1>0, <2>3, <2>4 DEF TypeOK
  <2>6. row # NoRow /\ row.user = u /\ row.role = "owner"
    BY <2>2 DEF NoRow
  <2>7. Rows'
    BY <2>3, <2>5 DEF Rows
  <2>8. OneOwner'
    BY <2>3, <2>5, <2>6 DEF OneOwner, IsMembership
  <2>9. OneInvitation'
    BY <2>3, <2>4 DEF OneInvitation, NoRow
  <2>10. \A q \in Req : req'[q] = Idle
    BY <2>3, <2>4
  <2>11. \A q \in Req : req'[q].pc = "idle"
    BY <2>10 DEF Idle
  <2>12. \A q \in Req : Current(req[q])'
    BY <2>11 DEF Current
  <2> QED
    BY <2>7, <2>8, <2>9, <2>10, <2>12 DEF HistoryInv, Alone
<1>2. CASE \E i \in InviteId : Lapse(i) /\ Notice
  <2>1. UNCHANGED <<group, deleted, members, invites, req>> /\ Notice
    BY <1>2 DEF Lapse, tables
  <2>2. Rows' /\ (~overlapped' => Alone')
    BY <1>0, <2>1 DEF Rows, Notice, Alone, OneOwner, OneInvitation, Current, IsOwnedBy,
                      IsMembership, IsMember, Pending
  <2> QED
    BY <2>2 DEF HistoryInv
<1>3. CASE ExpireOld /\ NoticeJob
  <2>1. /\ UNCHANGED <<group, deleted, members, req>>
        /\ invites' = [i \in InviteId |->
             IF invites[i].status = "pending" /\ i \in lapsed
               THEN [invites[i] EXCEPT !.status = "expired"] ELSE invites[i]]
        /\ overlapped' = (overlapped \/ \E q \in Req : req[q] # Idle)
    BY <1>3 DEF ExpireOld, NoticeJob
  <2>2. \A i \in InviteId : invites[i] = NoRow => invites'[i] = NoRow
    BY <2>1 DEF NoRow
  <2>3. Rows'
    BY <1>0, <2>1, <2>2 DEF Rows
  <2>4. ASSUME ~overlapped' PROVE Alone'
    <3>1. Alone /\ \A q \in Req : req[q] = Idle
      BY <1>0, <2>1, <2>4
    <3>2. \A i \in InviteId : invites'[i].status = "pending" => invites'[i] = invites[i]
      <4> SUFFICES ASSUME NEW i \in InviteId, invites'[i].status = "pending", invites'[i] # invites[i]
                   PROVE  FALSE
        OBVIOUS
      <4>1. invites[i].status = "pending" /\ invites'[i] = [invites[i] EXCEPT !.status = "expired"]
        BY <2>1
      <4>2. invites[i] \in Invitation
        BY <1>0, <4>1 DEF TypeOK, NoRow
      <4> QED
        BY <4>1, <4>2 DEF Invitation
    <3>3. OneOwner' /\ OneInvitation'
      BY <2>1, <3>1, <3>2 DEF Alone, OneOwner, OneInvitation, IsMember, IsMembership
    <3>4. \A q \in Req : req'[q] = Idle /\ req'[q].pc = "idle"
      BY <2>1, <3>1 DEF Idle
    <3>5. \A q \in Req : Current(req[q])'
      BY <3>4 DEF Current
    <3> QED
      BY <3>3, <3>4, <3>5 DEF Alone
  <2> QED
    BY <2>3, <2>4 DEF HistoryInv
<1>4. CASE UNCHANGED <<vars, overlapped>>
  <2>1. UNCHANGED <<group, deleted, members, invites, req, overlapped>>
    BY <1>4 DEF vars, tables
  <2>2. Rows' /\ (~overlapped' => Alone')
    BY <1>0, <2>1 DEF Rows, Alone, OneOwner, OneInvitation, Current, IsOwnedBy,
                      IsMembership, IsMember, Pending
  <2> QED
    BY <2>2 DEF HistoryInv
<1> QED
  BY <1>1, <1>2, <1>3, <1>4

LEMMA HistoryStep ==
  ASSUME HistoryInv, [HistoryNext]_<<vars, overlapped>>
  PROVE  HistoryInv'
<1>1. GInv'
  BY HistoryIsNext, NextGInv DEF HistoryInv
<1>2. ASSUME NEW r \in Req, Notice,
             \/ UpdateGroup(r) \/ TransferOwnership(r) \/ DeleteGroup(r)
             \/ Invite(r) \/ AcceptInvitation(r) \/ DeclineInvitation(r) \/ CancelInvitation(r)
             \/ ChangeRole(r) \/ RemoveMember(r) \/ LeaveGroup(r) \/ Fail(r)
      PROVE  HistoryInv'
  <2>1. CASE UpdateGroup(r) \/ TransferOwnership(r) \/ DeleteGroup(r)
    BY <1>1, <1>2, <2>1, HistoryReads, HistoryChecks, MembershipWrites
       DEF UpdateGroup, TransferOwnership, DeleteGroup
  <2>2. CASE Invite(r) \/ AcceptInvitation(r) \/ DeclineInvitation(r) \/ CancelInvitation(r)
    BY <1>1, <1>2, <2>2, HistoryReads, HistoryChecks, InvitationWrites
       DEF Invite, AcceptInvitation, DeclineInvitation, CancelInvitation
  <2>3. CASE ChangeRole(r) \/ RemoveMember(r) \/ LeaveGroup(r) \/ Fail(r)
    BY <1>1, <1>2, <2>3, HistoryReads, HistoryChecks, MembershipWrites
       DEF ChangeRole, RemoveMember, LeaveGroup
  <2> QED
    BY <1>2, <2>1, <2>2, <2>3
<1>3. CASE HistoryNext
  BY <1>1, <1>2, <1>3, HistoryOthers DEF HistoryNext
<1>4. CASE UNCHANGED <<vars, overlapped>>
  BY <1>1, <1>4, HistoryOthers
<1> QED
  BY <1>3, <1>4

\* The same along every history, with what a request that runs alone still knows.
THEOREM HistoryInvariance == HistorySpec => []HistoryInv
<1>1. HistoryInit => HistoryInv
  <2> SUFFICES ASSUME HistoryInit PROVE HistoryInv
    OBVIOUS
  <2>1. GInv
    BY InitGInv DEF HistoryInit
  <2>2. /\ group = NoRow /\ \A r \in Req : req[r] = Idle
        /\ \A m \in MemberId : members[m] = NoRow
        /\ \A i \in InviteId : invites[i] = NoRow
    BY DEF HistoryInit, Init
  <2>3. Rows /\ OneOwner
    BY <2>2 DEF Rows, OneOwner
  <2>4. OneInvitation
    BY <2>2 DEF OneInvitation, NoRow
  <2>5. \A r \in Req : Current(req[r])
    BY <2>2 DEF Current, Idle
  <2> QED
    BY <2>1, <2>2, <2>3, <2>4, <2>5 DEF HistoryInv, Alone
<1> QED
  BY <1>1, HistoryStep, PTL DEF HistorySpec

\* As long as commands do not overlap, the owner column and the owner role
\* name one user, whatever command failed half-way.
THEOREM OwnerColumnAgrees == HistorySpec => []OwnerAgreesAlone
<1>1. ASSUME HistoryInv PROVE OwnerAgreesAlone
  <2> SUFFICES ASSUME ~overlapped, group # NoRow
               PROVE  OwnerAgrees
    BY DEF OwnerAgreesAlone, OwnerAgrees
  <2>1. Rows /\ OneOwner
    BY <1>1 DEF HistoryInv, Alone
  <2>2. PICK m \in MemberId : IsMembership(m, group.owner) /\ members[m].role = "owner"
    BY <2>1 DEF OneOwner
  <2>3. \A n \in MemberId : IsMembership(n, group.owner) <=> n = m
    BY <2>1, <2>2 DEF Rows, IsMembership
  <2>4. IsMember(group.owner)
    BY <2>2 DEF IsMember
  <2>5. GetGroup(group.owner).status = "found" /\ GetGroup(group.owner).role = "owner"
    <3>1. (CHOOSE n \in MemberId : IsMembership(n, group.owner)) = m
      BY <2>3
    <3> QED
      BY <2>2, <2>4, <3>1 DEF GetGroup
  <2>6. Cardinality({n \in ListMembers(group.owner) : members[n].role = "owner"}) = 1
    <3>1. \A n \in MemberId : members[n] # NoRow /\ members[n].role = "owner" => n = m
      BY <2>1, <2>2 DEF OneOwner, Rows, IsMembership
    <3>2. {n \in ListMembers(group.owner) : members[n].role = "owner"} = {m}
      BY <2>2, <2>4, <3>1 DEF ListMembers, MemberRows, IsMembership
    <3> QED
      BY <3>2, FS_Singleton
  <2>7. \A u \in User : ListPendingInvitations(u) \subseteq ListInvitations(group.owner)
    BY <2>2 DEF ListPendingInvitations, FindPendingByEmail, ListInvitations, PendingInvites, CanInvite
  <2> QED
    BY <2>5, <2>6, <2>7 DEF OwnerAgrees
<1> QED
  BY <1>1, HistoryInvariance, PTL

\* As long as commands do not overlap, nobody is offered a second way into the
\* group: the checks of InviteMember cover every later answer.
THEOREM InvitationsAreUnique == HistorySpec => []OneWayInAlone
<1>1. ASSUME HistoryInv PROVE OneWayInAlone
  <2> SUFFICES ASSUME ~overlapped, NEW u \in User
               PROVE  /\ Cardinality(ListPendingInvitations(u)) <= 1
                      /\ ListMyGroups(u) # {} => ListPendingInvitations(u) = {}
    BY DEF OneWayInAlone, OneWayIn
  <2>1. OneInvitation
    BY <1>1 DEF HistoryInv, Alone
  <2>2. CASE ListPendingInvitations(u) = {}
    BY <2>2, FS_EmptySet
  <2>3. CASE ListPendingInvitations(u) # {}
    <3>1. PICK i : i \in ListPendingInvitations(u)
      BY <2>3
    <3>2. i \in InviteId /\ invites[i].status = "pending" /\ invites[i].user = u
      BY <3>1 DEF ListPendingInvitations, FindPendingByEmail
    <3>3. ListPendingInvitations(u) = {i}
      BY <2>1, <3>1, <3>2 DEF OneInvitation, ListPendingInvitations, FindPendingByEmail
    <3>4. ListMyGroups(u) = {}
      BY <2>1, <3>2 DEF OneInvitation, ListMyGroups, FindByMemberID, IsMember
    <3>5. Cardinality({i}) = 1
      BY FS_Singleton
    <3> QED
      BY <3>3, <3>4, <3>5
  <2> QED
    BY <2>2, <2>3
<1> QED
  BY <1>1, HistoryInvariance, PTL

\* The commands that write the table of invitations.
LEMMA InvitationWriters ==
  ASSUME [Next]_vars
  PROVE  \/ UNCHANGED invites \/ ExpireOld
         \/ \E r \in Req : \/ \E j \in InviteId : InviteCommit(r, j)
                           \/ \E m \in MemberId : AcceptCommit(r, m)
                           \/ SaveInvite(r) \/ DeleteCommit(r)
<1>1. ASSUME NEW r \in Req,
             \/ UpdateGroup(r) \/ TransferOwnership(r) \/ DeleteGroup(r)
             \/ ChangeRole(r) \/ RemoveMember(r) \/ LeaveGroup(r) \/ Fail(r)
      PROVE  UNCHANGED invites \/ DeleteCommit(r)
  BY <1>1 DEF UpdateGroup, UpdateRead, UpdateActor, UpdateCommit,
       TransferOwnership, TransferRead, TransferMembers, TransferCommit, DeleteGroup, DeleteRead,
       ChangeRole, ChangeRead, ChangeTarget, ChangeCommit, ManageRead,
       RemoveMember, RemoveRead, RemoveTarget, RemoveCommit, LeaveGroup, LeaveRead, Fail, tables
<1>2. ASSUME NEW r \in Req,
             \/ Invite(r) \/ AcceptInvitation(r) \/ DeclineInvitation(r) \/ CancelInvitation(r)
      PROVE  \/ UNCHANGED invites \/ SaveInvite(r)
             \/ \E j \in InviteId : InviteCommit(r, j)
             \/ \E m \in MemberId : AcceptCommit(r, m)
  BY <1>2 DEF Invite, InviteRead, InviteMember, InvitePending,
       AcceptInvitation, AcceptRead, AcceptMember, DeclineInvitation, DeclineRead,
       CancelInvitation, CancelRead, CancelInvite, ManageRead, tables
<1>3. ASSUME \/ \E u \in User : NewGroup(u)
             \/ \E i \in InviteId : Lapse(i)
             \/ UNCHANGED vars
      PROVE  UNCHANGED invites
  BY <1>3 DEF NewGroup, CreateGroup, Lapse, vars, tables
<1> QED
  BY <1>1, <1>2, <1>3 DEF Next

\* As long as commands do not overlap, an answer is the last word on an
\* invitation: no other answer, no cancellation and no expiry writes over it.
THEOREM AnswersAreFinal == HistorySpec => AnswerIsFinalAlone
<1>1. ASSUME HistoryInv, [HistoryNext]_<<vars, overlapped>>, ~overlapped,
             NEW i \in InviteId, Answered(i)
      PROVE  invites'[i] = invites[i]
  <2>0. /\ TypeOK /\ Alone /\ group' # NoRow
        /\ invites[i].status # "pending" /\ invites[i] # NoRow
    BY <1>1 DEF HistoryInv, GInv, Answered, InvitationStatus, NoRow
  <2>1. CASE UNCHANGED invites
    BY <2>1
  <2>2. ASSUME NEW r \in Req, NEW j \in InviteId, InviteCommit(r, j)
        PROVE  invites'[i] = invites[i]
    BY <2>0, <2>2 DEF InviteCommit, InsertInvite, TypeOK
  <2>3. ASSUME NEW r \in Req, NEW m \in MemberId, AcceptCommit(r, m)
        PROVE  invites'[i] = invites[i]
    <3>1. i # req[r].invite
      BY <2>0, <2>3 DEF AcceptCommit, Alone, Current
    <3> QED
      BY <2>0, <2>3, <3>1 DEF AcceptCommit, UpdateInvite, TypeOK
  <2>4. ASSUME NEW r \in Req, SaveInvite(r)
        PROVE  invites'[i] = invites[i]
    <3>1. i # req[r].invite
      BY <2>0, <2>4 DEF SaveInvite, Alone, Current
    <3> QED
      BY <2>0, <2>4, <3>1 DEF SaveInvite, UpdateInvite, TypeOK
  <2>5. CASE ExpireOld
    BY <2>0, <2>5 DEF ExpireOld
  <2>6. ASSUME NEW r \in Req, DeleteCommit(r)
        PROVE  FALSE
    BY <2>0, <2>6 DEF DeleteCommit, DeleteRow
  <2>7. \/ UNCHANGED invites \/ ExpireOld
        \/ \E r \in Req : \/ \E j \in InviteId : InviteCommit(r, j)
                          \/ \E m \in MemberId : AcceptCommit(r, m)
                          \/ SaveInvite(r) \/ DeleteCommit(r)
    BY <1>1, HistoryIsNext, InvitationWriters
  <2> QED
    BY <2>1, <2>2, <2>3, <2>4, <2>5, <2>6, <2>7
<1>2. HistoryInv /\ [HistoryNext]_<<vars, overlapped>>
        => [~overlapped => \A i \in InviteId : Answered(i) => invites'[i] = invites[i]]_vars
  BY <1>1
<1> QED
  BY <1>2, HistoryInvariance, PTL DEF HistorySpec, AnswerIsFinalAlone
=============================================================================
