---------------------------- MODULE GroupHistory ----------------------------
(***************************************************************************)
(* GroupMembership with a history of overlaps: what its commands promise   *)
(* as long as they run one after another, each of them free to stop        *)
(* half-way.  Overlaps break all three promises.                           *)
(***************************************************************************)
EXTENDS GroupMembership

VARIABLE overlapped   \* two commands, or one and the job, have overlapped

Notice ==
  overlapped' = \/ overlapped
                \/ \E r, q \in Req : r # q /\ req'[r] # Idle /\ req'[q] # Idle

NoticeJob == overlapped' = (overlapped \/ \E r \in Req : req[r] # Idle)

HistoryInit == Init /\ overlapped = FALSE

\* Next, disjunct by disjunct.
HistoryNext ==
  \/ \E u \in User : NewGroup(u) /\ Notice
  \/ \E r \in Req :
       \/ UpdateGroup(r) /\ Notice
       \/ TransferOwnership(r) /\ Notice
       \/ DeleteGroup(r) /\ Notice
       \/ Invite(r) /\ Notice
       \/ AcceptInvitation(r) /\ Notice
       \/ DeclineInvitation(r) /\ Notice
       \/ CancelInvitation(r) /\ Notice
       \/ ChangeRole(r) /\ Notice
       \/ RemoveMember(r) /\ Notice
       \/ LeaveGroup(r) /\ Notice
       \/ Fail(r) /\ Notice
  \/ \E i \in InviteId : Lapse(i) /\ Notice
  \/ ExpireOld /\ NoticeJob

HistorySpec == HistoryInit /\ [][HistoryNext]_<<vars, overlapped>>

-----------------------------------------------------------------------------
(* Properties *)

\* The owner finds himself in that role, alone, and sees every invitation.
OwnerAgreesAlone == ~overlapped => OwnerAgrees

\* Nobody has two invitations to choose from, or one to a group of his.
OneWayInAlone == ~overlapped => OneWayIn

\* An invitation that was answered or withdrawn stays so.
AnswerIsFinalAlone ==
  [][~overlapped => \A i \in InviteId : Answered(i) => invites'[i] = invites[i]]_vars
=============================================================================
