--------------------- MODULE WorkspaceMembershipProofs ---------------------
(***************************************************************************)
(* Theorems about WorkspaceMembership for every set of accounts,           *)
(* workspaces, overlapping requests and tokens.                            *)
(***************************************************************************)
EXTENDS WorkspaceMembership, TLAPS

\* A copy of Idle is a legal state of a request.
LEMMA IdleType == Idle \in RequestState
BY DEF Idle, RequestState, Role, GrantableRole

\* Every variable keeps its type: whatever the requests do, the tables hold
\* only values their columns admit.
THEOREM TypeCorrect == Spec => []TypeOK
<1>1. Init => TypeOK
  BY IdleType DEF Init, TypeOK, Role, GrantableRole, NoInvite, InviteRow, NoIssue
<1>2. TypeOK /\ [Next]_vars => TypeOK'
  <2> SUFFICES ASSUME TypeOK, [Next]_vars PROVE TypeOK'
    OBVIOUS
  <2> USE IdleType DEF TypeOK, database, history, tokens, races
  <2>1. ASSUME NEW r \in Request, NEW u \in User, NEW w \in Workspace,
               ResolveScope(r, u, w)
        PROVE  TypeOK'
    <3>1. role[w][u] \in Role
      OBVIOUS
    <3>2. [Idle EXCEPT !.pc = "resolved", !.user = u, !.ws = w, !.role = role[w][u]]
             \in RequestState
      BY <3>1 DEF RequestState, Idle, Role, GrantableRole
    <3>3. QED
      BY <2>1, <3>2 DEF ResolveScope
  <2>2. ASSUME NEW r \in Request, Rollback(r) PROVE TypeOK'
    BY <2>2 DEF Rollback
  <2>3. ASSUME NEW r \in Request, NEW t \in User, NEW g \in GrantableRole,
               UpdateMemberRole(r, t, g)
        PROVE  TypeOK'
    BY <2>3 DEF UpdateMemberRole, Done, Role, GrantableRole, RequestState
  <2>4. ASSUME NEW r \in Request, NEW t \in User, RemoveCheck(r, t) PROVE TypeOK'
    <3>1. [req[r] EXCEPT !.pc = "remove_checked", !.target = t] \in RequestState
      BY DEF RequestState
    <3>2. QED
      BY <2>4, <3>1 DEF RemoveCheck
  <2>5. ASSUME NEW r \in Request, NEW t \in User \cup {NoUser}, DisableMembership(r, t)
        PROVE  TypeOK'
    <3>1. PICK v \in RepairCandidate(req[r].ws, t) :
             req' = [req EXCEPT ![r] = [@ EXCEPT !.pc = "disabling", !.target = t,
                                                 !.fallback = v]]
      BY <2>5 DEF DisableMembership
    <3>2. v \in Workspace \cup {Personal}
      BY DEF RepairCandidate, Joined
    <3>3. [req[r] EXCEPT !.pc = "disabling", !.target = t, !.fallback = v] \in RequestState
      BY <3>2 DEF RequestState
    <3>4. QED
      BY <2>5, <3>1, <3>3 DEF DisableMembership
  <2>6. ASSUME NEW r \in Request, RemoveDisable(r) PROVE TypeOK'
    <3>1. req[r].target \in User \cup {NoUser}
      BY DEF RequestState
    <3>2. QED
      BY <2>6, <2>5, <3>1 DEF RemoveDisable
  <2>7. ASSUME NEW r \in Request, LeaveDisable(r) PROVE TypeOK'
    <3>1. req[r].user \in User \cup {NoUser}
      BY DEF RequestState
    <3>2. QED
      BY <2>7, <2>5, <3>1 DEF LeaveDisable
  <2>8. ASSUME NEW r \in Request, CommitDisable(r) PROVE TypeOK'
    BY <2>8 DEF CommitDisable, Undercut, Done, RequestState
  <2>9. ASSUME NEW r \in Request, NEW t \in User, TransferOwnership(r, t) PROVE TypeOK'
    BY <2>9 DEF TransferOwnership, TransferChecks, Overtaken, Done, Role, RequestState
  <2>10. ASSUME NEW r \in Request, SetDefaultWorkspace(r) PROVE TypeOK'
    BY <2>10 DEF SetDefaultWorkspace, Done, RequestState
  <2>11. ASSUME NEW r \in Request, NEW t \in User, NEW g \in GrantableRole,
                InviteCheck(r, t, g)
         PROVE  TypeOK'
    <3>1. [req[r] EXCEPT !.pc = "invite_checked", !.target = t, !.grant = g]
             \in RequestState
      BY DEF RequestState
    <3>2. QED
      BY <2>11, <3>1 DEF InviteCheck
  <2>12. ASSUME NEW r \in Request, NEW t \in Token, InviteWrite(r, t) PROVE TypeOK'
    <3>1. req[r] \in RequestState
      OBVIOUS
    <3>2. /\ req[r].grant \in GrantableRole
          /\ req[r].target \in User \cup {NoUser}
          /\ req[r].ws \in Workspace \cup {Personal}
      BY <3>1 DEF RequestState
    <3>3. [token |-> t, role |-> req[r].grant, expired |-> FALSE] \in InviteRow
      BY <3>2 DEF InviteRow
    <3>4. invite' \in [Workspace -> [User -> InviteRow]]
      BY <2>12, <3>3 DEF InviteWrite
    <3>5. issued' \in [Token -> [ws : Workspace \cup {Personal},
                                user : User \cup {NoUser}, role : GrantableRole]]
      BY <2>12, <3>2 DEF InviteWrite
    <3>6. QED
      BY <2>12, <3>4, <3>5 DEF InviteWrite, Done
  <2>13. ASSUME NEW r \in Request, NEW t \in User, RevokeInvitation(r, t) PROVE TypeOK'
    BY <2>13 DEF RevokeInvitation, Done, InviteRow, NoInvite, GrantableRole
  <2>14. ASSUME NEW u \in User, NEW w \in Workspace, CreateWorkspace(u, w) PROVE TypeOK'
    BY <2>14 DEF CreateWorkspace, Role
  <2>15. ASSUME NEW u \in User, NEW w \in Workspace, ExpireInvitation(w, u) PROVE TypeOK'
    <3>1. invite[w][u] \in InviteRow
      OBVIOUS
    <3>2. [invite[w][u] EXCEPT !.expired = TRUE] \in InviteRow
      BY <3>1 DEF InviteRow
    <3>3. invite' \in [Workspace -> [User -> InviteRow]]
      BY <2>15, <3>2 DEF ExpireInvitation
    <3>4. QED
      BY <2>15, <3>3 DEF ExpireInvitation
  <2>16. ASSUME NEW u \in User, NEW w \in Workspace, AcceptInvitation(w, u) PROVE TypeOK'
    BY <2>16 DEF AcceptInvitation, RoleOnAccept, Open, InviteRow, NoInvite, Role, GrantableRole
  <2>17. CASE UNCHANGED vars
    BY <2>17 DEF vars
  <2>18. QED
    BY <2>1, <2>2, <2>3, <2>4, <2>6, <2>7, <2>8, <2>9, <2>10, <2>11, <2>12, <2>13,
       <2>14, <2>15, <2>16, <2>17 DEF Next, RequestStep
<1>3. QED
  BY <1>1, <1>2, PTL DEF Spec

\* OwnerRowIsRecorded is inductive with the types: only a creation and a
\* transfer write the owner role, both with the owner of the row.
THEOREM OwnerRowInvariant == Spec => []OwnerRowIsRecorded
<1>1. Init => OwnerRowIsRecorded
  BY DEF Init, OwnerRowIsRecorded, Member
<1>2. TypeOK /\ TypeOK' /\ OwnerRowIsRecorded /\ [Next]_vars => OwnerRowIsRecorded'
  <2> SUFFICES ASSUME TypeOK, OwnerRowIsRecorded, [Next]_vars,
                      NEW x \in Workspace, NEW y \in User,
                      Member(x, y)', role'[x][y] = "owner"
               PROVE  owner'[x] = y
    BY DEF OwnerRowIsRecorded
  <2> USE DEF Member
  <2>1. CASE UNCHANGED <<owner, role, status>>
    BY <2>1 DEF OwnerRowIsRecorded
  <2>2. ASSUME NEW r \in Request, NEW t \in User, NEW g \in GrantableRole,
               UpdateMemberRole(r, t, g)
        PROVE  owner'[x] = y
    BY <2>2 DEF UpdateMemberRole, OwnerRowIsRecorded, GrantableRole, TypeOK
  <2>3. ASSUME NEW r \in Request, CommitDisable(r) PROVE owner'[x] = y
    BY <2>3 DEF CommitDisable, OwnerRowIsRecorded, TypeOK
  <2>4. ASSUME NEW r \in Request, NEW t \in User, TransferOwnership(r, t)
        PROVE  owner'[x] = y
    <3>1. CASE x # req[r].ws
      BY <2>4, <3>1 DEF TransferOwnership, TransferChecks, OwnerRowIsRecorded, TypeOK
    <3>2. CASE x = req[r].ws
      \* The only active owner there was the caller, who is now an admin.
      <4>1. y = t
        BY <2>4, <3>2 DEF TransferOwnership, TransferChecks, OwnerRowIsRecorded, TypeOK
      <4>2. QED
        BY <2>4, <3>2, <4>1 DEF TransferOwnership, TransferChecks, TypeOK
    <3>3. QED
      BY <3>1, <3>2
  <2>5. ASSUME NEW u \in User, NEW w \in Workspace, CreateWorkspace(u, w)
        PROVE  owner'[x] = y
    \* The workspace had no row, so no active owner.
    BY <2>5, SentinelAssumption DEF CreateWorkspace, OwnerRowIsRecorded, TypeOK
  <2>6. ASSUME NEW u \in User, NEW w \in Workspace, AcceptInvitation(w, u)
        PROVE  owner'[x] = y
    <3>1. invite[w][u].role # "owner"
      <4>1. invite[w][u] \in InviteRow
        BY DEF TypeOK
      <4>2. QED
        BY <4>1 DEF InviteRow, GrantableRole
    <3>2. /\ owner' = owner
          /\ role' = [role EXCEPT ![w][u] = RoleOnAccept(w, u)]
          /\ status' = [status EXCEPT ![w][u] = "active"]
      BY <2>6 DEF AcceptInvitation
    <3>3. CASE x = w /\ y = u
      <4>1. role'[w][u] = RoleOnAccept(w, u)
        <5>1. role \in [Workspace -> [User -> Role]]
          BY DEF TypeOK
        <5>2. QED
          BY <3>2, <5>1
      <4>2. Member(w, u) /\ role[w][u] = "owner"
        BY <3>1, <3>3, <4>1 DEF RoleOnAccept
      <4>3. QED
        BY <3>2, <3>3, <4>2 DEF OwnerRowIsRecorded
    <3>4. CASE ~(x = w /\ y = u)
      BY <3>2, <3>4 DEF OwnerRowIsRecorded, TypeOK
    <3>5. QED
      BY <3>3, <3>4
  <2>7. ASSUME NEW r \in Request, RequestStep(r) PROVE owner'[x] = y
    BY <2>7, <2>1, <2>2, <2>3, <2>4
       DEF RequestStep, ResolveScope, Rollback, RemoveCheck, RemoveDisable, LeaveDisable,
           DisableMembership, SetDefaultWorkspace, InviteCheck, InviteWrite,
           RevokeInvitation, database, history, tokens
  <2>8. QED
    BY <2>1, <2>5, <2>6, <2>7 DEF Next, ExpireInvitation, vars, database, history, tokens
<1>3. QED
  BY <1>1, <1>2, TypeCorrect, PTL DEF Spec

\* No workspace ever has two active owners, so the unique index
\* uq_workspace_active_owner rejects no statement of these functions.
THEOREM OneActiveOwner == Spec => []AtMostOneActiveOwner
<1>1. OwnerRowIsRecorded => AtMostOneActiveOwner
  BY DEF OwnerRowIsRecorded, AtMostOneActiveOwner
<1>2. QED
  BY <1>1, OwnerRowInvariant, PTL

\* Two workspaces of one owner never share a name, for a creation and a
\* transfer both look for the name among those of the owner to be.
THEOREM NamesStayDistinct == Spec => []OwnedNamesDiffer
<1>1. Init => OwnedNamesDiffer
  BY DEF Init, OwnedNamesDiffer
<1>2. TypeOK /\ OwnedNamesDiffer /\ [Next]_vars => OwnedNamesDiffer'
  <2> SUFFICES ASSUME TypeOK, OwnedNamesDiffer, [Next]_vars PROVE OwnedNamesDiffer'
    OBVIOUS
  <2>1. ASSUME NEW w \in Workspace, NEW u \in User,
               ~NameTaken(u, w), owner' = [owner EXCEPT ![w] = u]
        PROVE  OwnedNamesDiffer'
    BY <2>1, SentinelAssumption DEF NameTaken, OwnedNamesDiffer, TypeOK
  <2>2. CASE UNCHANGED owner
    BY <2>2 DEF OwnedNamesDiffer
  <2>3. ASSUME NEW u \in User, NEW w \in Workspace, CreateWorkspace(u, w)
        PROVE  OwnedNamesDiffer'
    BY <2>3, <2>1 DEF CreateWorkspace
  <2>4. ASSUME NEW r \in Request, NEW t \in User, TransferOwnership(r, t)
        PROVE  OwnedNamesDiffer'
    <3>1. CASE req[r].ws \in Workspace
      BY <2>4, <3>1, <2>1 DEF TransferOwnership, TransferChecks
    <3>2. CASE req[r].ws \notin Workspace
      BY <2>4, <3>2, <2>2 DEF TransferOwnership, TransferChecks, TypeOK
    <3>3. QED
      BY <3>1, <3>2
  <2>5. ASSUME NEW r \in Request, RequestStep(r) PROVE OwnedNamesDiffer'
    BY <2>5, <2>2, <2>4
       DEF RequestStep, ResolveScope, Rollback, UpdateMemberRole, RemoveCheck,
           RemoveDisable, LeaveDisable, DisableMembership, CommitDisable,
           SetDefaultWorkspace, InviteCheck, InviteWrite, RevokeInvitation, database
  <2>6. QED
    BY <2>2, <2>3, <2>5 DEF Next, ExpireInvitation, AcceptInvitation, vars, database
<1>3. QED
  BY <1>1, <1>2, TypeCorrect, PTL DEF Spec

\* A token that has been used was drawn, so it is never drawn again.
ConsumedWasIssued == \A t \in consumed : issued[t] # NoIssue

\* The inductive invariant behind OpenInvitationIsCurrent.
InvitationInv == OpenInvitationIsCurrent /\ ConsumedWasIssued

\* An invitation that can be accepted is the last one sent to its address for
\* its workspace, and its token has not been used.
THEOREM InvitationsAreOneShot == Spec => []OpenInvitationIsCurrent
<1>1. Init => InvitationInv
  BY DEF Init, InvitationInv, OpenInvitationIsCurrent, ConsumedWasIssued, Open, NoInvite
<1>2. TypeOK /\ InvitationInv /\ [Next]_vars => InvitationInv'
  <2> SUFFICES ASSUME TypeOK, InvitationInv, [Next]_vars PROVE InvitationInv'
    OBVIOUS
  <2> USE DEF InvitationInv, OpenInvitationIsCurrent, ConsumedWasIssued, Open
  <2>1. CASE UNCHANGED <<invite, issued, consumed>>
    BY <2>1
  <2>2. ASSUME NEW r \in Request, NEW t \in Token, InviteWrite(r, t)
        PROVE  InvitationInv'
    <3> DEFINE v == req[r].ws
               y == req[r].target
    <3>1. /\ invite' = [invite EXCEPT ![v][y] =
                           [token |-> t, role |-> req[r].grant, expired |-> FALSE]]
          /\ issued' = [issued EXCEPT ![t] = [ws |-> v, user |-> y, role |-> req[r].grant]]
          /\ consumed' = consumed
          /\ issued[t] = NoIssue
      BY <2>2 DEF InviteWrite
    <3>2. t \notin consumed
      BY <3>1
    <3>3. ASSUME NEW w \in Workspace, NEW u \in User, Open(w, u)'
          PROVE  /\ issued'[invite'[w][u].token] =
                       [ws |-> w, user |-> u, role |-> invite'[w][u].role]
                 /\ invite'[w][u].token \notin consumed'
      <4>1. CASE w = v /\ u = y
        BY <3>1, <3>2, <4>1 DEF TypeOK
      <4>2. CASE ~(w = v /\ u = y)
        <5>1. invite'[w][u] = invite[w][u]
          BY <3>1, <4>2 DEF TypeOK
        <5>2. invite[w][u].token # t
          <6>1. issued[invite[w][u].token].ws = w
            <7>1. invite[w][u].token # NoToken
              BY <3>3, <5>1
            <7>2. issued[invite[w][u].token] =
                    [ws |-> w, user |-> u, role |-> invite[w][u].role]
              BY <7>1
            <7>3. QED
              BY <7>2
          <6>2. issued[t].ws = Personal
            BY <3>1 DEF NoIssue
          <6>3. QED
            BY <6>1, <6>2, SentinelAssumption
        <5>3. invite[w][u].token \in Token
          <6>1. invite[w][u] \in InviteRow
            BY DEF TypeOK
          <6>2. QED
            BY <3>3, <5>1, <6>1 DEF InviteRow
        <5>4. QED
          BY <3>1, <3>3, <5>1, <5>2, <5>3 DEF TypeOK
      <4>3. QED
        BY <4>1, <4>2
    <3>4. ASSUME NEW d \in consumed' PROVE issued'[d] # NoIssue
      <4>1. d \in Token /\ d # t
        BY <3>1, <3>2 DEF TypeOK
      <4>2. issued[d] # NoIssue
        BY <3>1
      <4>3. issued'[d] = issued[d]
        BY <3>1, <4>1 DEF TypeOK
      <4>4. QED
        BY <4>2, <4>3
    <3>5. QED
      BY <3>3, <3>4
  <2>3. ASSUME NEW w \in Workspace, NEW u \in User,
               invite' = [invite EXCEPT ![w][u] = NoInvite],
               UNCHANGED <<issued, consumed>>
        PROVE  InvitationInv'
    BY <2>3 DEF TypeOK, NoInvite
  <2>4. ASSUME NEW r \in Request, NEW t \in User, RevokeInvitation(r, t)
        PROVE  InvitationInv'
    <3>1. CASE req[r].ws \in Workspace
      BY <2>4, <2>3, <3>1 DEF RevokeInvitation, history, tokens
    <3>2. CASE req[r].ws \notin Workspace
      BY <2>4, <2>1, <3>2 DEF RevokeInvitation, history, tokens, TypeOK
    <3>3. QED
      BY <3>1, <3>2
  <2>5. ASSUME NEW w \in Workspace, NEW u \in User, ExpireInvitation(w, u)
        PROVE  InvitationInv'
    <3>1. \A x \in Workspace, y \in User :
             /\ invite'[x][y].token = invite[x][y].token
             /\ invite'[x][y].role = invite[x][y].role
      <4>1. invite[w][u] \in InviteRow
        BY DEF TypeOK
      <4>2. QED
        BY <2>5, <4>1 DEF ExpireInvitation, TypeOK, InviteRow
    <3>2. UNCHANGED <<issued, consumed>>
      BY <2>5 DEF ExpireInvitation, history, tokens
    <3>3. QED
      BY <3>1, <3>2
  <2>6. ASSUME NEW w \in Workspace, NEW u \in User, AcceptInvitation(w, u)
        PROVE  InvitationInv'
    <3> DEFINE d == invite[w][u].token
    <3>1. /\ invite' = [invite EXCEPT ![w][u] = NoInvite]
          /\ consumed' = consumed \cup {d}
          /\ issued' = issued
          /\ issued[d] = [ws |-> w, user |-> u, role |-> invite[w][u].role]
      BY <2>6 DEF AcceptInvitation
    <3>2. issued[d] # NoIssue
      BY <3>1, SentinelAssumption DEF NoIssue
    <3>3. ASSUME NEW x \in Workspace, NEW y \in User, Open(x, y)'
          PROVE  ~(x = w /\ y = u) /\ invite'[x][y] = invite[x][y]
      BY <3>1, <3>3 DEF TypeOK, NoInvite
    <3>4. ASSUME NEW x \in Workspace, NEW y \in User, Open(x, y)'
          PROVE  invite[x][y].token # d
      \* Two open rows of one token would be one row: issued tells them apart.
      <4>1. ~(x = w /\ y = u) /\ invite[x][y].token # NoToken
        BY <3>3, <3>4
      <4>2. issued[invite[x][y].token] = [ws |-> x, user |-> y, role |-> invite[x][y].role]
        BY <4>1
      <4>3. issued[invite[x][y].token].ws = x /\ issued[invite[x][y].token].user = y
        BY <4>2
      <4>4. issued[d].ws = w /\ issued[d].user = u
        BY <3>1
      <4>5. QED
        BY <4>1, <4>3, <4>4
    <3>5. ASSUME NEW x \in Workspace, NEW y \in User, Open(x, y)'
          PROVE  /\ issued'[invite'[x][y].token] =
                       [ws |-> x, user |-> y, role |-> invite'[x][y].role]
                 /\ invite'[x][y].token \notin consumed'
      <4>1. invite'[x][y] = invite[x][y]
        BY <3>3, <3>5
      <4>2. Open(x, y) /\ invite[x][y].token # d
        BY <3>4, <3>5, <4>1
      <4>3. QED
        BY <3>1, <4>1, <4>2
    <3>6. ASSUME NEW c \in consumed' PROVE issued'[c] # NoIssue
      <4>1. c \in consumed \/ c = d
        BY <3>1, <3>6
      <4>2. issued[c] # NoIssue
        BY <3>2, <4>1
      <4>3. QED
        BY <3>1, <4>2
    <3>7. QED
      BY <3>5, <3>6
  <2>7. ASSUME NEW r \in Request, RequestStep(r) PROVE InvitationInv'
    BY <2>7, <2>1, <2>2, <2>4
       DEF RequestStep, ResolveScope, Rollback, UpdateMemberRole, RemoveCheck,
           RemoveDisable, LeaveDisable, DisableMembership, CommitDisable,
           TransferOwnership, TransferChecks, SetDefaultWorkspace, InviteCheck, database, history, tokens
  <2>8. QED
    BY <2>1, <2>5, <2>6, <2>7 DEF Next, CreateWorkspace, vars, database, history, tokens
<1>3. QED
  BY <1>1, <1>2, TypeCorrect, PTL DEF Spec, InvitationInv

\* Whatever an acceptance races with, it leaves the role of active members alone.
THEOREM AcceptingNeverDemotes == Spec => AcceptKeepsStandingRole
<1>1. TypeOK /\ [Next]_vars => [AcceptKeepsRoles]_vars
  <2> SUFFICES ASSUME TypeOK, [Next]_vars, consumed' # consumed PROVE AcceptKeepsRoles
    BY DEF AcceptKeepsRoles
  <2>0. ASSUME NEW r \in Request, RequestStep(r) PROVE FALSE
    <3>1. \A t \in User, g \in GrantableRole :
             ~UpdateMemberRole(r, t, g) /\ ~InviteCheck(r, t, g)
      BY DEF UpdateMemberRole, InviteCheck, history, tokens
    <3>2. \A t \in User : ~RemoveCheck(r, t) /\ ~TransferOwnership(r, t) /\ ~RevokeInvitation(r, t)
      BY DEF RemoveCheck, TransferOwnership, RevokeInvitation, history, tokens
    <3>3. ~RemoveDisable(r) /\ ~LeaveDisable(r) /\ ~CommitDisable(r)
      BY DEF RemoveDisable, LeaveDisable, DisableMembership, CommitDisable, history, tokens
    <3>4. ~SetDefaultWorkspace(r) /\ ~Rollback(r) /\ \A t \in Token : ~InviteWrite(r, t)
      BY DEF SetDefaultWorkspace, Rollback, InviteWrite, history, tokens
    <3>5. \A u \in User, w \in Workspace : ~ResolveScope(r, u, w)
      BY DEF ResolveScope, history, tokens
    <3>6. QED
      BY <2>0, <3>1, <3>2, <3>3, <3>4, <3>5 DEF RequestStep
  <2>1. PICK u \in User, w \in Workspace : AcceptInvitation(w, u)
    BY <2>0 DEF Next, CreateWorkspace, ExpireInvitation, vars, history, tokens
  <2>2. role \in [Workspace -> [User -> Role]]
    BY DEF TypeOK
  <2>3. role' = [role EXCEPT ![w][u] = RoleOnAccept(w, u)]
    BY <2>1 DEF AcceptInvitation
  <2>4. ASSUME NEW x \in Workspace, NEW y \in User, Member(x, y)
        PROVE  role'[x][y] = role[x][y]
    <3>1. CASE x = w /\ y = u
      BY <2>2, <2>3, <2>4, <3>1 DEF RoleOnAccept
    <3>2. CASE ~(x = w /\ y = u)
      BY <2>2, <2>3, <3>2
    <3>3. QED
      BY <3>1, <3>2
  <2>5. QED
    BY <2>4 DEF AcceptKeepsRoles
<1>2. QED
  BY <1>1, TypeCorrect, PTL DEF Spec, AcceptKeepsStandingRole

-----------------------------------------------------------------------------
(***************************************************************************)
(* Requests that overlap in any way.  An owner or a default workspace can  *)
(* be lost (membership_owner_lost), but only by what overtaken and         *)
(* undercut record.                                                        *)
(***************************************************************************)

\* Nobody is a member of, or invited to, a workspace that has no row.
MembersOfExisting ==
    \A w \in Workspace, u \in User : Member(w, u) \/ Open(w, u) => owner[w] # NoUser

\* A request under way is one of an account in a workspace that exists, and a
\* removal holds the row it disables until it commits.
UnderWay(s) ==
    req[s].pc # "idle" =>
        /\ req[s].ws \in Workspace /\ req[s].user \in User
        /\ owner[req[s].ws] # NoUser
        /\ req[s].pc \in {"remove_checked", "disabling"} => req[s].target \in User
        /\ req[s].pc = "disabling" => lock[req[s].ws][req[s].target] = s

ProgressInv == MembersOfExisting /\ \A s \in Request : UnderWay(s)

LEMMA ProgressStep == TypeOK /\ ProgressInv /\ [Next]_vars => ProgressInv'
<1> SUFFICES ASSUME TypeOK, ProgressInv, [Next]_vars PROVE ProgressInv'
  OBVIOUS
<1>0. /\ owner \in [Workspace -> User \cup {NoUser}]
      /\ status \in [Workspace -> [User -> {"absent", "active", "disabled"}]]
      /\ invite \in [Workspace -> [User -> InviteRow]]
      /\ lock \in [Workspace -> [User -> Request \cup {NoRequest}]]
      /\ req \in [Request -> RequestState]
  BY DEF TypeOK
\* A step of one request, which takes only a free row and frees only its own.
<1>1. ASSUME NEW r \in Request, NEW q, req' = [req EXCEPT ![r] = q],
             \A w \in Workspace, u \in User :
                 lock[w][u] \in Request \ {r} => lock'[w][u] = lock[w][u],
             \A w \in Workspace : owner[w] # NoUser => owner'[w] # NoUser,
             MembersOfExisting', UnderWay(r)'
      PROVE  ProgressInv'
  <2>1. ASSUME NEW s \in Request, s # r PROVE UnderWay(s)'
    <3>1. req'[s] = req[s] /\ UnderWay(s)
      BY <1>0, <1>1, <2>1 DEF ProgressInv
    <3>2. QED
      BY <1>1, <2>1, <3>1 DEF UnderWay
  <2>2. QED
    BY <1>1, <2>1 DEF ProgressInv
\* Such a step that leaves the tables of members and invitations alone.
<1>2. ASSUME NEW r \in Request, NEW q, req' = [req EXCEPT ![r] = q],
             \A w \in Workspace, u \in User :
                 lock[w][u] \in Request \ {r} => lock'[w][u] = lock[w][u],
             UNCHANGED <<owner, status, invite>>, UnderWay(r)'
      PROVE  ProgressInv'
  BY <1>1, <1>2 DEF ProgressInv, MembersOfExisting, Member, Open
<1>3. ASSUME NEW r \in Request, Done(r) PROVE UnderWay(r)'
  BY <1>0, <1>3 DEF Done, UnderWay, Idle
\* A step of no request, for workspaces that exist or come to exist.
<1>4. ASSUME UNCHANGED <<req, lock>>, MembersOfExisting',
             \A w \in Workspace : owner[w] # NoUser => owner'[w] # NoUser
      PROVE  ProgressInv'
  BY <1>4 DEF ProgressInv, UnderWay
<1>5. ASSUME NEW r \in Request, NEW u \in User, NEW w \in Workspace, ResolveScope(r, u, w)
      PROVE  ProgressInv'
  <2> DEFINE q == [Idle EXCEPT !.pc = "resolved", !.user = u, !.ws = w, !.role = role[w][u]]
  <2>1. req' = [req EXCEPT ![r] = q] /\ UNCHANGED <<owner, status, invite, lock>>
    BY <1>5 DEF ResolveScope, database
  <2>2. UnderWay(r)'
    BY <1>0, <1>5, <2>1 DEF ResolveScope, UnderWay, Idle, ProgressInv, MembersOfExisting
  <2>3. QED
    BY <1>2, <2>1, <2>2
<1>6. ASSUME NEW r \in Request, Rollback(r) PROVE ProgressInv'
  BY <1>0, <1>2, <1>3, <1>6 DEF Rollback, Done, database
<1>7. ASSUME NEW r \in Request, Done(r), UNCHANGED <<owner, status, invite, lock>>
      PROVE  ProgressInv'
  BY <1>2, <1>3, <1>7 DEF Done
<1>8. ASSUME NEW r \in Request, NEW t \in User, RemoveCheck(r, t) PROVE ProgressInv'
  <2> DEFINE q == [req[r] EXCEPT !.pc = "remove_checked", !.target = t]
  <2>1. req' = [req EXCEPT ![r] = q] /\ UNCHANGED <<owner, status, invite, lock>>
    BY <1>8 DEF RemoveCheck, database
  <2>2. UnderWay(r)'
    BY <1>0, <1>8, <2>1 DEF RemoveCheck, UnderWay, ProgressInv, RequestState
  <2>3. QED
    BY <1>2, <2>1, <2>2
<1>9. ASSUME NEW r \in Request, NEW t \in User, req[r].pc # "idle", DisableMembership(r, t)
      PROVE  ProgressInv'
  <2>1. PICK v \in RepairCandidate(req[r].ws, t) :
           req' = [req EXCEPT ![r] = [@ EXCEPT !.pc = "disabling", !.target = t, !.fallback = v]]
    BY <1>9 DEF DisableMembership
  <2> DEFINE q == [req[r] EXCEPT !.pc = "disabling", !.target = t, !.fallback = v]
  <2>2. /\ req' = [req EXCEPT ![r] = q] /\ UNCHANGED <<owner, status, invite>>
        /\ lock' = [lock EXCEPT ![req[r].ws][t] = r] /\ lock[req[r].ws][t] = NoRequest
    BY <1>9, <2>1 DEF DisableMembership, RowFree, database
  <2>3. UnderWay(r)'
    BY <1>0, <1>9, <2>2 DEF UnderWay, ProgressInv, RequestState
  <2>4. \A w \in Workspace, u \in User :
            lock[w][u] \in Request \ {r} => lock'[w][u] = lock[w][u]
    BY <1>0, <2>2, SentinelAssumption
  <2>5. QED
    BY <1>2, <2>2, <2>3, <2>4
<1>10. ASSUME NEW r \in Request, CommitDisable(r) PROVE ProgressInv'
  <2>1. /\ status' = [status EXCEPT ![req[r].ws][req[r].target] = "disabled"]
        /\ lock' = [lock EXCEPT ![req[r].ws][req[r].target] = NoRequest]
        /\ lock[req[r].ws][req[r].target] = r
        /\ UNCHANGED <<owner, invite>> /\ Done(r)
    BY <1>10 DEF CommitDisable, ProgressInv, UnderWay
  <2>2. MembersOfExisting'
    BY <1>0, <2>1 DEF ProgressInv, MembersOfExisting, Member, Open
  <2>3. \A w \in Workspace, u \in User :
            lock[w][u] \in Request \ {r} => lock'[w][u] = lock[w][u]
    BY <1>0, <2>1
  <2>4. QED
    BY <1>1, <1>3, <2>1, <2>2, <2>3 DEF Done
<1>11. ASSUME NEW r \in Request, NEW t \in User, TransferOwnership(r, t) PROVE ProgressInv'
  <2>1. owner' = [owner EXCEPT ![req[r].ws] = t] /\ Done(r)
          /\ UNCHANGED <<status, invite, lock>>
    BY <1>11 DEF TransferOwnership
  <2>2. \A w \in Workspace : owner[w] # NoUser => owner'[w] # NoUser
    BY <1>0, <2>1, SentinelAssumption
  <2>3. MembersOfExisting'
    BY <2>1, <2>2 DEF ProgressInv, MembersOfExisting, Member, Open
  <2>4. QED
    BY <1>1, <1>3, <2>1, <2>2, <2>3 DEF Done
<1>12. ASSUME NEW r \in Request, NEW t \in User, NEW g \in GrantableRole, InviteCheck(r, t, g)
       PROVE  ProgressInv'
  <2> DEFINE q == [req[r] EXCEPT !.pc = "invite_checked", !.target = t, !.grant = g]
  <2>1. req' = [req EXCEPT ![r] = q] /\ UNCHANGED <<owner, status, invite, lock>>
    BY <1>12 DEF InviteCheck, database
  <2>2. UnderWay(r)'
    BY <1>0, <1>12, <2>1 DEF InviteCheck, UnderWay, ProgressInv, RequestState
  <2>3. QED
    BY <1>2, <2>1, <2>2
\* A step that touches invitations only, of workspaces that exist.
<1>13. ASSUME NEW r \in Request, Done(r), UNCHANGED <<owner, status, lock>>,
              \A w \in Workspace, u \in User : Open(w, u)' => owner[w] # NoUser
       PROVE  ProgressInv'
  <2>1. MembersOfExisting'
    BY <1>13 DEF ProgressInv, MembersOfExisting, Member
  <2>2. QED
    BY <1>1, <1>3, <1>13, <2>1 DEF Done
<1>14. ASSUME NEW r \in Request, NEW t \in Token, InviteWrite(r, t) PROVE ProgressInv'
  <2>1. owner[req[r].ws] # NoUser
    BY <1>14 DEF InviteWrite, ProgressInv, UnderWay
  <2>2. \A w \in Workspace, u \in User : Open(w, u)' => owner[w] # NoUser
    BY <1>0, <1>14, <2>1 DEF InviteWrite, ProgressInv, MembersOfExisting, Open
  <2>3. QED
    BY <1>13, <1>14, <2>2 DEF InviteWrite
<1>15. ASSUME NEW r \in Request, NEW t \in User, RevokeInvitation(r, t) PROVE ProgressInv'
  <2>1. \A w \in Workspace, u \in User : Open(w, u)' => owner[w] # NoUser
    BY <1>0, <1>15 DEF RevokeInvitation, Open, NoInvite, ProgressInv, MembersOfExisting
  <2>2. QED
    BY <1>13, <1>15, <2>1 DEF RevokeInvitation
<1>16. ASSUME NEW u \in User, NEW w \in Workspace, CreateWorkspace(u, w) PROVE ProgressInv'
  <2>1. /\ owner' = [owner EXCEPT ![w] = u]
        /\ status' = [status EXCEPT ![w][u] = "active"]
        /\ UNCHANGED <<invite, lock, req>>
    BY <1>16 DEF CreateWorkspace
  <2>2. \A x \in Workspace : owner[x] # NoUser => owner'[x] # NoUser
    BY <1>0, <2>1, SentinelAssumption
  <2>3. MembersOfExisting'
    BY <1>0, <2>1, <2>2, SentinelAssumption DEF ProgressInv, MembersOfExisting, Member, Open
  <2>4. QED
    BY <1>4, <2>1, <2>2, <2>3
<1>17. ASSUME NEW u \in User, NEW w \in Workspace, ExpireInvitation(w, u) PROVE ProgressInv'
  <2>1. \A x \in Workspace, y \in User : Open(x, y)' => Open(x, y)
    BY <1>0, <1>17 DEF ExpireInvitation, Open, InviteRow
  <2>2. MembersOfExisting'
    BY <1>17, <2>1 DEF ExpireInvitation, ProgressInv, MembersOfExisting, Member
  <2>3. QED
    BY <1>4, <1>17, <2>2 DEF ExpireInvitation
<1>18. ASSUME NEW u \in User, NEW w \in Workspace, AcceptInvitation(w, u) PROVE ProgressInv'
  <2>1. /\ Open(w, u)
        /\ status' = [status EXCEPT ![w][u] = "active"]
        /\ invite' = [invite EXCEPT ![w][u] = NoInvite]
        /\ UNCHANGED <<owner, lock, req>>
    BY <1>18 DEF AcceptInvitation
  <2>2. MembersOfExisting'
    BY <1>0, <2>1 DEF ProgressInv, MembersOfExisting, Member, Open, NoInvite
  <2>3. QED
    BY <1>4, <2>1, <2>2
<1>19. CASE UNCHANGED vars
  <2>1. UNCHANGED <<owner, status, invite, lock, req>>
    BY <1>19 DEF vars, database
  <2>2. QED
    BY <1>4, <2>1 DEF ProgressInv, MembersOfExisting, Member, Open
<1>20. ASSUME NEW r \in Request, RemoveDisable(r) PROVE ProgressInv'
  BY <1>9, <1>20 DEF RemoveDisable, ProgressInv, UnderWay
<1>21. ASSUME NEW r \in Request, LeaveDisable(r) PROVE ProgressInv'
  BY <1>9, <1>21 DEF LeaveDisable, ProgressInv, UnderWay
<1>22. ASSUME NEW r \in Request, RequestStep(r) PROVE ProgressInv'
  BY <1>5, <1>6, <1>7, <1>8, <1>10, <1>11, <1>12, <1>14, <1>15, <1>20, <1>21, <1>22
     DEF RequestStep, UpdateMemberRole, SetDefaultWorkspace
<1>23. QED
  BY <1>16, <1>17, <1>18, <1>19, <1>22 DEF Next

LEMMA ProgressInductive == Spec => [](TypeOK /\ ProgressInv)
<1>1. Init => ProgressInv
  BY DEF Init, ProgressInv, MembersOfExisting, UnderWay, Member, Open, NoInvite, Idle
<1>2. QED
  BY <1>1, ProgressStep, TypeCorrect, PTL DEF Spec

\* While its workspace has not been overtaken, neither a request that may be a
\* departure nor one that removes somebody is about its owner.
SparesOwner(s) ==
    req[s].pc # "idle" /\ req[s].ws \notin overtaken =>
        /\ req[s].pc = "resolved" /\ req[s].role # "owner" => req[s].user # owner[req[s].ws]
        /\ req[s].pc \in {"remove_checked", "disabling"} => req[s].target # owner[req[s].ws]

OwnerInv == OwnerLostOnlyWhenOvertaken /\ \A s \in Request : SparesOwner(s)

LEMMA OwnerStep ==
    TypeOK /\ ProgressInv /\ ProgressInv' /\ OwnerInv /\ [Next]_vars => OwnerInv'
<1> SUFFICES ASSUME TypeOK, ProgressInv, ProgressInv', OwnerInv, [Next]_vars PROVE OwnerInv'
  OBVIOUS
<1>0. /\ owner \in [Workspace -> User \cup {NoUser}]
      /\ role \in [Workspace -> [User -> Role]]
      /\ status \in [Workspace -> [User -> {"absent", "active", "disabled"}]]
      /\ overtaken \in SUBSET Workspace
      /\ req \in [Request -> RequestState]
  BY DEF TypeOK
\* A step of one request that moves no ownership.
<1>1. ASSUME NEW r \in Request, NEW q, req' = [req EXCEPT ![r] = q],
             UNCHANGED <<owner, overtaken>>, SparesOwner(r)', OwnerLostOnlyWhenOvertaken'
      PROVE  OwnerInv'
  <2>1. ASSUME NEW s \in Request, s # r PROVE SparesOwner(s)'
    <3>1. req'[s] = req[s] /\ SparesOwner(s)
      BY <1>0, <1>1, <2>1 DEF OwnerInv
    <3>2. QED
      BY <1>1, <3>1 DEF SparesOwner
  <2>2. QED
    BY <1>1, <2>1 DEF OwnerInv
<1>2. ASSUME NEW r \in Request, Done(r) PROVE SparesOwner(r)'
  BY <1>0, <1>2 DEF Done, SparesOwner, Idle
<1>3. ASSUME UNCHANGED <<owner, role, status, overtaken>>
      PROVE  OwnerLostOnlyWhenOvertaken'
  BY <1>3 DEF OwnerInv, OwnerLostOnlyWhenOvertaken, Member
\* The owner of a workspace that has not been overtaken has the owner's role.
<1>4. ASSUME NEW w \in Workspace, w \notin overtaken, NEW u \in User,
             Member(w, u), role[w][u] # "owner"
      PROVE  u # owner[w]
  BY <1>4 DEF OwnerInv, OwnerLostOnlyWhenOvertaken, ProgressInv, MembersOfExisting
<1>5. ASSUME NEW r \in Request, NEW u \in User, NEW w \in Workspace, ResolveScope(r, u, w)
      PROVE  OwnerInv'
  <2> DEFINE q == [Idle EXCEPT !.pc = "resolved", !.user = u, !.ws = w, !.role = role[w][u]]
  <2>1. /\ req' = [req EXCEPT ![r] = q] /\ Member(w, u)
        /\ UNCHANGED <<owner, role, status, overtaken>>
    BY <1>5 DEF ResolveScope, database, history, races
  <2>2. SparesOwner(r)'
    BY <1>0, <1>4, <2>1 DEF SparesOwner, Idle
  <2>3. QED
    BY <1>1, <1>3, <2>1, <2>2
<1>6. ASSUME NEW r \in Request, Done(r), UNCHANGED <<owner, role, status, overtaken>>
      PROVE  OwnerInv'
  BY <1>1, <1>2, <1>3, <1>6 DEF Done
<1>7. ASSUME NEW r \in Request, NEW t \in User, NEW g \in GrantableRole,
             UpdateMemberRole(r, t, g)
      PROVE  OwnerInv'
  <2>1. /\ req[r].ws \in Workspace /\ Member(req[r].ws, t) /\ role[req[r].ws][t] # "owner"
        /\ role' = [role EXCEPT ![req[r].ws][t] = g]
        /\ UNCHANGED <<owner, status, overtaken>> /\ Done(r)
    BY <1>7 DEF UpdateMemberRole, ProgressInv, UnderWay, history, races
  <2>2. OwnerLostOnlyWhenOvertaken'
    \* Only the row says who may be changed, so a former owner does no harm.
    BY <1>0, <1>4, <2>1 DEF OwnerInv, OwnerLostOnlyWhenOvertaken, Member
  <2>3. QED
    BY <1>1, <1>2, <2>1, <2>2 DEF Done
<1>8. ASSUME NEW r \in Request, NEW t \in User, RemoveCheck(r, t) PROVE OwnerInv'
  <2> DEFINE q == [req[r] EXCEPT !.pc = "remove_checked", !.target = t]
  <2>1. /\ req' = [req EXCEPT ![r] = q] /\ req[r].ws \in Workspace
        /\ Member(req[r].ws, t) /\ role[req[r].ws][t] # "owner"
        /\ UNCHANGED <<owner, role, status, overtaken>>
    BY <1>8 DEF RemoveCheck, ProgressInv, UnderWay, database, history, races
  <2>2. SparesOwner(r)'
    BY <1>0, <1>4, <2>1 DEF SparesOwner, RequestState
  <2>3. QED
    BY <1>1, <1>3, <2>1, <2>2
<1>9. ASSUME NEW r \in Request, NEW t \in User, DisableMembership(r, t),
             req[r].ws \notin overtaken => t # owner[req[r].ws]
      PROVE  OwnerInv'
  <2>1. PICK v \in RepairCandidate(req[r].ws, t) :
           req' = [req EXCEPT ![r] = [@ EXCEPT !.pc = "disabling", !.target = t, !.fallback = v]]
    BY <1>9 DEF DisableMembership
  <2> DEFINE q == [req[r] EXCEPT !.pc = "disabling", !.target = t, !.fallback = v]
  <2>2. req' = [req EXCEPT ![r] = q] /\ UNCHANGED <<owner, role, status, overtaken>>
    BY <1>9, <2>1 DEF DisableMembership, database, history, races
  <2>3. SparesOwner(r)'
    BY <1>0, <1>9, <2>2 DEF SparesOwner, RequestState
  <2>4. QED
    BY <1>1, <1>3, <2>2, <2>3
<1>10. ASSUME NEW r \in Request, RemoveDisable(r) PROVE OwnerInv'
  BY <1>9, <1>10 DEF RemoveDisable, OwnerInv, SparesOwner, ProgressInv, UnderWay
<1>11. ASSUME NEW r \in Request, LeaveDisable(r) PROVE OwnerInv'
  BY <1>9, <1>11 DEF LeaveDisable, OwnerInv, SparesOwner, ProgressInv, UnderWay
<1>12. ASSUME NEW r \in Request, CommitDisable(r) PROVE OwnerInv'
  <2>1. /\ req[r].ws \in Workspace /\ req[r].target \in User
        /\ req[r].ws \notin overtaken => req[r].target # owner[req[r].ws]
        /\ status' = [status EXCEPT ![req[r].ws][req[r].target] = "disabled"]
        /\ UNCHANGED <<owner, role, overtaken>> /\ Done(r)
    BY <1>12 DEF CommitDisable, OwnerInv, SparesOwner, ProgressInv, UnderWay
  <2>2. OwnerLostOnlyWhenOvertaken'
    BY <1>0, <2>1 DEF OwnerInv, OwnerLostOnlyWhenOvertaken, Member
  <2>3. QED
    BY <1>1, <1>2, <2>1, <2>2 DEF Done
<1>13. ASSUME NEW r \in Request, NEW t \in User, TransferOwnership(r, t) PROVE OwnerInv'
  <2> DEFINE w == req[r].ws
             u == req[r].user
  <2>1. /\ w \in Workspace /\ u \in User /\ Member(w, t) /\ RowFree(w, t)
        /\ role' = [role EXCEPT ![w][u] = "admin", ![w][t] = "owner"]
        /\ owner' = [owner EXCEPT ![w] = t]
        /\ overtaken' = Overtaken(r, t)
        /\ UNCHANGED <<status, lock>> /\ Done(r)
    BY <1>13 DEF TransferOwnership, TransferChecks, ProgressInv, UnderWay
  <2>2. OwnerLostOnlyWhenOvertaken'
    BY <1>0, <2>1 DEF OwnerInv, OwnerLostOnlyWhenOvertaken, Member, Overtaken
  <2>3. ASSUME NEW s \in Request, s # r PROVE SparesOwner(s)'
    <3>1. req'[s] = req[s] /\ SparesOwner(s) /\ UnderWay(s)
      BY <1>0, <2>1, <2>3 DEF Done, OwnerInv, ProgressInv
    <3>2. CASE req[s].ws # w \/ req[s].pc = "idle"
      BY <1>0, <2>1, <3>1, <3>2 DEF SparesOwner, UnderWay, Overtaken
    <3>3. CASE req[s].ws = w /\ w \in overtaken'
      BY <3>1, <3>3 DEF SparesOwner
    <3>4. CASE req[s].ws = w /\ w \notin overtaken' /\ req[s].pc # "idle"
      \* Nobody who relies on not being the owner is its new one: a removal
      \* under way would hold the row.
      <4>1. ~Leaving(r, s, t) /\ owner'[w] = t
        BY <1>0, <2>1, <3>4 DEF Overtaken
      <4>2. req[s].pc = "disabling" => req[s].target # t
        BY <2>1, <3>1, <3>4, SentinelAssumption DEF UnderWay, RowFree
      <4>3. QED
        BY <2>3, <3>1, <3>4, <4>1, <4>2 DEF SparesOwner, Leaving
    <3>5. QED
      BY <3>2, <3>3, <3>4
  <2>4. QED
    BY <1>2, <2>1, <2>2, <2>3 DEF OwnerInv
<1>14. ASSUME NEW r \in Request, NEW t \in User, NEW g \in GrantableRole, InviteCheck(r, t, g)
       PROVE  OwnerInv'
  <2> DEFINE q == [req[r] EXCEPT !.pc = "invite_checked", !.target = t, !.grant = g]
  <2>1. req' = [req EXCEPT ![r] = q] /\ UNCHANGED <<owner, role, status, overtaken>>
    BY <1>14 DEF InviteCheck, database, history, races
  <2>2. SparesOwner(r)'
    BY <1>0, <2>1 DEF SparesOwner, RequestState
  <2>3. QED
    BY <1>1, <1>3, <2>1, <2>2
<1>15. ASSUME NEW u \in User, NEW w \in Workspace, CreateWorkspace(u, w) PROVE OwnerInv'
  <2>1. /\ owner[w] = NoUser
        /\ owner' = [owner EXCEPT ![w] = u]
        /\ role' = [role EXCEPT ![w][u] = "owner"]
        /\ status' = [status EXCEPT ![w][u] = "active"]
        /\ UNCHANGED <<req, overtaken>>
    BY <1>15 DEF CreateWorkspace, history, races
  <2>2. OwnerLostOnlyWhenOvertaken'
    BY <1>0, <2>1 DEF OwnerInv, OwnerLostOnlyWhenOvertaken, Member
  <2>3. ASSUME NEW s \in Request PROVE SparesOwner(s)'
    \* No request is under way in a workspace that does not exist yet.
    <3>1. req'[s] = req[s] /\ SparesOwner(s) /\ UnderWay(s)
      BY <2>1 DEF OwnerInv, ProgressInv
    <3>2. req[s].pc # "idle" => owner'[req[s].ws] = owner[req[s].ws]
      BY <1>0, <2>1, <3>1 DEF UnderWay
    <3>3. QED
      BY <2>1, <3>1, <3>2 DEF SparesOwner
  <2>4. QED
    BY <2>2, <2>3 DEF OwnerInv
<1>16. ASSUME NEW u \in User, NEW w \in Workspace, AcceptInvitation(w, u) PROVE OwnerInv'
  <2>1. /\ role' = [role EXCEPT ![w][u] = RoleOnAccept(w, u)]
        /\ status' = [status EXCEPT ![w][u] = "active"]
        /\ UNCHANGED <<owner, overtaken, req>>
    BY <1>16 DEF AcceptInvitation, races
  <2>2. OwnerLostOnlyWhenOvertaken'
    \* An owner that is a member keeps its role.
    BY <1>0, <2>1 DEF OwnerInv, OwnerLostOnlyWhenOvertaken, Member, RoleOnAccept
  <2>3. QED
    BY <2>1, <2>2 DEF OwnerInv, SparesOwner
<1>17. ASSUME UNCHANGED <<owner, role, status, overtaken, req>> PROVE OwnerInv'
  BY <1>3, <1>17 DEF OwnerInv, SparesOwner
<1>18. ASSUME NEW r \in Request, RequestStep(r) PROVE OwnerInv'
  BY <1>5, <1>6, <1>7, <1>8, <1>10, <1>11, <1>12, <1>13, <1>14, <1>18
     DEF RequestStep, Rollback, SetDefaultWorkspace, InviteWrite, RevokeInvitation, Done,
         database, history, races
<1>19. QED
  BY <1>15, <1>16, <1>17, <1>18 DEF Next, ExpireInvitation, vars, database, history, races

\* With any number of requests at once, the only way in which a workspace loses
\* its owner is a transfer to a member on its way out: the checks of
\* update_workspace_member_role, remove_workspace_member and leave_workspace
\* hold out against every other stale scope.
THEOREM OwnerIsKept == Spec => []OwnerLostOnlyWhenOvertaken
<1>1. Init => OwnerInv
  BY DEF Init, OwnerInv, OwnerLostOnlyWhenOvertaken, SparesOwner, Idle
<1>2. OwnerInv => OwnerLostOnlyWhenOvertaken
  BY DEF OwnerInv
<1>3. QED
  BY <1>1, <1>2, OwnerStep, ProgressInductive, PTL DEF Spec

\* What a request under way goes by still holds for an account that has not
\* been undercut.
KeepsPromise(s) ==
    /\ req[s].pc = "resolved" /\ req[s].user \notin undercut =>
          Member(req[s].ws, req[s].user)
    /\ req[s].pc = "disabling" /\ req[s].target \notin undercut =>
          req[s].fallback \in RepairCandidate(req[s].ws, req[s].target)

DefaultInv == DefaultLostOnlyWhenUndercut /\ \A s \in Request : KeepsPromise(s)

LEMMA DefaultStep ==
    TypeOK /\ ProgressInv /\ ProgressInv' /\ DefaultInv /\ [Next]_vars => DefaultInv'
<1> SUFFICES ASSUME TypeOK, ProgressInv, ProgressInv', DefaultInv, [Next]_vars
             PROVE  DefaultInv'
  OBVIOUS
<1>0. /\ status \in [Workspace -> [User -> {"absent", "active", "disabled"}]]
      /\ default \in [User -> Workspace \cup {Personal}]
      /\ undercut \in SUBSET User
      /\ req \in [Request -> RequestState]
  BY DEF TypeOK
\* A step that ends no membership keeps what the requests go by.
<1>1. ASSUME UNCHANGED undercut,
             \A w \in Workspace, u \in User : Member(w, u) => Member(w, u)',
             NEW s \in Request, req'[s] = req[s]
      PROVE  KeepsPromise(s)'
  BY <1>1 DEF DefaultInv, KeepsPromise, ProgressInv, UnderWay, RepairCandidate, Joined
<1>2. ASSUME UNCHANGED <<undercut, default>>,
             \A w \in Workspace, u \in User : Member(w, u) => Member(w, u)'
      PROVE  DefaultLostOnlyWhenUndercut'
  BY <1>2 DEF DefaultInv, DefaultLostOnlyWhenUndercut, Joined
<1>3. ASSUME NEW r \in Request, Done(r) PROVE KeepsPromise(r)'
  BY <1>0, <1>3 DEF Done, KeepsPromise, Idle
\* A step of one request.
<1>4. ASSUME NEW r \in Request, NEW q, req' = [req EXCEPT ![r] = q], KeepsPromise(r)',
             UNCHANGED <<undercut, default>>, UNCHANGED status
      PROVE  DefaultInv'
  <2>1. \A w \in Workspace, u \in User : Member(w, u) => Member(w, u)'
    BY <1>4 DEF Member
  <2>2. \A s \in Request : s # r => req'[s] = req[s]
    BY <1>0, <1>4
  <2>3. QED
    BY <1>1, <1>2, <1>4, <2>1, <2>2 DEF DefaultInv
<1>5. ASSUME NEW r \in Request, NEW u \in User, NEW w \in Workspace, ResolveScope(r, u, w)
      PROVE  DefaultInv'
  <2> DEFINE q == [Idle EXCEPT !.pc = "resolved", !.user = u, !.ws = w, !.role = role[w][u]]
  <2>1. req' = [req EXCEPT ![r] = q] /\ Member(w, u) /\ UNCHANGED <<undercut, default, status>>
    BY <1>5 DEF ResolveScope, database, history, races
  <2>2. KeepsPromise(r)'
    BY <1>0, <2>1 DEF KeepsPromise, Idle, Member
  <2>3. QED
    BY <1>4, <2>1, <2>2
<1>6. ASSUME NEW r \in Request, Done(r), UNCHANGED <<undercut, default, status>>
      PROVE  DefaultInv'
  BY <1>3, <1>4, <1>6 DEF Done
<1>7. ASSUME NEW r \in Request, NEW t \in User, RemoveCheck(r, t) PROVE DefaultInv'
  <2> DEFINE q == [req[r] EXCEPT !.pc = "remove_checked", !.target = t]
  <2>1. req' = [req EXCEPT ![r] = q] /\ UNCHANGED <<undercut, default, status>>
    BY <1>7 DEF RemoveCheck, database, history, races
  <2>2. KeepsPromise(r)'
    BY <1>0, <2>1 DEF KeepsPromise, RequestState
  <2>3. QED
    BY <1>4, <2>1, <2>2
<1>8. ASSUME NEW r \in Request, NEW t \in User, NEW g \in GrantableRole, InviteCheck(r, t, g)
      PROVE  DefaultInv'
  <2> DEFINE q == [req[r] EXCEPT !.pc = "invite_checked", !.target = t, !.grant = g]
  <2>1. req' = [req EXCEPT ![r] = q] /\ UNCHANGED <<undercut, default, status>>
    BY <1>8 DEF InviteCheck, database, history, races
  <2>2. KeepsPromise(r)'
    BY <1>0, <2>1 DEF KeepsPromise, RequestState
  <2>3. QED
    BY <1>4, <2>1, <2>2
<1>9. ASSUME NEW r \in Request, NEW t \in User, DisableMembership(r, t) PROVE DefaultInv'
  <2>1. PICK v \in RepairCandidate(req[r].ws, t) :
           req' = [req EXCEPT ![r] = [@ EXCEPT !.pc = "disabling", !.target = t, !.fallback = v]]
    BY <1>9 DEF DisableMembership
  <2> DEFINE q == [req[r] EXCEPT !.pc = "disabling", !.target = t, !.fallback = v]
  <2>2. req' = [req EXCEPT ![r] = q] /\ UNCHANGED <<undercut, default, status>>
    BY <1>9, <2>1 DEF DisableMembership, database, history, races
  <2>3. KeepsPromise(r)'
    <3>1. req'[r] = q /\ q.pc = "disabling" /\ q.ws = req[r].ws /\ q.target = t /\ q.fallback = v
      BY <1>0, <2>2 DEF RequestState
    <3>2. RepairCandidate(req[r].ws, t)' = RepairCandidate(req[r].ws, t)
      BY <2>2, <3>1 DEF RepairCandidate, Joined, Member
    <3>3. QED
      BY <2>1, <3>1, <3>2 DEF KeepsPromise, RepairCandidate, Joined, Member
  <2>4. QED
    BY <1>4, <2>2, <2>3
<1>10. ASSUME NEW r \in Request, CommitDisable(r) PROVE DefaultInv'
  <2> DEFINE w == req[r].ws
             u == req[r].target
  <2>1. /\ w \in Workspace /\ u \in User /\ lock[w][u] = r /\ req[r].pc = "disabling"
        /\ status' = [status EXCEPT ![w][u] = "disabled"]
        /\ default' = [default EXCEPT ![u] = IF @ = w THEN req[r].fallback ELSE @]
        /\ undercut' = Undercut(r) /\ Done(r)
        /\ u \notin undercut => req[r].fallback \in RepairCandidate(w, u)
    BY <1>10 DEF CommitDisable, ProgressInv, UnderWay, DefaultInv, KeepsPromise
  <2>2. \A x \in Workspace, y \in User :
           Member(x, y)' <=> Member(x, y) /\ ~(x = w /\ y = u)
    BY <1>0, <2>1 DEF Member
  <2>3. undercut \subseteq undercut' /\ undercut' \subseteq User
    BY <1>0, <2>1 DEF Undercut
  <2>4. ASSUME NEW y \in User, y \notin undercut'
        PROVE  default'[y] \in (Joined(y) \cup {Personal})'
    <3>1. CASE y # u
      BY <1>0, <2>1, <2>2, <2>3, <2>4, <3>1 DEF DefaultInv, DefaultLostOnlyWhenUndercut, Joined
    <3>2. CASE y = u
      <4>1. Joined(y)' = Joined(y) \ {w}
        BY <2>1, <2>2, <3>2 DEF Joined
      <4>2. y \notin undercut
        BY <2>3, <2>4
      <4>3. QED
        BY <1>0, <2>1, <3>2, <4>1, <4>2
           DEF DefaultInv, DefaultLostOnlyWhenUndercut, RepairCandidate
    <3>3. QED
      BY <3>1, <3>2
  <2>5. ASSUME NEW s \in Request, s # r PROVE KeepsPromise(s)'
    <3>1. req'[s] = req[s] /\ KeepsPromise(s) /\ UnderWay(s)
      BY <1>0, <2>1, <2>5 DEF Done, DefaultInv, ProgressInv
    <3>2. u \notin undercut' => ~Undercuts(r, s)
      BY <2>1 DEF Undercut
    <3>3. ASSUME req[s].pc = "resolved", req[s].user \notin undercut'
          PROVE  Member(req[s].ws, req[s].user)'
      BY <2>2, <2>3, <2>5, <3>1, <3>2, <3>3 DEF KeepsPromise, UnderWay, Undercuts
    <3>4. ASSUME req[s].pc = "disabling", req[s].target \notin undercut'
          PROVE  req[s].fallback \in RepairCandidate(req[s].ws, req[s].target)'
      <4>1. req[s].fallback \in RepairCandidate(req[s].ws, req[s].target)
        BY <2>3, <3>1, <3>4 DEF KeepsPromise
      <4>2. req[s].target = u => req[s].fallback # w
        BY <2>5, <3>2, <3>4 DEF Undercuts
      <4>3. req[s].target \in User
        BY <3>1, <3>4 DEF UnderWay
      <4>4. QED
        BY <2>2, <3>1, <4>1, <4>2, <4>3 DEF RepairCandidate, Joined
    <3>5. QED
      BY <3>1, <3>3, <3>4 DEF KeepsPromise, RepairCandidate, Joined, Member
  <2>6. QED
    BY <1>3, <2>1, <2>4, <2>5 DEF DefaultInv, DefaultLostOnlyWhenUndercut
<1>11. ASSUME NEW r \in Request, SetDefaultWorkspace(r) PROVE DefaultInv'
  <2>1. /\ req[r].ws \in Workspace /\ req[r].user \in User
        /\ req[r].user \notin undercut => Member(req[r].ws, req[r].user)
        /\ default' = [default EXCEPT ![req[r].user] = req[r].ws]
        /\ UNCHANGED <<status, undercut>> /\ Done(r)
    BY <1>11 DEF SetDefaultWorkspace, ProgressInv, UnderWay, DefaultInv, KeepsPromise,
                 history, races
  <2>2. DefaultLostOnlyWhenUndercut'
    BY <1>0, <2>1 DEF DefaultInv, DefaultLostOnlyWhenUndercut, Joined, Member
  <2>3. \A s \in Request : s # r => req'[s] = req[s]
    BY <1>0, <2>1 DEF Done
  <2>4. QED
    BY <1>1, <1>3, <2>1, <2>2, <2>3 DEF DefaultInv, Member
\* A step of no request, which makes members at most.
<1>12. ASSUME UNCHANGED <<req, undercut, default>>,
              \A w \in Workspace, u \in User : Member(w, u) => Member(w, u)'
       PROVE  DefaultInv'
  BY <1>1, <1>2, <1>12 DEF DefaultInv
<1>13. ASSUME NEW u \in User, NEW w \in Workspace,
              CreateWorkspace(u, w) \/ AcceptInvitation(w, u)
       PROVE  DefaultInv'
  <2>1. UNCHANGED <<req, undercut, default>> /\ status' = [status EXCEPT ![w][u] = "active"]
    BY <1>13 DEF CreateWorkspace, AcceptInvitation, history, races
  <2>2. \A x \in Workspace, y \in User : Member(x, y) => Member(x, y)'
    BY <1>0, <2>1 DEF Member
  <2>3. QED
    BY <1>12, <2>1, <2>2
<1>14. ASSUME UNCHANGED <<req, undercut, default, status>> PROVE DefaultInv'
  BY <1>12, <1>14 DEF Member
<1>15. ASSUME NEW r \in Request, RequestStep(r) PROVE DefaultInv'
  BY <1>5, <1>6, <1>7, <1>8, <1>9, <1>10, <1>11, <1>15
     DEF RequestStep, Rollback, UpdateMemberRole, RemoveDisable, LeaveDisable,
         TransferOwnership, InviteWrite, RevokeInvitation, Done, ProgressInv, UnderWay,
         database, history, races
<1>16. QED
  BY <1>13, <1>14, <1>15 DEF Next, ExpireInvitation, vars, database, history, races

\* With any number of requests at once, _repair_default_workspace leaves no
\* default that its account cannot open, unless a membership of that account
\* ends while another request goes by it.
THEOREM DefaultIsKept == Spec => []DefaultLostOnlyWhenUndercut
<1>1. Init => DefaultInv
  BY DEF Init, DefaultInv, DefaultLostOnlyWhenUndercut, KeepsPromise, Idle
<1>2. DefaultInv => DefaultLostOnlyWhenUndercut
  BY DEF DefaultInv
<1>3. QED
  BY <1>1, <1>2, DefaultStep, ProgressInductive, PTL DEF Spec
=============================================================================
