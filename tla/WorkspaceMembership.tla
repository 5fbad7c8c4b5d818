------------------------ MODULE WorkspaceMembership ------------------------
(***************************************************************************)
(* Membership of team workspaces: app/access_control.py and the request    *)
(* handlers of app/main.py that call it.                                   *)
(*                                                                         *)
(* Every handler first resolves an AccessScope in a transaction of its own *)
(* (request_scope) and then calls one function, which opens a second       *)
(* transaction.  The scope is a snapshot: the role in it may be out of     *)
(* date when the function uses it.  PostgreSQL runs at READ COMMITTED, so  *)
(* a transaction reads what is committed when each statement starts, and   *)
(* an UPDATE waits for the row lock of a concurrent writer.                *)
(*                                                                         *)
(* A function whose statements cannot be told apart from one step (one     *)
(* UPDATE, or a SELECT ... FOR UPDATE of all it writes) is one action; the *)
(* others take one action per statement, and their writes appear when they *)
(* commit.  The personal workspace each account is created with cannot be  *)
(* shared, left or transferred: it is the value Personal.                  *)
(***************************************************************************)
CONSTANTS
    User,            \* accounts; an account stands for its e-mail address
    Workspace,       \* team workspaces that exist or may be created
    Request,         \* handlers that run at the same time
    Token,           \* invitation tokens; one is drawn for each invitation
    WorkspaceName,   \* the normalized name of each workspace
    Personal,        \* an account's own personal workspace
    NoUser, NoToken, NoRequest

ASSUME SentinelAssumption ==
    /\ NoUser \notin User
    /\ NoToken \notin Token
    /\ NoRequest \notin Request
    /\ Personal \notin Workspace

Role == {"owner", "admin", "editor", "viewer"}
GrantableRole == {"admin", "editor", "viewer"}
Manager == {"owner", "admin"}

VARIABLES
    owner,       \* workspaces.owner_user_id, NoUser while the row does not exist
    role,        \* workspace_members.role
    status,      \* workspace_members.status, "absent" while there is no row
    invite,      \* the open row of workspace_invitations per workspace and address
    issued,      \* what each token was drawn for (history)
    consumed,    \* the tokens an account has joined with (history)
    overtaken,   \* workspaces transferred to a member on its way out (history)
    undercut,    \* accounts that lost what another request went by (history)
    default,     \* users.default_workspace_id
    lock,        \* the request that holds the row lock of a membership
    req          \* the progress and the scope of each request

database == <<owner, role, status, invite, default>>
tokens == <<issued, consumed>>
races == <<overtaken, undercut>>
history == <<tokens, races>>
vars == <<database, history, lock, req>>

NoInvite == [token |-> NoToken, role |-> "viewer", expired |-> FALSE]
NoIssue == [ws |-> Personal, user |-> NoUser, role |-> "viewer"]

Idle == [pc |-> "idle", user |-> NoUser, ws |-> Personal, role |-> "viewer",
         target |-> NoUser, grant |-> "viewer", fallback |-> Personal]

InviteRow == [token : Token \cup {NoToken}, role : GrantableRole, expired : BOOLEAN]

RequestState ==
    [pc : {"idle", "resolved", "remove_checked", "disabling", "invite_checked"},
     user : User \cup {NoUser}, ws : Workspace \cup {Personal}, role : Role,
     target : User \cup {NoUser}, grant : GrantableRole,
     fallback : Workspace \cup {Personal}]

TypeOK ==
    /\ owner \in [Workspace -> User \cup {NoUser}]
    /\ role \in [Workspace -> [User -> Role]]
    /\ status \in [Workspace -> [User -> {"absent", "active", "disabled"}]]
    /\ invite \in [Workspace -> [User -> InviteRow]]
    /\ issued \in [Token -> [ws : Workspace \cup {Personal},
                             user : User \cup {NoUser}, role : GrantableRole]]
    /\ consumed \in SUBSET Token
    /\ overtaken \in SUBSET Workspace /\ undercut \in SUBSET User
    /\ default \in [User -> Workspace \cup {Personal}]
    /\ lock \in [Workspace -> [User -> Request \cup {NoRequest}]]
    /\ req \in [Request -> RequestState]

Init ==
    /\ owner = [w \in Workspace |-> NoUser]
    /\ role = [w \in Workspace |-> [u \in User |-> "viewer"]]
    /\ status = [w \in Workspace |-> [u \in User |-> "absent"]]
    /\ invite = [w \in Workspace |-> [u \in User |-> NoInvite]]
    /\ issued = [t \in Token |-> NoIssue]
    /\ consumed = {} /\ overtaken = {} /\ undercut = {}
    /\ default = [u \in User |-> Personal]
    /\ lock = [w \in Workspace |-> [u \in User |-> NoRequest]]
    /\ req = [r \in Request |-> Idle]

Member(w, u) == status[w][u] = "active"
Joined(u) == {w \in Workspace : Member(w, u)}
Open(w, u) == invite[w][u].token # NoToken
RowFree(w, u) == lock[w][u] = NoRequest
NameTaken(u, w) ==
    \E v \in Workspace \ {w} : owner[v] = u /\ WorkspaceName[v] = WorkspaceName[w]

(***************************************************************************)
(* Requests: resolving the scope, and ending without an effect.            *)
(***************************************************************************)

\* request_scope reads the caller's active membership and keeps its role.
ResolveScope(r, u, w) ==
    /\ req[r].pc = "idle"
    /\ Member(w, u)
    /\ req' = [req EXCEPT ![r] = [Idle EXCEPT !.pc = "resolved", !.user = u,
                                              !.ws = w, !.role = role[w][u]]]
    /\ UNCHANGED <<database, history, lock>>

\* A guard of the function refuses, or an exception or a lost connection rolls
\* the transaction back: no write is seen and the row locks are released.
Rollback(r) ==
    /\ req[r].pc # "idle"
    /\ req' = [req EXCEPT ![r] = Idle]
    /\ lock' = [w \in Workspace |-> [u \in User |->
                    IF lock[w][u] = r THEN NoRequest ELSE lock[w][u]]]
    /\ UNCHANGED <<database, history>>

Done(r) == req' = [req EXCEPT ![r] = Idle]

(***************************************************************************)
(* Workspaces and their members.                                           *)
(***************************************************************************)

\* The workspace row and its owner's membership are inserted in one
\* transaction; an owner may not have two workspaces of one name.
CreateWorkspace(u, w) ==
    /\ owner[w] = NoUser
    /\ ~NameTaken(u, w)
    /\ owner' = [owner EXCEPT ![w] = u]
    /\ role' = [role EXCEPT ![w][u] = "owner"]
    /\ status' = [status EXCEPT ![w][u] = "active"]
    /\ UNCHANGED <<invite, default, history, lock, req>>

\* Mutant: the row that is changed may be the owner's.
UpdateAnyRole(r, target, grant) ==
    LET w == req[r].ws IN
    /\ req[r].pc = "resolved"
    /\ req[r].role = "owner" /\ target # req[r].user
    /\ RowFree(w, target)
    /\ Member(w, target)
    /\ role' = [role EXCEPT ![w][target] = grant]
    /\ Done(r)
    /\ UNCHANGED <<owner, status, invite, default, history, lock>>

\* One UPDATE, guarded by the row it changes: never the owner's.
UpdateMemberRole(r, target, grant) ==
    LET w == req[r].ws IN
    /\ req[r].pc = "resolved"
    /\ req[r].role = "owner"
    /\ RowFree(w, target)
    /\ Member(w, target)
    /\ role[w][target] # "owner"
    /\ role' = [role EXCEPT ![w][target] = grant]
    /\ Done(r)
    /\ UNCHANGED <<owner, status, invite, default, history, lock>>

\* remove_workspace_member reads the target's role without locking the row.
RemoveCheck(r, target) ==
    LET w == req[r].ws IN
    /\ req[r].pc = "resolved"
    /\ req[r].role \in Manager
    /\ target # req[r].user
    /\ Member(w, target)
    /\ role[w][target] # "owner"
    /\ ~(req[r].role = "admin" /\ role[w][target] = "admin")
    /\ req' = [req EXCEPT ![r] = [@ EXCEPT !.pc = "remove_checked", !.target = target]]
    /\ UNCHANGED <<database, history, lock>>

\* Mutant: no personal workspace to fall back on.
RepairToNull(w, u) == (Joined(u) \ {w}) \cup {NoUser}

\* What _repair_default_workspace may replace an unreachable default with: the
\* order of joining, which picks one of them, is left open.
RepairCandidate(w, u) == (Joined(u) \ {w}) \cup {Personal}

\* The UPDATE takes the row lock, and the transaction reads the replacement.
DisableMembership(r, target) ==
    LET w == req[r].ws IN
    /\ RowFree(w, target)
    /\ lock' = [lock EXCEPT ![w][target] = r]
    /\ \E v \in RepairCandidate(w, target) :
           req' = [req EXCEPT ![r] = [@ EXCEPT !.pc = "disabling", !.target = target,
                                               !.fallback = v]]
    /\ UNCHANGED <<database, history>>

RemoveDisable(r) ==
    /\ req[r].pc = "remove_checked"
    /\ DisableMembership(r, req[r].target)

\* Mutant: an owner may leave.
LeaveUnchecked(r) ==
    /\ req[r].pc = "resolved"
    /\ DisableMembership(r, req[r].user)

\* leave_workspace refuses an owner, going by the role of its scope.
LeaveDisable(r) ==
    /\ req[r].pc = "resolved"
    /\ req[r].role # "owner"
    /\ DisableMembership(r, req[r].user)

\* Another request goes by a membership that r is about to end: the scope it
\* was given, or the replacement it has picked for the account's default.
Undercuts(r, q) ==
    /\ q # r
    /\ \/ /\ req[q].pc = "resolved"
          /\ req[q].user = req[r].target /\ req[q].ws = req[r].ws
       \/ /\ req[q].pc = "disabling"
          /\ req[q].target = req[r].target /\ req[q].fallback = req[r].ws
Undercut(r) ==
    undercut \cup {u \in User : u = req[r].target /\ \E q \in Request : Undercuts(r, q)}

\* Mutant: the default workspace is not repaired.
CommitWithoutRepair(r) ==
    LET w == req[r].ws
        u == req[r].target IN
    /\ req[r].pc = "disabling"
    /\ status' = [status EXCEPT ![w][u] = "disabled"]
    /\ lock' = [lock EXCEPT ![w][u] = NoRequest]
    /\ Done(r)
    /\ undercut' = Undercut(r)
    /\ UNCHANGED <<owner, role, default, invite, tokens, overtaken>>

\* The commit of a removal or of a departure, with the default it repairs.
CommitDisable(r) ==
    LET w == req[r].ws
        u == req[r].target IN
    /\ req[r].pc = "disabling"
    /\ status' = [status EXCEPT ![w][u] = "disabled"]
    /\ default' = [default EXCEPT ![u] = IF @ = w THEN req[r].fallback ELSE @]
    /\ lock' = [lock EXCEPT ![w][u] = NoRequest]
    /\ Done(r)
    /\ undercut' = Undercut(r)
    /\ UNCHANGED <<owner, role, invite, tokens, overtaken>>

\* Mutants of the checks of a transfer: the owner is the one of the scope; the
\* target may own a workspace of the name.
TransferByScope(w, u, target) == Member(w, target) /\ ~NameTaken(target, w)
TransferAnyName(w, u, target) == owner[w] = u /\ Member(w, target)

\* What transfer_workspace_ownership checks of the workspace row and of the
\* target's row after it has locked both.
TransferChecks(w, u, target) ==
    owner[w] = u /\ Member(w, target) /\ ~NameTaken(target, w)

\* The target of a transfer is on its way out: a request of its own, which does
\* not know it as owner, may be a departure, or its removal has been checked.
Leaving(r, q, target) ==
    /\ q # r /\ req[q].ws = req[r].ws
    /\ \/ req[q].pc = "resolved" /\ req[q].user = target /\ req[q].role # "owner"
       \/ req[q].pc = "remove_checked" /\ req[q].target = target
Overtaken(r, target) ==
    overtaken \cup {w \in Workspace : w = req[r].ws /\ \E q \in Request : Leaving(r, q, target)}

\* Both rows stay locked, so the checks still hold when it writes.
TransferOwnership(r, target) ==
    LET w == req[r].ws
        u == req[r].user IN
    /\ req[r].pc = "resolved"
    /\ req[r].role = "owner"
    /\ target # u
    /\ RowFree(w, u) /\ RowFree(w, target)
    /\ TransferChecks(w, u, target)
    /\ role' = [role EXCEPT ![w][u] = "admin", ![w][target] = "owner"]
    /\ owner' = [owner EXCEPT ![w] = target]
    /\ overtaken' = Overtaken(r, target)
    /\ Done(r)
    /\ UNCHANGED <<status, invite, default, tokens, undercut, lock>>

\* set_default_workspace checks the membership in one statement (here the one
\* of ResolveScope) and writes in the next.
SetDefaultWorkspace(r) ==
    /\ req[r].pc = "resolved"
    /\ default' = [default EXCEPT ![req[r].user] = req[r].ws]
    /\ Done(r)
    /\ UNCHANGED <<owner, role, status, invite, history, lock>>

(***************************************************************************)
(* Invitations.                                                            *)
(***************************************************************************)

InviteCheck(r, invitee, grant) ==
    /\ req[r].pc = "resolved"
    /\ req[r].role \in Manager
    /\ ~(req[r].role = "admin" /\ grant = "admin")
    /\ ~Member(req[r].ws, invitee)
    /\ req' = [req EXCEPT ![r] = [@ EXCEPT !.pc = "invite_checked", !.target = invitee,
                                        !.grant = grant]]
    /\ UNCHANGED <<database, history, lock>>

\* Mutant: on conflict the row keeps the token it had.
InviteKeepsToken(r, t) ==
    LET w == req[r].ws
        u == req[r].target IN
    /\ req[r].pc = "invite_checked"
    /\ issued[t] = NoIssue
    /\ invite' = [invite EXCEPT ![w][u] =
                     [token |-> IF Open(w, u) THEN @.token ELSE t,
                      role |-> req[r].grant, expired |-> FALSE]]
    /\ issued' = [issued EXCEPT ![t] = [ws |-> w, user |-> u, role |-> req[r].grant]]
    /\ Done(r)
    /\ UNCHANGED <<owner, role, status, default, consumed, races, lock>>

\* INSERT ... ON CONFLICT: an open invitation of the same address is
\* overwritten, its token and its expiry with it.
InviteWrite(r, t) ==
    LET w == req[r].ws
        u == req[r].target IN
    /\ req[r].pc = "invite_checked"
    /\ issued[t] = NoIssue
    /\ invite' = [invite EXCEPT ![w][u] =
                     [token |-> t, role |-> req[r].grant, expired |-> FALSE]]
    /\ issued' = [issued EXCEPT ![t] = [ws |-> w, user |-> u, role |-> req[r].grant]]
    /\ Done(r)
    /\ UNCHANGED <<owner, role, status, default, consumed, races, lock>>

RevokeInvitation(r, invitee) ==
    /\ req[r].pc = "resolved"
    /\ req[r].role \in Manager
    /\ Open(req[r].ws, invitee)
    /\ invite' = [invite EXCEPT ![req[r].ws][invitee] = NoInvite]
    /\ Done(r)
    /\ UNCHANGED <<owner, role, status, default, history, lock>>

\* Seven days pass; the row stays open for the unique index of its address.
ExpireInvitation(w, u) ==
    /\ Open(w, u)
    /\ ~invite[w][u].expired
    /\ invite' = [invite EXCEPT ![w][u] = [invite[w][u] EXCEPT !.expired = TRUE]]
    /\ UNCHANGED <<owner, role, status, default, history, lock, req>>

\* Mutant: the invited role replaces the one an active member has.
InvitedRole(w, u) == invite[w][u].role

\* The role an account holds once it has accepted: an active member keeps its
\* own, a disabled one rejoins with the invited one.
RoleOnAccept(w, u) == IF Member(w, u) THEN role[w][u] ELSE invite[w][u].role

\* accept_workspace_invitation locks the invitation and the membership.
AcceptInvitation(w, u) ==
    /\ Open(w, u)
    /\ ~invite[w][u].expired
    /\ RowFree(w, u)
    /\ role' = [role EXCEPT ![w][u] = RoleOnAccept(w, u)]
    /\ status' = [status EXCEPT ![w][u] = "active"]
    /\ invite' = [invite EXCEPT ![w][u] = NoInvite]
    /\ consumed' = consumed \cup {invite[w][u].token}
    /\ UNCHANGED <<owner, default, issued, races, lock, req>>

(***************************************************************************)
(* The specification.                                                      *)
(***************************************************************************)

RequestStep(r) ==
    \/ \E u \in User, w \in Workspace : ResolveScope(r, u, w)
    \/ Rollback(r)
    \/ \E t \in User, g \in GrantableRole : UpdateMemberRole(r, t, g)
    \/ \E t \in User : RemoveCheck(r, t)
    \/ RemoveDisable(r)
    \/ LeaveDisable(r)
    \/ CommitDisable(r)
    \/ \E t \in User : TransferOwnership(r, t)
    \/ SetDefaultWorkspace(r)
    \/ \E t \in User, g \in GrantableRole : InviteCheck(r, t, g)
    \/ \E t \in Token : InviteWrite(r, t)
    \/ \E t \in User : RevokeInvitation(r, t)

Next ==
    \/ \E r \in Request : RequestStep(r)
    \/ \E u \in User, w \in Workspace :
          \/ CreateWorkspace(u, w)
          \/ ExpireInvitation(w, u)
          \/ AcceptInvitation(w, u)

Spec == Init /\ [][Next]_vars

(***************************************************************************)
(* Properties.                                                             *)
(***************************************************************************)

\* Whoever holds an active owner membership is the owner the workspace row
\* records, whatever requests overlap.  The unique index on active owners of
\* create_access_control_schema is therefore never hit by these functions.
OwnerRowIsRecorded ==
    \A w \in Workspace, u \in User :
        Member(w, u) /\ role[w][u] = "owner" => owner[w] = u

\* "有效 owner 唯一": no workspace has two active owners.
AtMostOneActiveOwner ==
    \A w \in Workspace, u, v \in User :
        /\ Member(w, u) /\ role[w][u] = "owner"
        /\ Member(w, v) /\ role[w][v] = "owner"
        => u = v

\* No account owns two workspaces of the same name, though both a creation and
\* a transfer can bring one in.
OwnedNamesDiffer ==
    \A v, w \in Workspace :
        /\ v # w
        /\ owner[v] = owner[w]
        /\ owner[v] # NoUser
        => WorkspaceName[v] # WorkspaceName[w]

\* An open invitation carries the token, the address and the role it was last
\* sent with, and no token that has been used: an overwritten, revoked or
\* accepted link is dead.
OpenInvitationIsCurrent ==
    \A w \in Workspace, u \in User : Open(w, u) =>
        /\ issued[invite[w][u].token] = [ws |-> w, user |-> u, role |-> invite[w][u].role]
        /\ invite[w][u].token \notin consumed

\* Accepting an invitation never changes the role of an account that is
\* already an active member (it may have joined after the invitation was
\* checked and before it was written).
AcceptKeepsRoles ==
    \A w \in Workspace, u \in User :
        Member(w, u) /\ consumed' # consumed => role'[w][u] = role[w][u]

AcceptKeepsStandingRole == [][AcceptKeepsRoles]_vars

\* "owner 必须先转移所有权，不能直接退出空间": the recorded owner of every
\* workspace is one of its active members and holds the owner role.
EveryWorkspaceHasActiveOwner ==
    \A w \in Workspace : owner[w] # NoUser =>
        Member(w, owner[w]) /\ role[w][owner[w]] = "owner"

\* Whatever requests overlap, a workspace loses its owner in one way only: by a
\* transfer to a member whose own departure or removal was already under way.
\* A caller that was demoted or removed meanwhile, a promotion, a return after
\* a dismissal or a second transfer never costs it the owner.
OwnerLostOnlyWhenOvertaken ==
    \A w \in Workspace \ overtaken : owner[w] # NoUser =>
        Member(w, owner[w]) /\ role[w][owner[w]] = "owner"

\* Whatever requests overlap, an account keeps a default workspace it can open
\* unless one of its memberships ended while another request went by it:
\* _repair_default_workspace leaves nothing else behind.
DefaultLostOnlyWhenUndercut ==
    \A u \in User \ undercut : default[u] \in Joined(u) \cup {Personal}

\* "目标必须来自当前用户有效成员关系": the default workspace of an account is one it
\* can open.
DefaultIsReachable ==
    \A u \in User : default[u] \in Joined(u) \cup {Personal}
=============================================================================
