---------------------------- MODULE DataHandover ----------------------------
(***************************************************************************)
(* Handing over everything an account has: create_data_handover and        *)
(* accept_data_handover of app/auth.py, and the requests they meet.        *)
(*                                                                         *)
(* Both functions lock rows of users and of user_data_handovers, and they  *)
(* keep the locks until they commit.  A row that names a user in a foreign *)
(* key can only be written while no other transaction has that user's row  *)
(* locked for update, so an account creates nothing and joins nothing      *)
(* between the moment a handover locks it and its commit.  Afterwards it   *)
(* can: a request that was authenticated before goes on.                   *)
(*                                                                         *)
(* A resource is a workspace, a document or a code project, all of which   *)
(* have an owner; a share is a workspace owned by somebody else, in which  *)
(* an account has a role.  Roles are their numbers in role_rank.  The rows *)
(* of code_project_access move as those of workspace_members do; nothing   *)
(* in app/ grants one.  Transfers by hand are in WorkspaceMembership,      *)
(* sessions in AuthSessions.                                               *)
(***************************************************************************)
EXTENDS Integers

CONSTANTS
    User, Token, Request, Resource, Share,
    Rank,                        \* the roles below owner, as numbers
    NoUser, NoToken, NoRequest

ASSUME SentinelAssumption ==
    NoUser \notin User /\ NoToken \notin Token /\ NoRequest \notin Request

ASSUME RankAssumption == Rank \subseteq Nat \ {0}

VARIABLES
    status,      \* users.status, "absent" before the account is registered
    userLock,    \* the request that has the row of users locked for update
    token,       \* the rows of user_data_handovers
    tokenLock,   \* the request that has the row locked for update
    latest,      \* the token an account created last (history)
    owner,       \* owner_user_id of the resources
    grant,       \* the rows of workspace_members
    late,        \* what a disabled account still wrote (history)
    req

vars == <<status, userLock, token, tokenLock, latest, owner, grant, late, req>>

NoRow == [source |-> NoUser, target |-> NoUser, state |-> "none"]
Idle == [pc |-> "idle", user |-> NoUser, token |-> NoToken, inherits |-> [g \in Share |-> 0]]

TokenRow ==
    {NoRow} \cup
    [source : User, target : User, state : {"open", "expired", "revoked", "accepted"}]

RequestState ==
    [pc : {"idle", "authenticated", "creating", "accepting", "moving"},
     user : User \cup {NoUser}, token : Token \cup {NoToken},
     inherits : [Share -> Rank \cup {0}]]

TypeOK ==
    /\ status \in [User -> {"absent", "active", "disabled"}]
    /\ userLock \in [User -> Request \cup {NoRequest}]
    /\ token \in [Token -> TokenRow]
    /\ tokenLock \in [Token -> Request \cup {NoRequest}]
    /\ latest \in [User -> Token \cup {NoToken}]
    /\ owner \in [Resource -> User \cup {NoUser}]
    /\ grant \in [Share -> [User -> [rank : Rank \cup {0},
                                     status : {"absent", "active", "disabled"}]]]
    /\ late \subseteq Resource \cup (Share \X User)
    /\ req \in [Request -> RequestState]

Init ==
    /\ status = [u \in User |-> "absent"]
    /\ userLock = [u \in User |-> NoRequest]
    /\ token = [t \in Token |-> NoRow]
    /\ tokenLock = [t \in Token |-> NoRequest]
    /\ latest = [u \in User |-> NoToken]
    /\ owner = [x \in Resource |-> NoUser]
    /\ grant = [g \in Share |-> [u \in User |-> [rank |-> 0, status |-> "absent"]]]
    /\ late = {}
    /\ req = [r \in Request |-> Idle]

Active(u) == status[u] = "active"
Holds(g, u) == grant[g][u].status = "active"
RowFree(u) == userLock[u] = NoRequest

\* The request commits or rolls back: its locks go, and so does its progress.
Release(r) ==
    /\ req' = [req EXCEPT ![r] = Idle]
    /\ userLock' = [u \in User |-> IF userLock[u] = r THEN NoRequest ELSE userLock[u]]
    /\ tokenLock' = [t \in Token |-> IF tokenLock[t] = r THEN NoRequest ELSE tokenLock[t]]

(***************************************************************************)
(* The requests around a handover.                                         *)
(***************************************************************************)

\* register_user without a handover token.
Register(u) ==
    /\ status[u] = "absent"
    /\ RowFree(u)
    /\ status' = [status EXCEPT ![u] = "active"]
    /\ UNCHANGED <<userLock, token, tokenLock, latest, owner, grant, late, req>>

\* The middleware authenticates; the request acts in a later transaction.
Authenticate(r, u) ==
    /\ req[r].pc = "idle"
    /\ Active(u)
    /\ req' = [req EXCEPT ![r] = [Idle EXCEPT !.pc = "authenticated", !.user = u]]
    /\ UNCHANGED <<status, userLock, token, tokenLock, latest, owner, grant, late>>

\* A refusal, an exception, a lost connection, or the victim of a deadlock
\* that PostgreSQL has found: nothing is written.
Rollback(r) ==
    /\ req[r].pc # "idle"
    /\ Release(r)
    /\ UNCHANGED <<status, token, latest, owner, grant, late>>

\* The request inserts a workspace, a document or a project of its account.
\* Nothing asks for the status of the account again.
CreateResource(r, x) ==
    LET u == req[r].user IN
    /\ req[r].pc = "authenticated"
    /\ owner[x] = NoUser
    /\ RowFree(u)
    /\ owner' = [owner EXCEPT ![x] = u]
    /\ late' = late \cup {y \in {x} : ~Active(u)}
    /\ Release(r)
    /\ UNCHANGED <<status, token, latest, grant>>

\* accept_workspace_invitation; it writes the row of users last.
Join(r, g, k) ==
    LET u == req[r].user IN
    /\ req[r].pc = "authenticated"
    /\ ~Holds(g, u)
    /\ RowFree(u)
    /\ grant' = [grant EXCEPT ![g][u] = [rank |-> k, status |-> "active"]]
    /\ late' = late \cup {y \in {<<g, u>>} : ~Active(u)}
    /\ Release(r)
    /\ UNCHANGED <<status, token, latest, owner>>

\* A manager of the share changes a role or ends a membership.
Regrade(g, u, k) ==
    /\ Holds(g, u)
    /\ grant' = [grant EXCEPT ![g][u] = [rank |-> k, status |-> "active"]]
    /\ UNCHANGED <<status, userLock, token, tokenLock, latest, owner, late, req>>

Dismiss(g, u) ==
    /\ Holds(g, u)
    /\ grant' = [grant EXCEPT ![g][u] = [rank |-> grant[g][u].rank, status |-> "disabled"]]
    /\ UNCHANGED <<status, userLock, token, tokenLock, latest, owner, late, req>>

(***************************************************************************)
(* create_data_handover.                                                   *)
(***************************************************************************)

\* The source's row is locked, and its status and password are checked.
CreateLock(r) ==
    LET u == req[r].user IN
    /\ req[r].pc = "authenticated"
    /\ RowFree(u)
    /\ Active(u)
    /\ userLock' = [userLock EXCEPT ![u] = r]
    /\ req' = [req EXCEPT ![r] = [req[r] EXCEPT !.pc = "creating"]]
    /\ UNCHANGED <<status, token, tokenLock, latest, owner, grant, late>>

Pending(t, u) == token[t].source = u /\ token[t].state \in {"open", "expired"}

\* Mutant: the target is not bound to the token.
CreateUnbound(r, t, v) ==
    LET u == req[r].user IN
    /\ req[r].pc = "creating"
    /\ v # u
    /\ token[t] = NoRow
    /\ \A s \in Token : Pending(s, u) => tokenLock[s] = NoRequest
    /\ token' = [s \in Token |->
                    IF s = t THEN [source |-> u, target |-> NoUser, state |-> "open"]
                    ELSE IF Pending(s, u) THEN [token[s] EXCEPT !.state = "revoked"]
                    ELSE token[s]]
    /\ latest' = [latest EXCEPT ![u] = t]
    /\ Release(r)
    /\ UNCHANGED <<status, owner, grant, late>>

\* The pending tokens of the account are revoked and the new one is inserted;
\* the UPDATE waits for an acceptance that has one of them locked.
CreateWrite(r, t, v) ==
    LET u == req[r].user IN
    /\ req[r].pc = "creating"
    /\ v # u
    /\ token[t] = NoRow
    /\ \A s \in Token : Pending(s, u) => tokenLock[s] = NoRequest
    /\ token' = [s \in Token |->
                    IF s = t THEN [source |-> u, target |-> v, state |-> "open"]
                    ELSE IF Pending(s, u) THEN [token[s] EXCEPT !.state = "revoked"]
                    ELSE token[s]]
    /\ latest' = [latest EXCEPT ![u] = t]
    /\ Release(r)
    /\ UNCHANGED <<status, owner, grant, late>>

\* 24 hours pass; a transaction judges a token by the time it began.
Expire(t) ==
    /\ token[t].state = "open"
    /\ tokenLock[t] = NoRequest
    /\ token' = [token EXCEPT ![t] = [token[t] EXCEPT !.state = "expired"]]
    /\ UNCHANGED <<status, userLock, tokenLock, latest, owner, grant, late, req>>

(***************************************************************************)
(* accept_data_handover.                                                   *)
(***************************************************************************)

\* The target is the caller, or registers with the token in this transaction.
MayAccept(r, u) ==
    \/ req[r].pc = "authenticated" /\ req[r].user = u /\ Active(u)
    \/ req[r].pc = "idle" /\ status[u] = "absent"

\* Mutant: FOR UPDATE OF h, the row of the target is not locked.
AcceptLockToken(r, t) ==
    LET u == token[t].target IN
    /\ token[t].state = "open"
    /\ MayAccept(r, u)
    /\ tokenLock[t] = NoRequest
    /\ RowFree(u)
    /\ tokenLock' = [tokenLock EXCEPT ![t] = r]
    /\ req' = [req EXCEPT ![r] = [Idle EXCEPT !.pc = "accepting", !.user = u, !.token = t]]
    /\ UNCHANGED <<status, userLock, token, latest, owner, grant, late>>

\* Mutant: FOR UPDATE OF u, the handover is not locked.
AcceptLockTarget(r, t) ==
    LET u == token[t].target IN
    /\ token[t].state = "open"
    /\ MayAccept(r, u)
    /\ RowFree(u)
    /\ userLock' = [userLock EXCEPT ![u] = r]
    /\ req' = [req EXCEPT ![r] = [Idle EXCEPT !.pc = "accepting", !.user = u, !.token = t]]
    /\ UNCHANGED <<status, tokenLock, token, latest, owner, grant, late>>

\* SELECT ... FOR UPDATE OF h, u.
AcceptLock(r, t) ==
    LET u == token[t].target IN
    /\ token[t].state = "open"
    /\ MayAccept(r, u)
    /\ tokenLock[t] = NoRequest
    /\ RowFree(u)
    /\ tokenLock' = [tokenLock EXCEPT ![t] = r]
    /\ userLock' = [userLock EXCEPT ![u] = r]
    /\ req' = [req EXCEPT ![r] = [Idle EXCEPT !.pc = "accepting", !.user = u, !.token = t]]
    /\ UNCHANGED <<status, token, latest, owner, grant, late>>

\* The role the target gets where the source has one.  The row of the target
\* counts whatever its status is.
InheritedRank(g, s, u) ==
    IF grant[g][u].rank >= grant[g][s].rank THEN grant[g][u].rank ELSE grant[g][s].rank

\* Mutant: the source is read without a lock.
AcceptSourceUnlocked(r) ==
    LET s == token[req[r].token].source
        u == req[r].user IN
    /\ req[r].pc = "accepting"
    /\ RowFree(s)
    /\ Active(s)
    /\ req' = [req EXCEPT ![r] =
                  [req[r] EXCEPT !.pc = "moving",
                                 !.inherits = [g \in Share |->
                                     IF Holds(g, s) THEN InheritedRank(g, s, u) ELSE 0]]]
    /\ UNCHANGED <<status, userLock, token, tokenLock, latest, owner, grant, late>>

\* The row of the source is locked, then its memberships are read.
AcceptSource(r) ==
    LET s == token[req[r].token].source
        u == req[r].user IN
    /\ req[r].pc = "accepting"
    /\ RowFree(s)
    /\ Active(s)
    /\ userLock' = [userLock EXCEPT ![s] = r]
    /\ req' = [req EXCEPT ![r] =
                  [req[r] EXCEPT !.pc = "moving",
                                 !.inherits = [g \in Share |->
                                     IF Holds(g, s) THEN InheritedRank(g, s, u) ELSE 0]]]
    /\ UNCHANGED <<status, token, tokenLock, latest, owner, grant, late>>

\* The rows of a share after the source's role in it has moved.
Moved(g, s, u, k) ==
    [v \in User |->
        CASE v = u -> [rank |-> k, status |-> "active"]
          [] v = s -> [rank |-> grant[g][s].rank, status |-> "disabled"]
          [] OTHER -> grant[g][v]]

AcceptCommit(r) ==
    LET t == req[r].token
        s == token[t].source
        u == req[r].user IN
    /\ req[r].pc = "moving"
    /\ owner' = [x \in Resource |-> IF owner[x] = s THEN u ELSE owner[x]]
    /\ grant' = [g \in Share |-> IF req[r].inherits[g] = 0 THEN grant[g]
                                 ELSE Moved(g, s, u, req[r].inherits[g])]
    /\ status' = [status EXCEPT ![s] = "disabled",
                                ![u] = IF status[u] = "absent" THEN "active" ELSE status[u]]
    /\ token' = [token EXCEPT ![t] = [token[t] EXCEPT !.state = "accepted"]]
    /\ Release(r)
    /\ UNCHANGED <<latest, late>>

(***************************************************************************)
(* The specification.                                                      *)
(***************************************************************************)

RequestStep(r) ==
    \/ \E u \in User : Authenticate(r, u)
    \/ Rollback(r)
    \/ \E x \in Resource : CreateResource(r, x)
    \/ \E g \in Share, k \in Rank : Join(r, g, k)
    \/ CreateLock(r)
    \/ \E t \in Token, v \in User : CreateWrite(r, t, v)
    \/ \E t \in Token : AcceptLock(r, t)
    \/ AcceptSource(r)
    \/ AcceptCommit(r)

Next ==
    \/ \E r \in Request : RequestStep(r)
    \/ \E t \in Token : Expire(t)
    \/ \E u \in User :
          \/ Register(u)
          \/ \E g \in Share : Dismiss(g, u) \/ \E k \in Rank : Regrade(g, u, k)

Spec == Init /\ [][Next]_vars

(***************************************************************************)
(* Properties.                                                             *)
(***************************************************************************)

\* Nothing a handed-over account owned is left with a disabled account, also
\* when the account that takes it over is itself being handed over; only what
\* a request in flight created after the handover is.
OwnersAreActive ==
    \A x \in Resource :
        owner[x] # NoUser /\ status[owner[x]] = "disabled" => x \in late

\* The same for roles in shares: a disabled account has none, except one that
\* a request in flight accepted after the handover.
GrantsAreActive ==
    \A g \in Share, u \in User :
        Holds(g, u) /\ status[u] = "disabled" => <<g, u>> \in late

\* A token is accepted only if it is the last one its source created, and only
\* one is, in the step that disables the source: a code that was replaced is
\* dead even while the replacement and the acceptance overlap.
AcceptedIsLatest ==
    /\ \A t \in Token : token[t].state = "accepted" =>
          latest[token[t].source] = t /\ status[token[t].source] = "disabled"
    /\ \A u \in User : status[u] = "disabled" =>
          latest[u] # NoToken /\ token[latest[u]].state = "accepted"

\* "接收人继承其角色；已有更高权限时不降级": where the source has a role, the
\* target gets that role, or the one it has itself as a member.
InheritsHeldRole ==
    \A r \in Request, g \in Share :
        LET t == req[r].token
            k == req'[r].inherits[g] IN
        req[r].pc = "accepting" /\ req'[r].pc = "moving" /\ k # 0 =>
            \/ k = grant[g][token[t].source].rank
            \/ Holds(g, req[r].user) /\ k = grant[g][req[r].user].rank

InheritsOnlyHeldRoles == [][InheritsHeldRole]_vars
=============================================================================
