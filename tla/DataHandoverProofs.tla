------------------------- MODULE DataHandoverProofs -------------------------
(***************************************************************************)
(* Proofs about DataHandover.  The row locks carry the argument: while an  *)
(* acceptance is under way its token stays open, its target does not end   *)
(* and its source gains nothing.                                           *)
(***************************************************************************)
EXTENDS DataHandover, TLAPS

LEMMA IdleType == Idle \in RequestState
BY DEF Idle, RequestState

\* A request that is past its authentication has an account, and an acceptance
\* has a token with a row.
RequestsKnow ==
    \A r \in Request :
        /\ req[r].pc # "idle" => req[r].user \in User
        /\ req[r].pc \in {"accepting", "moving"} =>
              req[r].token \in Token /\ token[req[r].token].source \in User

TypeInv == TypeOK /\ RequestsKnow

LEMMA RowType ==
    ASSUME TypeOK, NEW t \in Token, token[t] # NoRow
    PROVE  /\ token[t].source \in User /\ token[t].target \in User
           /\ \A st \in {"open", "expired", "revoked", "accepted"} :
                 [token[t] EXCEPT !.state = st] \in TokenRow
BY DEF TypeOK, TokenRow

LEMMA ReleaseType ==
    ASSUME TypeOK, NEW r \in Request, Release(r)
    PROVE  /\ req' \in [Request -> RequestState]
           /\ userLock' \in [User -> Request \cup {NoRequest}]
           /\ tokenLock' \in [Token -> Request \cup {NoRequest}]
           /\ \A q \in Request : req'[q] = IF q = r THEN Idle ELSE req[q]
BY IdleType DEF TypeOK, Release

LEMMA InheritedType ==
    ASSUME TypeOK, NEW g \in Share, NEW s \in User, NEW u \in User
    PROVE  InheritedRank(g, s, u) \in Rank \cup {0}
BY DEF TypeOK, InheritedRank

LEMMA TypeInductive == TypeInv /\ [Next]_vars => TypeInv'
<1> SUFFICES ASSUME TypeInv, [Next]_vars PROVE TypeInv'
  OBVIOUS
<1>t. TypeOK /\ RequestsKnow
  BY DEF TypeInv
<1>a. \A r \in Request : req[r] \in RequestState
  BY <1>t DEF TypeOK
<1>n. NoRow.source \notin User /\ NoRow.state = "none"
  BY SentinelAssumption DEF NoRow
<1> USE DEF TypeInv
\* A request ends: what it writes has its type and it forgets its token.
<1>e. ASSUME NEW r \in Request, Release(r),
             \A t \in Token : token[t].source \in User => token'[t].source \in User
      PROVE  RequestsKnow'
  <2>1. \A q \in Request : req'[q] = IF q = r THEN Idle ELSE req[q]
    BY <1>t, <1>e, ReleaseType
  <2>2. QED
    BY <1>e, <1>t, <2>1 DEF RequestsKnow, Idle
<1>1. ASSUME NEW u \in User, Register(u) PROVE TypeInv'
  BY <1>1, <1>t DEF Register, TypeOK, RequestsKnow
<1>2. ASSUME NEW r \in Request, NEW u \in User, Authenticate(r, u) PROVE TypeInv'
  <2>1. [Idle EXCEPT !.pc = "authenticated", !.user = u] \in RequestState
    BY DEF Idle, RequestState
  <2>2. QED
    BY <1>2, <1>t, <2>1 DEF Authenticate, TypeOK, RequestsKnow, Idle
<1>3. ASSUME NEW r \in Request, Rollback(r) PROVE TypeInv'
  BY <1>3, <1>t, <1>e, ReleaseType DEF Rollback, TypeOK
<1>4. ASSUME NEW r \in Request, NEW x \in Resource, CreateResource(r, x) PROVE TypeInv'
  <2>1. Release(r) /\ req[r].user \in User /\ UNCHANGED token
    BY <1>4, <1>t DEF CreateResource, RequestsKnow
  <2>2. QED
    BY <1>4, <1>t, <1>e, <2>1, ReleaseType DEF CreateResource, TypeOK
<1>5. ASSUME NEW r \in Request, NEW g \in Share, NEW k \in Rank, Join(r, g, k) PROVE TypeInv'
  <2>1. Release(r) /\ req[r].user \in User /\ UNCHANGED token
    BY <1>5, <1>t DEF Join, RequestsKnow
  <2>2. QED
    <3> DEFINE row == [rank |-> k, status |-> "active"]
    <3>1. row \in [rank : Rank \cup {0}, status : {"absent", "active", "disabled"}]
      OBVIOUS
    <3>2. grant' = [grant EXCEPT ![g][req[r].user] = row]
          /\ late' \subseteq late \cup {<<g, req[r].user>>}
          /\ UNCHANGED <<status, token, latest, owner>>
      BY <1>5 DEF Join
    <3> HIDE DEF row
    <3>3. grant' \in [Share -> [User -> [rank : Rank \cup {0},
                                         status : {"absent", "active", "disabled"}]]]
      BY <1>t, <2>1, <3>1, <3>2 DEF TypeOK
    <3>4. late' \subseteq Resource \cup (Share \X User)
      BY <1>t, <2>1, <3>2 DEF TypeOK
    <3>5. QED
      BY <1>t, <1>e, <2>1, <3>2, <3>3, <3>4, ReleaseType DEF TypeOK
<1>6. ASSUME NEW g \in Share, NEW u \in User, Dismiss(g, u) \/ \E k \in Rank : Regrade(g, u, k)
      PROVE  TypeInv'
  <2>1. PICK row \in [rank : Rank \cup {0}, status : {"absent", "active", "disabled"}] :
           grant' = [grant EXCEPT ![g][u] = row]
    BY <1>6, <1>t, SMTT(20) DEF Dismiss, Regrade, TypeOK
  <2>2. UNCHANGED <<status, userLock, token, tokenLock, latest, owner, late, req>>
    BY <1>6 DEF Dismiss, Regrade
  <2>3. QED
    BY <1>t, <2>1, <2>2 DEF TypeOK, RequestsKnow
<1>7. ASSUME NEW r \in Request, CreateLock(r) PROVE TypeInv'
  <2>1. [req[r] EXCEPT !.pc = "creating"] \in RequestState /\ req[r].user \in User
    BY <1>7, <1>a, <1>t DEF CreateLock, RequestState, RequestsKnow
  <2>2. QED
    BY <1>7, <1>a, <1>t, <2>1 DEF CreateLock, TypeOK, RequestsKnow, RequestState
<1>8. ASSUME NEW r \in Request, NEW t \in Token, NEW v \in User, CreateWrite(r, t, v)
      PROVE  TypeInv'
  <2> DEFINE u == req[r].user
  <2>1. Release(r) /\ u \in User
    BY <1>8, <1>t DEF CreateWrite, RequestsKnow
  <2>2. \A s \in Token :
           /\ token'[s] \in TokenRow
           /\ token[s].source \in User => token'[s].source \in User
    <3> SUFFICES ASSUME NEW s \in Token
                 PROVE  /\ token'[s] \in TokenRow
                        /\ token[s].source \in User => token'[s].source \in User
      OBVIOUS
    <3>1. CASE s = t
      BY <1>8, <2>1, <3>1 DEF CreateWrite, TokenRow
    <3>2. CASE s # t /\ Pending(s, u)
      <4>1. token[s] # NoRow
        BY <1>n, <3>2 DEF Pending
      <4>2. token'[s] = [token[s] EXCEPT !.state = "revoked"]
        BY <1>8, <3>2 DEF CreateWrite
      <4>3. token[s] \in [source : User, target : User,
                          state : {"open", "expired", "revoked", "accepted"}]
        BY <1>t, <4>1 DEF TypeOK, TokenRow
      <4>4. QED
        BY <4>2, <4>3 DEF TokenRow
    <3>3. CASE s # t /\ ~Pending(s, u)
      BY <1>8, <1>t, <3>3 DEF CreateWrite, TypeOK
    <3>4. QED
      BY <3>1, <3>2, <3>3
  <2>3. token' \in [Token -> TokenRow]
    BY <1>8, <2>2 DEF CreateWrite
  <2>4. QED
    BY <1>8, <1>t, <1>e, <2>1, <2>2, <2>3, ReleaseType DEF CreateWrite, TypeOK
<1>9. ASSUME NEW t \in Token, Expire(t) PROVE TypeInv'
  <2>1. token[t] # NoRow
    BY <1>9, <1>n DEF Expire
  <2>2. [token[t] EXCEPT !.state = "expired"] \in TokenRow
    BY <1>t, <2>1, RowType
  <2>3. [token[t] EXCEPT !.state = "expired"].source = token[t].source
    BY <1>t, <2>1 DEF TypeOK, TokenRow
  <2>4. QED
    BY <1>9, <1>t, <2>2, <2>3 DEF Expire, TypeOK, RequestsKnow
<1>10. ASSUME NEW r \in Request, NEW t \in Token, AcceptLock(r, t) PROVE TypeInv'
  <2> DEFINE u == token[t].target
  <2>1. u \in User /\ token[t].source \in User
    BY <1>10, <1>t, <1>n, RowType DEF AcceptLock
  <2>2. [Idle EXCEPT !.pc = "accepting", !.user = u, !.token = t] \in RequestState
    BY <2>1 DEF Idle, RequestState
  <2>3. QED
    BY <1>10, <1>t, <2>1, <2>2 DEF AcceptLock, TypeOK, RequestsKnow, Idle
<1>11. ASSUME NEW r \in Request, AcceptSource(r) PROVE TypeInv'
  <2> DEFINE s == token[req[r].token].source
             u == req[r].user
             h == [g \in Share |-> IF Holds(g, s) THEN InheritedRank(g, s, u) ELSE 0]
             next == [req[r] EXCEPT !.pc = "moving", !.inherits = h]
  <2>1. s \in User /\ u \in User /\ req[r].token \in Token
    BY <1>11, <1>t DEF AcceptSource, RequestsKnow
  <2>2. h \in [Share -> Rank \cup {0}]
    BY <1>t, <2>1, InheritedType
  <2>3. req' = [req EXCEPT ![r] = next] /\ userLock' = [userLock EXCEPT ![s] = r]
        /\ UNCHANGED <<status, token, tokenLock, latest, owner, grant, late>>
    BY <1>11 DEF AcceptSource
  <2> HIDE DEF h
  <2>4. next \in RequestState /\ next.user = u /\ next.token = req[r].token
    BY <1>a, <2>2 DEF RequestState
  <2> HIDE DEF next
  <2>5. QED
    BY <1>t, <2>1, <2>3, <2>4 DEF TypeOK, RequestsKnow
<1>12. ASSUME NEW r \in Request, AcceptCommit(r) PROVE TypeInv'
  <2> DEFINE t == req[r].token
             s == token[t].source
             u == req[r].user
  <2>1. s \in User /\ u \in User /\ t \in Token /\ Release(r)
    BY <1>12, <1>t DEF AcceptCommit, RequestsKnow
  <2>2. token[t] # NoRow
    BY <1>n, <2>1
  <2>3. token' = [token EXCEPT ![t] = [token[t] EXCEPT !.state = "accepted"]]
    BY <1>12 DEF AcceptCommit
  <2>4. [token[t] EXCEPT !.state = "accepted"] \in TokenRow
        /\ [token[t] EXCEPT !.state = "accepted"].source = token[t].source
    <3>1. token[t] \in [source : User, target : User,
                        state : {"open", "expired", "revoked", "accepted"}]
      BY <1>t, <2>1, <2>2 DEF TypeOK, TokenRow
    <3>2. QED
      BY <3>1 DEF TokenRow
  <2>5. token' \in [Token -> TokenRow] /\ \A q \in Token : token'[q].source = token[q].source
    BY <1>t, <2>1, <2>3, <2>4 DEF TypeOK
  <2>6. grant' \in [Share -> [User -> [rank : Rank \cup {0},
                                       status : {"absent", "active", "disabled"}]]]
    <3>1. \A g \in Share : req[r].inherits[g] \in Rank \cup {0}
      BY <1>a DEF RequestState
    <3>2. \A g \in Share : Moved(g, s, u, req[r].inherits[g]) \in
             [User -> [rank : Rank \cup {0}, status : {"absent", "active", "disabled"}]]
      BY <1>t, <2>1, <3>1 DEF Moved, TypeOK
    <3>3. QED
      BY <1>12, <1>t, <3>2 DEF AcceptCommit, TypeOK
  <2>7. /\ owner' \in [Resource -> User \cup {NoUser}]
        /\ status' \in [User -> {"absent", "active", "disabled"}]
        /\ UNCHANGED <<latest, late>>
    BY <1>12, <1>t, <2>1 DEF AcceptCommit, TypeOK
  <2>8. QED
    BY <1>t, <1>e, <2>1, <2>5, <2>6, <2>7, ReleaseType DEF TypeOK
<1>13. CASE UNCHANGED vars
  BY <1>13, <1>t DEF vars, TypeOK, RequestsKnow
<1>14. QED
  BY <1>1, <1>2, <1>3, <1>4, <1>5, <1>6, <1>7, <1>8, <1>9, <1>10, <1>11, <1>12, <1>13
     DEF Next, RequestStep

\* The types, and what a request in progress knows, are kept by every step.
LEMMA TypeInvariant == Spec => []TypeInv
<1>1. Init => TypeInv
  BY IdleType DEF Init, TypeInv, TypeOK, RequestsKnow, Idle, TokenRow
<1>2. QED
  BY <1>1, TypeInductive, PTL DEF Spec

\* Every reachable state has its types, for any number of accounts, requests
\* and tokens.
THEOREM TypeCorrect == Spec => []TypeOK
<1>1. TypeInv => TypeOK
  BY DEF TypeInv
<1>2. QED
  BY <1>1, TypeInvariant, PTL

(***************************************************************************)
(* What a request may rely on while it has its locks.                      *)
(***************************************************************************)

LocksOf(r) ==
    LET t == req[r].token
        s == token[t].source
        u == req[r].user IN
    /\ req[r].pc = "creating" => userLock[u] = r /\ Active(u)
    /\ req[r].pc \in {"accepting", "moving"} =>
          /\ tokenLock[t] = r /\ userLock[u] = r
          /\ token[t].state = "open" /\ token[t].target = u
          /\ status[u] # "disabled"
    /\ req[r].pc = "moving" =>
          /\ userLock[s] = r
          /\ \A g \in Share : Holds(g, s) => req[r].inherits[g] # 0

LocksInv == \A r \in Request : LocksOf(r)

\* A request keeps what it relies on in every step of others that leaves its
\* locks, the rows it has locked and the roles of locked accounts alone.
LEMMA LocksFrame ==
    ASSUME TypeInv, LocksInv, NEW q \in Request, req'[q] = req[q],
           \A u \in User : userLock[u] = q =>
               /\ userLock'[u] = q
               /\ status'[u] = status[u]
               /\ \A g \in Share : Holds(g, u)' => Holds(g, u),
           \A t \in Token : tokenLock[t] = q =>
               tokenLock'[t] = q /\ (token[t].state = "open" => token'[t] = token[t])
    PROVE  LocksOf(q)'
<1>1. LocksOf(q) /\ req[q] \in RequestState
  BY DEF LocksInv, TypeInv, TypeOK
<1>2. req[q].pc # "idle" => req[q].user \in User
  BY DEF TypeInv, RequestsKnow
<1>3. req[q].pc \in {"accepting", "moving"} =>
         /\ req[q].token \in Token
         /\ token[req[q].token].source \in User
         /\ token'[req[q].token] = token[req[q].token]
  BY <1>1 DEF TypeInv, RequestsKnow, LocksOf
<1>4. CASE req[q].pc = "creating"
  BY <1>1, <1>2, <1>4 DEF LocksOf, Active
<1>5. CASE req[q].pc = "accepting"
  BY <1>1, <1>2, <1>3, <1>5 DEF LocksOf
<1>6. CASE req[q].pc = "moving"
  BY <1>1, <1>2, <1>3, <1>6 DEF LocksOf
<1>7. CASE req[q].pc \notin {"creating", "accepting", "moving"}
  BY <1>7 DEF LocksOf
<1>8. QED
  BY <1>4, <1>5, <1>6, <1>7

\* When a request ends, the others keep their locks and it relies on nothing.
LEMMA ReleaseKeeps ==
    ASSUME TypeOK, NEW r \in Request, Release(r)
    PROVE  /\ LocksOf(r)'
           /\ \A q \in Request \ {r} :
                 /\ req'[q] = req[q]
                 /\ \A u \in User : userLock[u] = q => userLock'[u] = q
                 /\ \A t \in Token : tokenLock[t] = q => tokenLock'[t] = q
BY ReleaseType DEF TypeOK, Release, LocksOf, Idle

LEMMA MovedToTarget ==
    ASSUME NEW g, NEW s \in User, NEW u \in User, s # u, NEW k
    PROVE  Moved(g, s, u, k)[u] = [rank |-> k, status |-> "active"]
BY DEF Moved

SourceIsNotTarget ==
    \A t \in Token : token[t] # NoRow => token[t].source # token[t].target

\* An account has one pending token at most, the one it created last, and is
\* not handed over yet.
PendingIsLatest ==
    \A t \in Token, u \in User : Pending(t, u) => latest[u] = t /\ Active(u)

RolesHaveRank == \A g \in Share, u \in User : Holds(g, u) => grant[g][u].rank # 0

HandoverInv ==
    /\ LocksInv
    /\ RolesHaveRank
    /\ SourceIsNotTarget
    /\ PendingIsLatest
    /\ AcceptedIsLatest
    /\ OwnersAreActive
    /\ GrantsAreActive

LEMMA HandoverInductive == TypeInv /\ HandoverInv /\ [Next]_vars => HandoverInv'
<1> SUFFICES ASSUME TypeInv, HandoverInv, [Next]_vars PROVE HandoverInv'
  OBVIOUS
<1>t. /\ TypeOK /\ RequestsKnow /\ LocksInv /\ RolesHaveRank
      /\ SourceIsNotTarget /\ PendingIsLatest /\ AcceptedIsLatest
      /\ OwnersAreActive /\ GrantsAreActive
  BY DEF TypeInv, HandoverInv
<1>n. NoRow.source \notin User /\ NoRow.state = "none" /\ NoRequest \notin Request
      /\ NoToken \notin Token /\ NoUser \notin User
  BY SentinelAssumption DEF NoRow
\* Steps that leave accounts, tokens, resources and roles alone.
<1>q. ASSUME UNCHANGED <<status, token, latest, owner, grant, late>>
      PROVE  /\ SourceIsNotTarget' /\ PendingIsLatest' /\ AcceptedIsLatest'
             /\ OwnersAreActive' /\ GrantsAreActive' /\ RolesHaveRank'
  BY <1>t, <1>q DEF RolesHaveRank, SourceIsNotTarget, PendingIsLatest, AcceptedIsLatest, OwnersAreActive,
     GrantsAreActive, Pending, Active, Holds
<1>1. ASSUME NEW u \in User, Register(u) PROVE HandoverInv'
  <2>1. /\ status' = [status EXCEPT ![u] = "active"] /\ status[u] = "absent"
        /\ userLock[u] = NoRequest
        /\ UNCHANGED <<userLock, token, tokenLock, latest, owner, grant, late, req>>
    BY <1>1 DEF Register, RowFree
  <2>2. LocksInv'
    BY <1>t, <1>n, <2>1, LocksFrame DEF LocksInv, TypeOK, Holds
  <2>3. QED
    BY <1>t, <2>1, <2>2 DEF HandoverInv, TypeOK, RolesHaveRank, SourceIsNotTarget,
       PendingIsLatest, AcceptedIsLatest, OwnersAreActive, GrantsAreActive, Pending, Active, Holds
<1>2. ASSUME NEW r \in Request, NEW u \in User, Authenticate(r, u) PROVE HandoverInv'
  <2>1. /\ \A q \in Request \ {r} : req'[q] = req[q]
        /\ req'[r].pc = "authenticated"
        /\ UNCHANGED <<status, userLock, token, tokenLock, latest, owner, grant, late>>
    BY <1>2, <1>t DEF Authenticate, TypeOK, Idle
  <2>2. \A q \in Request \ {r} : LocksOf(q)'
    BY <1>t, <2>1, LocksFrame DEF Holds
  <2>3. LocksOf(r)'
    BY <2>1 DEF LocksOf
  <2>4. QED
    BY <1>q, <2>1, <2>2, <2>3 DEF HandoverInv, LocksInv
<1>3. ASSUME NEW r \in Request, Rollback(r) PROVE HandoverInv'
  <2>1. Release(r) /\ UNCHANGED <<status, token, latest, owner, grant, late>>
    BY <1>3 DEF Rollback
  <2>2. \A q \in Request \ {r} : LocksOf(q)'
    BY <1>t, <2>1, ReleaseKeeps, LocksFrame DEF Holds
  <2>3. QED
    BY <1>q, <1>t, <2>1, <2>2, ReleaseKeeps DEF HandoverInv, LocksInv
<1>4. ASSUME NEW r \in Request, NEW x \in Resource, CreateResource(r, x) PROVE HandoverInv'
  <2>1. /\ Release(r) /\ UNCHANGED <<status, token, latest, grant>>
        /\ owner' = [owner EXCEPT ![x] = req[r].user]
        /\ late' = late \cup {y \in {x} : ~Active(req[r].user)}
    BY <1>4 DEF CreateResource
  <2>2. \A q \in Request \ {r} : LocksOf(q)'
    BY <1>t, <2>1, ReleaseKeeps, LocksFrame DEF Holds
  <2>3. LocksInv'
    BY <1>t, <2>1, <2>2, ReleaseKeeps DEF LocksInv
  <2>4. OwnersAreActive' /\ GrantsAreActive' /\ RolesHaveRank'
    BY <1>t, <2>1 DEF TypeOK, OwnersAreActive, GrantsAreActive, RolesHaveRank, Active, Holds
  <2>5. SourceIsNotTarget' /\ PendingIsLatest' /\ AcceptedIsLatest'
    BY <1>t, <2>1 DEF SourceIsNotTarget, PendingIsLatest, AcceptedIsLatest, Pending, Active
  <2>6. QED
    BY <2>3, <2>4, <2>5 DEF HandoverInv
<1>5. ASSUME NEW r \in Request, NEW g \in Share, NEW k \in Rank, Join(r, g, k)
      PROVE  HandoverInv'
  <2> DEFINE u == req[r].user
  <2>1. /\ Release(r) /\ UNCHANGED <<status, token, latest, owner>>
        /\ grant' = [grant EXCEPT ![g][u] = [rank |-> k, status |-> "active"]]
        /\ late' = late \cup {y \in {<<g, u>>} : ~Active(u)}
        /\ userLock[u] = NoRequest /\ u \in User
    BY <1>5, <1>t DEF Join, RowFree, RequestsKnow
  <2>2. \A f \in Share, v \in User : Holds(f, v)' => Holds(f, v) \/ (f = g /\ v = u)
    BY <1>t, <2>1 DEF TypeOK, Holds
  <2>3. \A q \in Request \ {r} : LocksOf(q)'
    BY <1>t, <1>n, <2>1, <2>2, ReleaseKeeps, LocksFrame
  <2>4. LocksInv'
    BY <1>t, <2>1, <2>3, ReleaseKeeps DEF LocksInv
  <2>5. OwnersAreActive' /\ GrantsAreActive'
    BY <1>t, <2>1, <2>2 DEF TypeOK, OwnersAreActive, GrantsAreActive, Active
  <2>8. RolesHaveRank'
    BY <1>t, <2>1, RankAssumption DEF TypeOK, RolesHaveRank, Holds
  <2>6. SourceIsNotTarget' /\ PendingIsLatest' /\ AcceptedIsLatest'
    BY <1>t, <2>1 DEF SourceIsNotTarget, PendingIsLatest, AcceptedIsLatest, Pending, Active
  <2>7. QED
    BY <2>4, <2>5, <2>6, <2>8 DEF HandoverInv
<1>6. ASSUME NEW g \in Share, NEW u \in User, Dismiss(g, u) \/ \E k \in Rank : Regrade(g, u, k)
      PROVE  HandoverInv'
  <2>1. UNCHANGED <<status, userLock, token, tokenLock, latest, owner, late, req>>
    BY <1>6 DEF Dismiss, Regrade
  <2>2. /\ Holds(g, u)
        /\ \E row : /\ grant' = [grant EXCEPT ![g][u] = row]
                    /\ row.status = "active" => row.rank \in Rank
    <3>1. CASE Dismiss(g, u)
      <4> DEFINE row == [rank |-> grant[g][u].rank, status |-> "disabled"]
      <4>1. grant' = [grant EXCEPT ![g][u] = row] /\ Holds(g, u)
        BY <3>1 DEF Dismiss
      <4>2. row.status # "active"
        OBVIOUS
      <4> HIDE DEF row
      <4>3. QED
        BY <4>1, <4>2
    <3>2. ASSUME NEW k \in Rank, Regrade(g, u, k) 
          PROVE  /\ Holds(g, u)
                 /\ \E row : /\ grant' = [grant EXCEPT ![g][u] = row]
                             /\ row.status = "active" => row.rank \in Rank
      <4> DEFINE row == [rank |-> k, status |-> "active"]
      <4>1. grant' = [grant EXCEPT ![g][u] = row] /\ Holds(g, u)
        BY <3>2 DEF Regrade
      <4>2. row.rank \in Rank
        OBVIOUS
      <4> HIDE DEF row
      <4>3. QED
        BY <4>1, <4>2
    <3>3. QED
      BY <1>6, <3>1, <3>2
  <2>3. \A f \in Share, v \in User : Holds(f, v)' => Holds(f, v)
    BY <1>t, <2>2 DEF TypeOK, Holds
  <2>4. LocksInv'
    BY <1>t, <2>1, <2>3, LocksFrame DEF LocksInv
  <2>5. RolesHaveRank'
    BY <1>t, <2>2, RankAssumption DEF TypeOK, RolesHaveRank, Holds
  <2>6. GrantsAreActive'
    BY <1>t, <2>1, <2>3 DEF GrantsAreActive
  <2>7. OwnersAreActive' /\ SourceIsNotTarget' /\ PendingIsLatest' /\ AcceptedIsLatest'
    BY <1>t, <2>1 DEF SourceIsNotTarget, PendingIsLatest, AcceptedIsLatest,
       OwnersAreActive, Pending, Active
  <2>8. QED
    BY <2>4, <2>5, <2>6, <2>7 DEF HandoverInv
<1>7. ASSUME NEW r \in Request, CreateLock(r) PROVE HandoverInv'
  <2> DEFINE u == req[r].user
  <2>1. /\ u \in User /\ userLock[u] = NoRequest /\ Active(u)
        /\ userLock' = [userLock EXCEPT ![u] = r]
        /\ \A q \in Request \ {r} : req'[q] = req[q]
        /\ req'[r].pc = "creating" /\ req'[r].user = u
        /\ UNCHANGED <<status, token, tokenLock, latest, owner, grant, late>>
    BY <1>7, <1>t DEF CreateLock, RowFree, RequestsKnow, TypeOK, RequestState
  <2>2. \A q \in Request \ {r} : LocksOf(q)'
    BY <1>t, <1>n, <2>1, LocksFrame DEF Holds, TypeOK
  <2>3. LocksOf(r)'
    BY <1>t, <2>1 DEF LocksOf, Active, TypeOK
  <2>4. QED
    BY <1>q, <2>1, <2>2, <2>3 DEF HandoverInv, LocksInv
<1>8. ASSUME NEW r \in Request, NEW t \in Token, NEW v \in User, CreateWrite(r, t, v)
      PROVE  HandoverInv'
  <2> DEFINE u == req[r].user
  <2>1. /\ u \in User /\ Active(u) /\ v # u /\ token[t] = NoRow
        /\ \A s \in Token : Pending(s, u) => tokenLock[s] = NoRequest
        /\ Release(r) /\ UNCHANGED <<status, owner, grant, late>>
        /\ latest' = [latest EXCEPT ![u] = t]
    BY <1>8, <1>t DEF CreateWrite, RequestsKnow, LocksInv, LocksOf
  <2>2. \A s \in Token : token'[s] =
           IF s = t THEN [source |-> u, target |-> v, state |-> "open"]
           ELSE IF Pending(s, u) THEN [token[s] EXCEPT !.state = "revoked"]
           ELSE token[s]
    BY <1>8 DEF CreateWrite
  <2>a. token'[t].source = u /\ token'[t].target = v /\ token'[t].state = "open"
    <3>1. token'[t] = [source |-> u, target |-> v, state |-> "open"]
      BY <2>2
    <3>2. QED
      BY <3>1
  <2>3. \A s \in Token \ {t} : Pending(s, u) =>
           /\ token'[s].state = "revoked"
           /\ token'[s].source = token[s].source /\ token'[s].target = token[s].target
           /\ token[s] # NoRow
    BY <1>t, <1>n, <2>2 DEF TypeOK, TokenRow, Pending
  <2>4. \A q \in Request \ {r}, s \in Token :
           tokenLock[s] = q /\ token[s].state = "open" => token'[s] = token[s]
    BY <1>n, <2>1, <2>2
  <2>5. \A q \in Request \ {r} : LocksOf(q)'
    BY <1>t, <2>1, <2>4, ReleaseKeeps, LocksFrame DEF Holds
  <2>6. LocksInv'
    BY <1>t, <2>1, <2>5, ReleaseKeeps DEF LocksInv
  <2>7. SourceIsNotTarget'
    <3> SUFFICES ASSUME NEW s \in Token, token'[s] # NoRow
                 PROVE  token'[s].source # token'[s].target
      BY DEF SourceIsNotTarget, NoRow
    <3>1. CASE s = t
      BY <2>1, <2>a, <3>1
    <3>2. CASE s # t /\ Pending(s, u)
      BY <1>t, <2>3, <3>2 DEF SourceIsNotTarget
    <3>3. CASE s # t /\ ~Pending(s, u)
      BY <1>t, <2>2, <3>3 DEF SourceIsNotTarget
    <3>4. QED
      BY <3>1, <3>2, <3>3
  <2>8. PendingIsLatest'
    <3> SUFFICES ASSUME NEW s \in Token, NEW w \in User, Pending(s, w)'
                 PROVE  latest'[w] = s /\ Active(w)'
      BY DEF PendingIsLatest
    <3>1. CASE s = t
      BY <1>t, <2>1, <2>a, <3>1 DEF Pending, Active, TypeOK
    <3>2. CASE s # t
      <4>1. ~Pending(s, u)
        BY <2>3, <3>2 DEF Pending
      <4>2. token'[s] = token[s]
        BY <2>2, <3>2, <4>1
      <4>3. Pending(s, w) /\ w # u
        BY <4>1, <4>2 DEF Pending
      <4>4. QED
        BY <1>t, <2>1, <4>3 DEF PendingIsLatest, Active, TypeOK
    <3>3. QED
      BY <3>1, <3>2
  <2>9. AcceptedIsLatest'
    <3>1. \A s \in Token : token[s].state = "accepted" => token'[s] = token[s]
      BY <1>n, <2>1, <2>2 DEF Pending
    <3>2. \A s \in Token : token'[s].state = "accepted" => token'[s] = token[s]
      BY <2>2, <2>3, <2>a
    <3>3. \A w \in User : status[w] = "disabled" => latest[w] \in Token /\ w # u
      BY <1>t, <2>1 DEF AcceptedIsLatest, Active, TypeOK
    <3>4. \A s \in Token : token[s].state = "accepted" => token[s].source \in User
      BY <1>t, <1>n DEF TypeOK, TokenRow
    <3>5. \A s \in Token : token'[s].state = "accepted" =>
             latest'[token'[s].source] = s /\ status'[token'[s].source] = "disabled"
      BY <1>t, <2>1, <3>2, <3>4 DEF AcceptedIsLatest, Active, TypeOK
    <3>6. \A w \in User : status'[w] = "disabled" =>
             latest'[w] # NoToken /\ token'[latest'[w]].state = "accepted"
      BY <1>t, <2>1, <3>1, <3>3 DEF AcceptedIsLatest, TypeOK
    <3>7. QED
      BY <3>5, <3>6 DEF AcceptedIsLatest
  <2>10. OwnersAreActive' /\ GrantsAreActive' /\ RolesHaveRank'
    BY <1>t, <2>1 DEF OwnersAreActive, GrantsAreActive, RolesHaveRank, Holds
  <2>11. QED
    BY <2>6, <2>7, <2>8, <2>9, <2>10 DEF HandoverInv
<1>9. ASSUME NEW t \in Token, Expire(t) PROVE HandoverInv'
  <2>1. /\ token[t].state = "open" /\ tokenLock[t] = NoRequest
        /\ UNCHANGED <<status, userLock, tokenLock, latest, owner, grant, late, req>>
    BY <1>9 DEF Expire
  <2>2. /\ \A s \in Token \ {t} : token'[s] = token[s]
        /\ token'[t].state = "expired" /\ token[t] # NoRow
        /\ token'[t].source = token[t].source /\ token'[t].target = token[t].target
    BY <1>9, <1>t, <1>n DEF Expire, TypeOK, TokenRow
  <2>3. LocksInv'
    BY <1>t, <1>n, <2>1, <2>2, LocksFrame DEF LocksInv, Holds
  <2>4. SourceIsNotTarget' /\ PendingIsLatest' /\ AcceptedIsLatest'
    <3>1. SourceIsNotTarget'
      BY <1>t, <2>2 DEF SourceIsNotTarget, NoRow
    <3>2. PendingIsLatest'
      BY <1>t, <2>1, <2>2 DEF PendingIsLatest, Pending, Active
    <3>3. AcceptedIsLatest'
      <4>1. \A w \in User : latest[w] # NoToken => latest[w] \in Token
        BY <1>t DEF TypeOK
      <4>2. \A s \in Token : token[s].state = "accepted" \/ token'[s].state = "accepted" =>
               s # t /\ token'[s] = token[s]
        BY <2>1, <2>2
      <4>3. QED
        BY <1>t, <2>1, <4>1, <4>2 DEF AcceptedIsLatest
    <3>4. QED
      BY <3>1, <3>2, <3>3
  <2>5. OwnersAreActive' /\ GrantsAreActive' /\ RolesHaveRank'
    BY <1>t, <2>1 DEF OwnersAreActive, GrantsAreActive, RolesHaveRank, Holds
  <2>6. QED
    BY <2>3, <2>4, <2>5 DEF HandoverInv
<1>10. ASSUME NEW r \in Request, NEW t \in Token, AcceptLock(r, t) PROVE HandoverInv'
  <2> DEFINE u == token[t].target
  <2>1. /\ u \in User /\ userLock[u] = NoRequest /\ tokenLock[t] = NoRequest
        /\ token[t].state = "open" /\ status[u] # "disabled"
        /\ userLock' = [userLock EXCEPT ![u] = r]
        /\ tokenLock' = [tokenLock EXCEPT ![t] = r]
        /\ UNCHANGED <<status, token, latest, owner, grant, late>>
    BY <1>10, <1>t, <1>n, RowType DEF AcceptLock, RowFree, MayAccept, Active
  <2>2. /\ \A q \in Request \ {r} : req'[q] = req[q]
        /\ req'[r].pc = "accepting" /\ req'[r].user = u /\ req'[r].token = t
    BY <1>10, <1>t DEF AcceptLock, TypeOK, Idle
  <2>3. \A q \in Request \ {r} : LocksOf(q)'
    BY <1>t, <1>n, <2>1, <2>2, LocksFrame DEF Holds, TypeOK
  <2>4. LocksOf(r)'
    BY <1>t, <2>1, <2>2 DEF LocksOf, TypeOK
  <2>5. QED
    BY <1>q, <2>1, <2>3, <2>4 DEF HandoverInv, LocksInv
<1>11. ASSUME NEW r \in Request, AcceptSource(r) PROVE HandoverInv'
  <2> DEFINE t == req[r].token
             s == token[t].source
             u == req[r].user
             h == [g \in Share |-> IF Holds(g, s) THEN InheritedRank(g, s, u) ELSE 0]
             next == [req[r] EXCEPT !.pc = "moving", !.inherits = h]
  <2>1. /\ s \in User /\ u \in User /\ t \in Token /\ userLock[s] = NoRequest
        /\ tokenLock[t] = r /\ userLock[u] = r /\ token[t].state = "open"
        /\ token[t].target = u /\ status[u] # "disabled"
    BY <1>11, <1>t DEF AcceptSource, RequestsKnow, RowFree, LocksInv, LocksOf
  <2>2. req' = [req EXCEPT ![r] = next] /\ userLock' = [userLock EXCEPT ![s] = r]
        /\ UNCHANGED <<status, token, tokenLock, latest, owner, grant, late>>
    BY <1>11 DEF AcceptSource
  <2>3. \A g \in Share : Holds(g, s) => h[g] # 0
    <3> SUFFICES ASSUME NEW g \in Share, Holds(g, s) PROVE InheritedRank(g, s, u) # 0
      OBVIOUS
    <3>1. grant[g][s].rank \in Nat \ {0} /\ grant[g][u].rank \in Nat
      <4>1. \A v \in User : grant[g][v].rank \in Rank \cup {0}
        BY <1>t DEF TypeOK
      <4>2. grant[g][s].rank # 0
        BY <1>t, <2>1 DEF RolesHaveRank
      <4>3. grant[g][s].rank \in Rank /\ grant[g][u].rank \in Rank \cup {0}
        BY <2>1, <4>1, <4>2
      <4>4. \A k \in Rank : k \in Nat /\ k # 0
        BY RankAssumption
      <4>5. QED
        BY <4>3, <4>4
    <3>2. QED
      BY <3>1 DEF InheritedRank
  <2> HIDE DEF h
  <2>4. next.pc = "moving" /\ next.user = u /\ next.token = t /\ next.inherits = h
    BY <1>t DEF TypeOK, RequestState
  <2> HIDE DEF next
  <2>5. req'[r] = next /\ \A q \in Request \ {r} : req'[q] = req[q]
    BY <1>t, <2>2 DEF TypeOK
  <2>6. \A q \in Request \ {r} : LocksOf(q)'
    BY <1>t, <1>n, <2>1, <2>2, <2>5, LocksFrame DEF Holds, TypeOK
  <2>7. LocksOf(r)'
    BY <1>t, <2>1, <2>2, <2>3, <2>4, <2>5 DEF LocksOf, TypeOK, Holds
  <2>8. QED
    BY <1>q, <2>2, <2>6, <2>7 DEF HandoverInv, LocksInv
<1>12. ASSUME NEW r \in Request, AcceptCommit(r) PROVE HandoverInv'
  <2> DEFINE t == req[r].token
             s == token[t].source
             u == req[r].user
  <2>1. /\ s \in User /\ u \in User /\ t \in Token /\ req[r].pc = "moving"
        /\ tokenLock[t] = r /\ userLock[u] = r /\ userLock[s] = r
        /\ token[t].state = "open" /\ token[t].target = u /\ status[u] # "disabled"
        /\ \A g \in Share : Holds(g, s) => req[r].inherits[g] # 0
    BY <1>12, <1>t DEF AcceptCommit, RequestsKnow, LocksInv, LocksOf
  <2>2. token[t] # NoRow /\ s # u
    BY <1>t, <1>n, <2>1 DEF SourceIsNotTarget
  <2>3. Release(r) /\ UNCHANGED <<latest, late>>
    BY <1>12 DEF AcceptCommit
  <2>4. /\ \A q \in Token \ {t} : token'[q] = token[q]
        /\ token'[t].state = "accepted"
        /\ token'[t].source = s /\ token'[t].target = u
    BY <1>12, <1>t, <2>1, <2>2 DEF AcceptCommit, TypeOK, TokenRow
  <2>5. /\ status'[s] = "disabled" /\ status'[u] = "active"
        /\ \A v \in User \ {s, u} : status'[v] = status[v]
    BY <1>12, <1>t, <2>1, <2>2 DEF AcceptCommit, TypeOK
  <2>6. \A g \in Share, v \in User \ {s, u} : grant'[g][v] = grant[g][v]
    BY <1>12 DEF AcceptCommit, Moved
  <2>7. LocksInv'
    <3>1. \A q \in Request \ {r} : LocksOf(q)'
      BY <1>t, <2>1, <2>3, <2>4, <2>5, <2>6, ReleaseKeeps, LocksFrame DEF Holds
    <3>2. QED
      BY <1>t, <2>3, <3>1, ReleaseKeeps DEF LocksInv
  <2>8. SourceIsNotTarget'
    BY <1>t, <2>2, <2>4 DEF SourceIsNotTarget
  <2>9. latest[s] = t /\ Active(s)
    BY <1>t, <2>1 DEF PendingIsLatest, Pending
  <2>10. PendingIsLatest'
    <3> SUFFICES ASSUME NEW q \in Token, NEW v \in User, Pending(q, v)'
                 PROVE  latest'[v] = q /\ Active(v)'
      BY DEF PendingIsLatest
    <3>1. q # t /\ Pending(q, v)
      BY <2>4 DEF Pending
    <3>2. latest[v] = q /\ Active(v)
      BY <1>t, <3>1 DEF PendingIsLatest
    <3>3. QED
      BY <2>3, <2>5, <2>9, <3>1, <3>2 DEF Active
  <2>11. AcceptedIsLatest'
    <3>1. \A q \in Token : token[q].state = "accepted" => token[q].source \in User
      BY <1>t, <1>n DEF TypeOK, TokenRow
    <3>2. \A q \in Token : token'[q].state = "accepted" /\ q # t =>
             latest[token[q].source] = q /\ status[token[q].source] = "disabled"
      BY <1>t, <2>4 DEF AcceptedIsLatest
    <3>3. \A q \in Token : token'[q].state = "accepted" /\ q # t => token[q].source # u
      BY <1>t, <2>1, <3>2 DEF LocksInv, LocksOf
    <3>4. \A v \in User : status'[v] = "disabled" =>
             latest[v] # NoToken /\ token'[latest[v]].state = "accepted"
      <4> SUFFICES ASSUME NEW v \in User, status'[v] = "disabled"
                   PROVE  latest[v] # NoToken /\ token'[latest[v]].state = "accepted"
        OBVIOUS
      <4>1. CASE v = s
        BY <1>n, <2>1, <2>4, <2>9, <4>1
      <4>2. CASE v # s
        <5>1. status[v] = "disabled"
          BY <2>5, <4>2
        <5>2. latest[v] # NoToken /\ token[latest[v]].state = "accepted"
          BY <1>t, <5>1 DEF AcceptedIsLatest
        <5>3. latest[v] \in Token /\ latest[v] # t
          BY <1>t, <2>1, <5>2 DEF TypeOK
        <5>4. QED
          BY <2>4, <5>2, <5>3
      <4>3. QED
        BY <4>1, <4>2
    <3>5. \A q \in Token : token'[q].state = "accepted" =>
             latest[token'[q].source] = q /\ status'[token'[q].source] = "disabled"
      BY <2>4, <2>5, <2>9, <3>1, <3>2, <3>3
    <3>6. QED
      BY <2>3, <3>4, <3>5 DEF AcceptedIsLatest
  <2>12. OwnersAreActive'
    BY <1>12, <1>t, <1>n, <2>3, <2>5 DEF AcceptCommit, OwnersAreActive, TypeOK
  <2>13. \A g \in Share : grant'[g][s].status # "active"
    <3> SUFFICES ASSUME NEW g \in Share PROVE grant'[g][s].status # "active"
      OBVIOUS
    <3>1. CASE req[r].inherits[g] = 0
      BY <1>12, <2>1, <3>1 DEF AcceptCommit, Holds
    <3>2. CASE req[r].inherits[g] # 0
      BY <1>12, <2>1, <2>2, <3>2 DEF AcceptCommit, Moved
    <3>3. QED
      BY <3>1, <3>2
  <2>14. GrantsAreActive'
    BY <1>t, <2>3, <2>5, <2>6, <2>13 DEF GrantsAreActive, Holds
  <2>15. RolesHaveRank'
    <3> SUFFICES ASSUME NEW g \in Share, NEW v \in User, Holds(g, v)'
                 PROVE  grant'[g][v].rank # 0
      BY DEF RolesHaveRank
    <3>1. CASE req[r].inherits[g] = 0
      BY <1>12, <1>t, <3>1 DEF AcceptCommit, Holds, RolesHaveRank
    <3>2. CASE req[r].inherits[g] # 0 /\ v = u
      <4>1. grant'[g] = Moved(g, s, u, req[r].inherits[g])
        BY <1>12, <3>2 DEF AcceptCommit
      <4>2. Moved(g, s, u, req[r].inherits[g])[u] =
               [rank |-> req[r].inherits[g], status |-> "active"]
        BY <2>1, <2>2, MovedToTarget
      <4>3. QED
        BY <3>2, <4>1, <4>2
    <3>3. CASE v # u
      BY <1>t, <2>6, <2>13, <3>3 DEF Holds, RolesHaveRank
    <3>4. QED
      BY <3>1, <3>2, <3>3
  <2>16. QED
    BY <2>7, <2>8, <2>10, <2>11, <2>12, <2>14, <2>15 DEF HandoverInv
<1>13. CASE UNCHANGED vars
  <2>1. UNCHANGED <<status, userLock, token, tokenLock, latest, owner, grant, late, req>>
    BY <1>13 DEF vars
  <2>2. LocksInv'
    BY <1>t, <2>1, LocksFrame DEF LocksInv, Holds
  <2>3. QED
    BY <1>q, <2>1, <2>2 DEF HandoverInv
<1>14. QED
  BY <1>1, <1>2, <1>3, <1>4, <1>5, <1>6, <1>7, <1>8, <1>9, <1>10, <1>11, <1>12, <1>13
     DEF Next, RequestStep

LEMMA HandoverHolds == Spec => []HandoverInv
<1>1. Init => HandoverInv
  BY SentinelAssumption DEF Init, HandoverInv, LocksInv, LocksOf, RolesHaveRank,
     SourceIsNotTarget, PendingIsLatest, AcceptedIsLatest, OwnersAreActive, GrantsAreActive,
     Pending, Active, Holds, NoRow, Idle
<1>2. QED
  BY <1>1, TypeInvariant, HandoverInductive, PTL DEF Spec

\* However many accounts hand over to each other, and however the requests
\* interleave, no disabled account owns what it owned when it was handed over.
THEOREM OwnersActive == Spec => []OwnersAreActive
<1>1. HandoverInv => OwnersAreActive
  BY DEF HandoverInv
<1>2. QED
  BY <1>1, HandoverHolds, PTL

\* Nor does it keep a role.
THEOREM GrantsActive == Spec => []GrantsAreActive
<1>1. HandoverInv => GrantsAreActive
  BY DEF HandoverInv
<1>2. QED
  BY <1>1, HandoverHolds, PTL

\* Of the tokens an account creates, however many, only the last can be
\* accepted, and the account is disabled exactly when it has been.
THEOREM AcceptedLatest == Spec => []AcceptedIsLatest
<1>1. HandoverInv => AcceptedIsLatest
  BY DEF HandoverInv
<1>2. QED
  BY <1>1, HandoverHolds, PTL
=============================================================================
