------------------------- MODULE AuthSessionsProofs -------------------------
(***************************************************************************)
(* Theorems about AuthSessions for every set of accounts, logins, requests *)
(* and sessions and for every choice of lifetimes.                         *)
(***************************************************************************)
EXTENDS AuthSessions, TLAPS

\* A request in flight was authenticated by the session of some account.
RequestsNameAccounts ==
    \A r \in Request : req[r] # NoRequest =>
        /\ req[r].session \in Session
        /\ session[req[r].session].user \in User

\* The typing invariant: the account a request acts for exists.
TypeInv == TypeOK /\ RequestsNameAccounts

LEMMA NewSessionType ==
    ASSUME TypeOK, NEW u \in User \cup {NoUser}, NEW ver \in Nat, NEW pw \in Nat, NEW out \in Nat
    PROVE  NewSession(u, ver, pw, out) \in SessionRow
<1>1. now \in Nat /\ AbsoluteLife \in Nat /\ IdleLife \in Nat
  BY LifetimeAssumption DEF TypeOK
<1>2. now + AbsoluteLife \in Nat /\ Earlier(now + AbsoluteLife, now + IdleLife) \in Nat
  BY <1>1 DEF Earlier
<1>3. QED
  BY <1>1, <1>2 DEF NewSession, SessionRow

LEMMA TouchedType ==
    ASSUME TypeOK, NEW row \in SessionRow
    PROVE  Touched(row) \in SessionRow /\ Touched(row).user = row.user
<1> DEFINE limit == Earlier(row.until, now + IdleLife)
<1>1. now \in Nat /\ IdleLife \in Nat /\ row.until \in Nat
  BY LifetimeAssumption DEF TypeOK, SessionRow
<1>2. limit \in Nat
  BY <1>1 DEF Earlier
<1>3. [row EXCEPT !.used = now] \in SessionRow /\ [row EXCEPT !.used = now].user = row.user
  BY <1>1 DEF SessionRow
<1> HIDE DEF limit
<1>4. /\ [row EXCEPT !.seen = now, !.used = now, !.idleUntil = limit] \in SessionRow
      /\ [row EXCEPT !.seen = now, !.used = now, !.idleUntil = limit].user = row.user
  BY <1>1, <1>2 DEF SessionRow
<1>5. QED
  BY <1>3, <1>4 DEF Touched, limit

LEMMA RevokedType ==
    ASSUME TypeOK, NEW u
    PROVE  /\ Revoked(u) \in [Session -> SessionRow]
           /\ \A s \in Session :
                 /\ Revoked(u)[s].user = session[s].user
                 /\ Revoked(u)[s].version = session[s].version
                 /\ Revoked(u)[s].password = session[s].password
<1>1. ASSUME NEW s \in Session PROVE session[s] \in SessionRow
  BY DEF TypeOK
<1>2. ASSUME NEW s \in Session
      PROVE  /\ [session[s] EXCEPT !.revoked = TRUE] \in SessionRow
             /\ [session[s] EXCEPT !.revoked = TRUE].user = session[s].user
             /\ [session[s] EXCEPT !.revoked = TRUE].version = session[s].version
             /\ [session[s] EXCEPT !.revoked = TRUE].password = session[s].password
  BY <1>1 DEF SessionRow
<1>3. QED
  BY <1>1, <1>2 DEF Revoked

\* The types, and what a request in progress knows, are kept by every step.
LEMMA TypeInvariant == Spec => []TypeInv
<1>1. Init => TypeInv
  BY DEF Init, TypeInv, TypeOK, RequestsNameAccounts, SessionRow, NoRow, NoLogin, NoRequest
<1>2. TypeInv /\ [Next]_vars => TypeInv'
  <2> SUFFICES ASSUME TypeInv, [Next]_vars PROVE TypeInv'
    OBVIOUS
  <2>0. TypeOK /\ RequestsNameAccounts
    BY DEF TypeInv
  <2>1. ASSUME NEW l \in Login, NEW u \in User, LoginRead(l, u) PROVE TypeInv'
    BY <2>0, <2>1 DEF LoginRead, TypeInv, TypeOK, RequestsNameAccounts
  <2>2. ASSUME NEW l \in Login, NEW s \in Session, LoginInsert(l, s) PROVE TypeInv'
    <3> DEFINE row == NewSession(login[l].user, login[l].version,
                                 login[l].password, login[l].logouts)
    <3>1. row \in SessionRow
      BY <2>0, NewSessionType DEF TypeOK
    <3>2. session[s].user = NoUser
      BY <2>2 DEF LoginInsert, NoRow
    <3> HIDE DEF row
    <3>3. session' = [session EXCEPT ![s] = row]
      BY <2>2 DEF LoginInsert, row
    <3>4. TypeOK'
      BY <2>0, <2>2, <3>1, <3>3 DEF LoginInsert, TypeOK, NoLogin
    <3>5. RequestsNameAccounts'
      BY <2>0, <2>2, <3>2, <3>3, SentinelAssumption
         DEF LoginInsert, TypeOK, RequestsNameAccounts
    <3>6. QED
      BY <3>4, <3>5 DEF TypeInv
  <2>3. ASSUME NEW r \in Request, NEW s \in Session, Authenticate(r, s) PROVE TypeInv'
    <3>1. session[s] \in SessionRow /\ session[s].user \in User
      BY <2>0, <2>3 DEF Authenticate, Valid, TypeOK, SessionRow
    <3>2. Touched(session[s]) \in SessionRow /\ Touched(session[s]).user = session[s].user
      BY <2>0, <3>1, TouchedType
    <3>3. TypeOK'
      BY <2>0, <2>3, <3>1, <3>2 DEF Authenticate, TypeOK
    <3>4. \A x \in Session : session'[x].user = session[x].user
      BY <2>0, <2>3, <3>2 DEF Authenticate, TypeOK
    <3>5. RequestsNameAccounts'
      BY <2>0, <2>3, <3>1, <3>4 DEF Authenticate, TypeOK, RequestsNameAccounts
    <3>6. QED
      BY <3>3, <3>5 DEF TypeInv
  <2>4. ASSUME NEW r \in Request, Finish(r) PROVE TypeInv'
    BY <2>0, <2>4 DEF Finish, Done, TypeInv, TypeOK, RequestsNameAccounts, NoRequest
  <2>5. ASSUME NEW r \in Request, Logout(r) PROVE TypeInv'
    <3> DEFINE s == req[r].session
    <3>1. s \in Session /\ session[s] \in SessionRow
      BY <2>0, <2>5 DEF Logout, RequestsNameAccounts, TypeOK
    <3>2. [session[s] EXCEPT !.revoked = TRUE] \in SessionRow
      BY <3>1 DEF SessionRow
    <3>3. session' = [session EXCEPT ![s] = [session[s] EXCEPT !.revoked = TRUE]]
      BY <2>5 DEF Logout
    <3>4. TypeOK'
      BY <2>0, <2>5, <3>1, <3>2, <3>3 DEF Logout, Done, TypeOK, NoRequest
    <3>5. \A x \in Session : session'[x].user = session[x].user
      BY <2>0, <3>1, <3>3 DEF TypeOK, SessionRow
    <3>6. RequestsNameAccounts'
      BY <2>0, <2>5, <3>5 DEF Logout, Done, TypeOK, RequestsNameAccounts
    <3>7. QED
      BY <3>4, <3>6 DEF TypeInv
  <2>6. ASSUME NEW r \in Request, LogoutAll(r) PROVE TypeInv'
    <3>1. Actor(r) \in User
      BY <2>0, <2>6 DEF LogoutAll, Actor, RequestsNameAccounts
    <3>2. /\ session' \in [Session -> SessionRow]
          /\ \A x \in Session : session'[x].user = session[x].user
      BY <2>0, <2>6, RevokedType DEF LogoutAll
    <3>3. TypeOK'
      BY <2>0, <2>6, <3>1, <3>2 DEF LogoutAll, Done, TypeOK, NoRequest
    <3>4. RequestsNameAccounts'
      BY <2>0, <2>6, <3>2 DEF LogoutAll, Done, TypeOK, RequestsNameAccounts
    <3>5. QED
      BY <3>3, <3>4 DEF TypeInv
  <2>7. ASSUME NEW r \in Request, NEW s \in Session, ChangePassword(r, s) PROVE TypeInv'
    <3> DEFINE u == Actor(r)
               row == NewSession(u, version[u] + 1, password[u] + 1, logouts[u])
    <3>1. u \in User
      BY <2>0, <2>7 DEF ChangePassword, Actor, RequestsNameAccounts
    <3>2. /\ version[u] + 1 \in Nat
          /\ password[u] + 1 \in Nat
          /\ logouts[u] \in Nat
      BY <2>0, <3>1 DEF TypeOK
    <3>3. row \in SessionRow
      BY <2>0, <3>1, <3>2, NewSessionType
    <3>4. session[s].user = NoUser
      BY <2>7 DEF ChangePassword, NoRow
    <3>5. /\ session' = [Revoked(u) EXCEPT ![s] = row]
          /\ version' = [version EXCEPT ![u] = @ + 1]
          /\ password' = [password EXCEPT ![u] = @ + 1]
          /\ req' = [req EXCEPT ![r] = NoRequest]
          /\ UNCHANGED <<active, logouts, login, now>>
      BY <2>7 DEF ChangePassword, Done
    <3> HIDE DEF u, row
    <3>6. session' \in [Session -> SessionRow]
      BY <2>0, <3>3, <3>5, RevokedType
    <3>7. \A x \in Session \ {s} : session'[x].user = session[x].user
      BY <2>0, <3>5, RevokedType
    <3>8. TypeOK'
      BY <2>0, <3>2, <3>5, <3>6 DEF TypeOK, NoRequest
    <3>9. RequestsNameAccounts'
      BY <2>0, <3>4, <3>5, <3>7, SentinelAssumption DEF TypeOK, RequestsNameAccounts
    <3>10. QED
      BY <3>8, <3>9 DEF TypeInv
  <2>8. ASSUME NEW u \in User, DisableAccount(u) PROVE TypeInv'
    <3>1. /\ session' \in [Session -> SessionRow]
          /\ \A x \in Session : session'[x].user = session[x].user
      BY <2>0, <2>8, RevokedType DEF DisableAccount
    <3>2. QED
      BY <2>0, <2>8, <3>1 DEF DisableAccount, TypeInv, TypeOK, RequestsNameAccounts
  <2>9. CASE Tick
    BY <2>0, <2>9 DEF Tick, TypeInv, TypeOK, RequestsNameAccounts
  <2>10. CASE UNCHANGED vars
    BY <2>0, <2>10 DEF vars, TypeInv, TypeOK, RequestsNameAccounts
  <2>11. QED
    BY <2>1, <2>2, <2>3, <2>4, <2>5, <2>6, <2>7, <2>8, <2>9, <2>10 DEF Next
<1>3. QED
  BY <1>1, <1>2, PTL DEF Spec

\* The tables keep their types and a request its account.
THEOREM TypeCorrect == Spec => []TypeOK
<1>1. TypeInv => TypeOK
  BY DEF TypeInv
<1>2. QED
  BY <1>1, TypeInvariant, PTL

\* What a step may do to a session row and to the account data it is measured
\* against, seen from VersionCoversPassword.
PasswordCovered(row) ==
    row.user # NoUser =>
        /\ row.version <= version[row.user]
        /\ row.version = version[row.user] => row.password = password[row.user]

LEMMA CoveredAll ==
    VersionCoversPassword <=> /\ \A s \in Session : PasswordCovered(session[s])
                              /\ \A l \in Login : PasswordCovered(login[l])
BY DEF VersionCoversPassword, PasswordCovered

\* A session or a login that carries the current auth_version was verified
\* with the current password, however password changes, logouts, handovers and
\* slow logins interleave.
THEOREM VersionsCoverPasswords == Spec => []VersionCoversPassword
<1>1. Init => VersionCoversPassword
  BY DEF Init, VersionCoversPassword, NoRow, NoLogin
<1>2. TypeInv /\ TypeInv' /\ VersionCoversPassword /\ [Next]_vars => VersionCoversPassword'
  <2> SUFFICES ASSUME TypeInv, TypeInv', VersionCoversPassword, [Next]_vars
               PROVE  VersionCoversPassword'
    OBVIOUS
  <2>0. /\ TypeOK /\ RequestsNameAccounts
        /\ \A s \in Session : session[s] \in SessionRow
        /\ \A u \in User : version[u] \in Nat /\ password[u] \in Nat
    BY DEF TypeInv, TypeOK
  <2>1. ASSUME UNCHANGED <<version, password, login>>,
               \A s \in Session : /\ session'[s].user = session[s].user
                                  /\ session'[s].version = session[s].version
                                  /\ session'[s].password = session[s].password
        PROVE  VersionCoversPassword'
    BY <2>1 DEF VersionCoversPassword
  <2>2. ASSUME NEW l \in Login, NEW u \in User, LoginRead(l, u)
        PROVE  VersionCoversPassword'
    BY <2>0, <2>2 DEF LoginRead, VersionCoversPassword, TypeOK
  <2>3. ASSUME NEW l \in Login, NEW s \in Session, LoginInsert(l, s)
        PROVE  VersionCoversPassword'
    BY <2>0, <2>3 DEF LoginInsert, NewSession, VersionCoversPassword, TypeOK, NoLogin
  <2>4. ASSUME NEW r \in Request, NEW s \in Session, Authenticate(r, s)
        PROVE  VersionCoversPassword'
    BY <2>0, <2>1, <2>4 DEF Authenticate, Touched, TypeOK, SessionRow
  <2>5. ASSUME NEW r \in Request, Logout(r) PROVE VersionCoversPassword'
    BY <2>0, <2>1, <2>5 DEF Logout, TypeOK, SessionRow
  <2>6. ASSUME NEW r \in Request, LogoutAll(r) PROVE VersionCoversPassword'
    BY <2>0, <2>1, <2>6, RevokedType DEF LogoutAll
  <2>7. ASSUME NEW r \in Request, NEW s \in Session, ChangePassword(r, s)
        PROVE  VersionCoversPassword'
    <3> DEFINE u == Actor(r)
    <3>1. u \in User
      BY <2>0, <2>7 DEF ChangePassword, Actor, RequestsNameAccounts
    <3>2. /\ version' = [version EXCEPT ![u] = version[u] + 1]
          /\ password' = [password EXCEPT ![u] = password[u] + 1]
          /\ session' = [Revoked(u) EXCEPT ![s] =
                NewSession(u, version[u] + 1, password[u] + 1, logouts[u])]
          /\ login' = login
      BY <2>7 DEF ChangePassword
    <3> HIDE DEF u
    <3>3. \A x \in User : version'[x] = IF x = u THEN version[x] + 1 ELSE version[x]
      BY <2>0, <3>1, <3>2 DEF TypeOK
    <3>4. \A x \in User : password'[x] = IF x = u THEN password[x] + 1 ELSE password[x]
      BY <2>0, <3>1, <3>2 DEF TypeOK
    <3>5. ASSUME NEW x \in Session
          PROVE  PasswordCovered(session[x])
                   => (session'[x].user # NoUser =>
                         /\ session'[x].version <= version'[session'[x].user]
                         /\ session'[x].version = version'[session'[x].user]
                               => session'[x].password = password'[session'[x].user])
      <4>1. CASE x = s
        BY <2>0, <3>1, <3>2, <3>3, <3>4, <4>1, RevokedType DEF NewSession
      <4>2. CASE x # s
        <5>1. /\ session'[x].user = session[x].user
              /\ session'[x].version = session[x].version
              /\ session'[x].password = session[x].password
          BY <2>0, <3>2, <4>2, RevokedType
        <5>2. /\ session[x].user \in User \cup {NoUser}
              /\ session[x].version \in Nat
          BY <2>0 DEF SessionRow
        <5>3. QED
          BY <2>0, <3>3, <3>4, <5>1, <5>2 DEF PasswordCovered
      <4>3. QED
        BY <4>1, <4>2
    <3>6. ASSUME NEW l \in Login
          PROVE  PasswordCovered(login[l])
                   => (login'[l].user # NoUser =>
                         /\ login'[l].version <= version'[login'[l].user]
                         /\ login'[l].version = version'[login'[l].user]
                               => login'[l].password = password'[login'[l].user])
      <4>1. login[l].user \in User \cup {NoUser} /\ login[l].version \in Nat
        BY <2>0 DEF TypeOK
      <4>2. QED
        BY <2>0, <3>2, <3>3, <3>4, <4>1 DEF PasswordCovered
    <3>7. QED
      BY <3>5, <3>6, CoveredAll DEF VersionCoversPassword
  <2>8. ASSUME NEW u \in User, DisableAccount(u) PROVE VersionCoversPassword'
    <3>1. /\ \A x \in User : version'[x] = IF x = u THEN version[x] + 1 ELSE version[x]
          /\ UNCHANGED <<password, login>>
      BY <2>0, <2>8 DEF DisableAccount, TypeOK
    <3>2. \A x \in Session : /\ session'[x].user = session[x].user
                             /\ session'[x].version = session[x].version
                             /\ session'[x].password = session[x].password
      BY <2>0, <2>8, RevokedType DEF DisableAccount
    <3>3. \A x \in Session : session[x].user \in User \cup {NoUser} /\ session[x].version \in Nat
      BY <2>0 DEF SessionRow
    <3>4. \A l \in Login : login[l].user \in User \cup {NoUser} /\ login[l].version \in Nat
      BY <2>0 DEF TypeOK
    <3>5. QED
      BY <2>0, <3>1, <3>2, <3>3, <3>4 DEF VersionCoversPassword
  <2>9. QED
    BY <2>1, <2>2, <2>3, <2>4, <2>5, <2>6, <2>7, <2>8 DEF Next, Finish, Tick, vars
<1>3. QED
  BY <1>1, <1>2, TypeInvariant, PTL DEF Spec

\* Changing the password ends every session opened with the old one, also
\* those whose login was already verified when the change was made.
THEOREM PasswordChangeEndsSessions == Spec => []ValidSessionKnowsPassword
<1>1. VersionCoversPassword => ValidSessionKnowsPassword
  BY DEF VersionCoversPassword, ValidSessionKnowsPassword, Valid
<1>2. QED
  BY <1>1, VersionsCoverPasswords, PTL

(***************************************************************************)
(* The idle limit.                                                         *)
(***************************************************************************)

\* The last write of a row lies at most SlideAfter before its last use, and the
\* idle limit is measured from that write.
IdleFits(row) ==
    row.user # NoUser =>
        /\ row.seen <= row.used /\ row.used <= row.seen + SlideAfter /\ row.used <= now
        /\ row.idleUntil = Earlier(row.until, row.seen + IdleLife)

IdleInv == \A s \in Session : IdleFits(session[s])

LEMMA NewSessionFits ==
    ASSUME TypeOK, NEW u, NEW ver, NEW pw, NEW out
    PROVE  IdleFits(NewSession(u, ver, pw, out))
BY LifetimeAssumption DEF TypeOK, IdleFits, NewSession, Earlier

LEMMA TouchedFits ==
    ASSUME TypeOK, NEW row \in SessionRow, IdleFits(row)
    PROVE  IdleFits(Touched(row))
<1>1. now \in Nat /\ SlideAfter \in Nat /\ IdleLife \in Nat
  BY LifetimeAssumption DEF TypeOK
<1>2. row.seen \in Nat /\ row.used \in Nat
  BY DEF SessionRow
<1>3. CASE now - row.seen > SlideAfter
  <2> DEFINE limit == Earlier(row.until, now + IdleLife)
             new == [row EXCEPT !.seen = now, !.used = now, !.idleUntil = limit]
  <2>1. /\ new.user = row.user /\ new.seen = now /\ new.used = now
        /\ new.idleUntil = limit /\ new.until = row.until
    BY DEF SessionRow
  <2>2. Touched(row) = new
    BY <1>3 DEF Touched
  <2> HIDE DEF new
  <2> QED
    BY <1>1, <2>1, <2>2 DEF IdleFits
<1>4. CASE ~(now - row.seen > SlideAfter)
  <2> DEFINE new == [row EXCEPT !.used = now]
  <2>1. /\ new.user = row.user /\ new.seen = row.seen /\ new.used = now
        /\ new.idleUntil = row.idleUntil /\ new.until = row.until
    BY DEF SessionRow
  <2>2. Touched(row) = new
    BY <1>4 DEF Touched
  <2> HIDE DEF new
  <2> QED
    BY <1>1, <1>2, <1>4, <2>1, <2>2 DEF IdleFits
<1> QED
  BY <1>3, <1>4

\* A revocation leaves the times of a row alone.
LEMMA RevokedFits ==
    ASSUME NEW row \in SessionRow, IdleFits(row)
    PROVE  IdleFits([row EXCEPT !.revoked = TRUE])
BY DEF IdleFits, SessionRow

LEMMA IdleStep ==
    ASSUME TypeInv, IdleInv, [Next]_vars
    PROVE  IdleInv'
<1>1. /\ TypeOK /\ RequestsNameAccounts
      /\ session \in [Session -> SessionRow] /\ \A s \in Session : session[s] \in SessionRow
  BY DEF TypeInv, TypeOK
<1>2. ASSUME now' = now, NEW f \in [Session -> SessionRow], \A s \in Session : IdleFits(f[s]),
             NEW s \in Session, NEW row, IdleFits(row), session' = [f EXCEPT ![s] = row]
      PROVE  IdleInv'
  BY <1>2 DEF IdleInv, IdleFits
<1>3. ASSUME NEW u PROVE Revoked(u) \in [Session -> SessionRow] /\ \A s \in Session : IdleFits(Revoked(u)[s])
  <2>1. Revoked(u) \in [Session -> SessionRow]
    BY <1>1, RevokedType
  <2>2. ASSUME NEW s \in Session PROVE IdleFits(Revoked(u)[s])
    <3>1. Revoked(u)[s] \in {session[s], [session[s] EXCEPT !.revoked = TRUE]}
      BY DEF Revoked
    <3> QED
      BY <1>1, <3>1, RevokedFits DEF IdleInv
  <2> QED
    BY <2>1, <2>2
<1>4. ASSUME NEW l \in Login, NEW s \in Session, LoginInsert(l, s) PROVE IdleInv'
  BY <1>1, <1>2, <1>4, NewSessionFits DEF LoginInsert, IdleInv
<1>5. ASSUME NEW r \in Request, NEW s \in Session, Authenticate(r, s) PROVE IdleInv'
  <2>1. IdleFits(Touched(session[s]))
    BY <1>1, TouchedFits DEF IdleInv
  <2> QED
    BY <1>1, <1>2, <1>5, <2>1 DEF Authenticate, IdleInv
<1>6. ASSUME NEW r \in Request, Logout(r) PROVE IdleInv'
  <2>1. req[r].session \in Session
    BY <1>1, <1>6 DEF Logout, RequestsNameAccounts
  <2>2. IdleFits([session[req[r].session] EXCEPT !.revoked = TRUE])
    BY <1>1, <2>1, RevokedFits DEF IdleInv
  <2>3. session' = [session EXCEPT ![req[r].session] = [session[req[r].session] EXCEPT !.revoked = TRUE]]
    BY <1>6 DEF Logout
  <2> QED
    BY <1>1, <1>2, <1>6, <2>1, <2>2, <2>3 DEF Logout, IdleInv
<1>7. ASSUME NEW u, session' = Revoked(u), now' = now PROVE IdleInv'
  BY <1>3, <1>7 DEF IdleInv, IdleFits
<1>8. ASSUME NEW r \in Request, NEW s \in Session, ChangePassword(r, s) PROVE IdleInv'
  <2> DEFINE row == NewSession(Actor(r), version[Actor(r)] + 1, password[Actor(r)] + 1,
                               logouts[Actor(r)])
  <2>1. session' = [Revoked(Actor(r)) EXCEPT ![s] = row] /\ now' = now
    BY <1>8 DEF ChangePassword
  <2>2. IdleFits(row)
    BY <1>1, NewSessionFits
  <2> HIDE DEF row
  <2> QED
    BY <1>2, <1>3, <2>1, <2>2
<1>9. CASE Tick
  <2>1. now \in Nat /\ now' = now + 1 /\ session' = session
    BY <1>1, <1>9 DEF Tick, TypeOK
  <2>2. ASSUME NEW s \in Session PROVE IdleFits(session[s])'
    <3>1. session[s].used \in Nat
      BY <1>1 DEF SessionRow
    <3> QED
      BY <2>1, <3>1 DEF IdleInv, IdleFits
  <2> QED
    BY <2>2 DEF IdleInv
<1>10. ASSUME session' = session, now' = now PROVE IdleInv'
  BY <1>10 DEF IdleInv, IdleFits
<1>11. ASSUME NEW l \in Login, NEW u \in User, LoginRead(l, u) PROVE IdleInv'
  BY <1>10, <1>11 DEF LoginRead
<1>12. ASSUME NEW r \in Request, Finish(r) PROVE IdleInv'
  BY <1>10, <1>12 DEF Finish
<1>13. ASSUME NEW r \in Request, LogoutAll(r) PROVE IdleInv'
  BY <1>7, <1>13 DEF LogoutAll
<1>14. ASSUME NEW u \in User, DisableAccount(u) PROVE IdleInv'
  BY <1>7, <1>14 DEF DisableAccount
<1>15. CASE UNCHANGED vars
  BY <1>10, <1>15 DEF vars
<1> QED
  BY <1>4, <1>5, <1>6, <1>8, <1>9, <1>11, <1>12, <1>13, <1>14, <1>15 DEF Next

\* However the writes of a session are spared, its idle limit follows its use to
\* within SlideAfter and never passes its absolute limit.
THEOREM IdleLimitsFollowUse == Spec => []IdleLimitFollowsUse
<1>1. Init => IdleInv
  BY DEF Init, IdleInv, IdleFits, NoRow
<1>2. TypeInv /\ IdleInv /\ [Next]_vars => IdleInv'
  BY IdleStep
<1>3. TypeInv /\ IdleInv => IdleLimitFollowsUse
  <2> SUFFICES ASSUME TypeInv, IdleInv, NEW s \in Session, session[s].user # NoUser
               PROVE  /\ session[s].idleUntil <=
                            Earlier(session[s].until, session[s].used + IdleLife)
                      /\ session[s].idleUntil >=
                            Earlier(session[s].until, session[s].used + IdleLife - SlideAfter)
    BY DEF IdleLimitFollowsUse
  <2>1. session[s].seen \in Nat /\ session[s].used \in Nat /\ session[s].until \in Nat
    BY DEF TypeInv, TypeOK, SessionRow
  <2>2. IdleLife \in Nat /\ SlideAfter \in Nat
    BY LifetimeAssumption
  <2> QED
    BY <2>1, <2>2 DEF IdleInv, IdleFits, Earlier
<1> QED
  BY <1>1, <1>2, <1>3, TypeInvariant, PTL DEF Spec
=============================================================================
