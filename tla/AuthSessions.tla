---------------------------- MODULE AuthSessions ----------------------------
(***************************************************************************)
(* Passwords, logins and browser sessions: app/auth.py.                    *)
(*                                                                         *)
(* A login reads the account and verifies the password before it inserts   *)
(* the session row, and the Argon2 verification in between is long.  Every *)
(* other API request is authenticated by the middleware in a transaction   *)
(* of its own and acts afterwards, so an account can change between the    *)
(* two.  A password is identified by its generation: 1 for the one chosen  *)
(* at registration, one more for each change.  Time is a bounded clock;    *)
(* NOW() is the start of a transaction, so one transaction judges a        *)
(* session at one instant.                                                 *)
(***************************************************************************)
EXTENDS Integers

CONSTANTS
    User, Session, Login, Request,
    NoUser, NoSession,
    AbsoluteLife,    \* session_absolute_hours
    IdleLife,        \* session_idle_minutes
    SlideAfter,      \* the 5 minutes after which authentication writes again
    Horizon,         \* bound on the clock
    MaxGeneration,   \* bound on password changes
    MaxLogoutAll     \* bound on full logouts

ASSUME SentinelAssumption == NoUser \notin User /\ NoSession \notin Session

ASSUME LifetimeAssumption ==
    /\ {AbsoluteLife, IdleLife, SlideAfter, Horizon, MaxGeneration, MaxLogoutAll} \subseteq Nat
    /\ 0 < AbsoluteLife
    /\ SlideAfter < IdleLife

VARIABLES
    active,      \* users.status = 'active'
    version,     \* users.auth_version
    password,    \* user_credentials: the generation of the current password
    logouts,     \* how often logout-all ran (history)
    session,     \* user_sessions
    login,       \* logins between their SELECT and their INSERT
    req,         \* authenticated requests that have not acted yet
    now

vars == <<active, version, password, logouts, session, login, req, now>>

NoLogin == [user |-> NoUser, version |-> 0, password |-> 0, logouts |-> 0]
NoRequest == [session |-> NoSession, typed |-> 0]
NoRow == [user |-> NoUser, version |-> 0, revoked |-> FALSE, seen |-> 0,
          idleUntil |-> 0, until |-> 0, used |-> 0, password |-> 0, logouts |-> 0]

\* A row of user_sessions; used, password and logouts are history: the last
\* time the session was shown, the password it was opened with and the number
\* of full logouts before the login that opened it began.
SessionRow ==
    [user : User \cup {NoUser}, version : Nat, revoked : BOOLEAN, seen : Nat,
     idleUntil : Nat, until : Nat, used : Nat, password : Nat, logouts : Nat]

TypeOK ==
    /\ active \in [User -> BOOLEAN]
    /\ version \in [User -> Nat]
    /\ password \in [User -> Nat]
    /\ logouts \in [User -> Nat]
    /\ session \in [Session -> SessionRow]
    /\ login \in [Login -> [user : User \cup {NoUser}, version : Nat,
                            password : Nat, logouts : Nat]]
    /\ req \in [Request -> [session : Session \cup {NoSession}, typed : Nat]]
    /\ now \in Nat

Init ==
    /\ active = [u \in User |-> TRUE]
    /\ version = [u \in User |-> 1]
    /\ password = [u \in User |-> 1]
    /\ logouts = [u \in User |-> 0]
    /\ session = [s \in Session |-> NoRow]
    /\ login = [l \in Login |-> NoLogin]
    /\ req = [r \in Request |-> NoRequest]
    /\ now = 0

Earlier(a, b) == IF a < b THEN a ELSE b

\* Mutant: the last use is dated back so that the next one writes.
NewSessionDatedBack(u, ver, pw, out) ==
    [user |-> u, version |-> ver, revoked |-> FALSE, seen |-> now - SlideAfter - 1,
     idleUntil |-> Earlier(now + AbsoluteLife, now + IdleLife),
     until |-> now + AbsoluteLife,
     used |-> now, password |-> pw, logouts |-> out]

\* The row _create_session inserts for what the caller read of the account.
NewSession(u, ver, pw, out) ==
    [user |-> u, version |-> ver, revoked |-> FALSE, seen |-> now,
     idleUntil |-> Earlier(now + AbsoluteLife, now + IdleLife),
     until |-> now + AbsoluteLife,
     used |-> now, password |-> pw, logouts |-> out]

\* Mutant: auth_version is not compared.
ValidAnyVersion(s) ==
    LET row == session[s] IN
    /\ row.user # NoUser
    /\ ~row.revoked
    /\ row.until > now
    /\ row.idleUntil > now
    /\ active[row.user]

\* The WHERE clause of authenticate_session and of session_is_active.
Valid(s) ==
    LET row == session[s] IN
    /\ row.user # NoUser
    /\ ~row.revoked
    /\ row.until > now
    /\ row.idleUntil > now
    /\ row.version = version[row.user]
    /\ active[row.user]

(***************************************************************************)
(* Logging in.                                                             *)
(***************************************************************************)

\* login_user reads the account with its password hash and verifies the
\* password against it; a wrong one changes nothing.
LoginRead(l, u) ==
    /\ login[l] = NoLogin
    /\ active[u]
    /\ login' = [login EXCEPT ![l] = [user |-> u, version |-> version[u],
                                      password |-> password[u], logouts |-> logouts[u]]]
    /\ UNCHANGED <<active, version, password, logouts, session, req, now>>

\* Mutant: auth_version is read again when the session is inserted.
LoginInsertRereads(l, s) ==
    /\ login[l] # NoLogin
    /\ session[s] = NoRow
    /\ session' = [session EXCEPT ![s] =
                      NewSession(login[l].user, version[login[l].user],
                                 login[l].password, login[l].logouts)]
    /\ login' = [login EXCEPT ![l] = NoLogin]
    /\ UNCHANGED <<active, version, password, logouts, req, now>>

\* The session carries the auth_version that was read with the password hash.
LoginInsert(l, s) ==
    /\ login[l] # NoLogin
    /\ session[s] = NoRow
    /\ session' = [session EXCEPT ![s] =
                      NewSession(login[l].user, login[l].version,
                                 login[l].password, login[l].logouts)]
    /\ login' = [login EXCEPT ![l] = NoLogin]
    /\ UNCHANGED <<active, version, password, logouts, req, now>>

(***************************************************************************)
(* Authenticated requests.                                                 *)
(***************************************************************************)

\* Mutant: the idle limit may pass the absolute one.
TouchedUnbounded(row) ==
    IF now - row.seen > SlideAfter
    THEN [row EXCEPT !.seen = now, !.used = now, !.idleUntil = now + IdleLife]
    ELSE [row EXCEPT !.used = now]

\* The row after authenticate_session: the idle limit moves only when the last
\* write is old enough, and never past the absolute limit.
Touched(row) ==
    IF now - row.seen > SlideAfter
    THEN [row EXCEPT !.seen = now, !.used = now,
                     !.idleUntil = Earlier(row.until, now + IdleLife)]
    ELSE [row EXCEPT !.used = now]

Authenticate(r, s) ==
    /\ req[r] = NoRequest
    /\ Valid(s)
    /\ session' = [session EXCEPT ![s] = Touched(session[s])]
    /\ req' = [req EXCEPT ![r] = [session |-> s, typed |-> password[session[s].user]]]
    /\ UNCHANGED <<active, version, password, logouts, login, now>>

Actor(r) == session[req[r].session].user
Done(r) == req' = [req EXCEPT ![r] = NoRequest]

\* A request that leaves accounts and sessions alone, or fails.
Finish(r) ==
    /\ req[r] # NoRequest
    /\ Done(r)
    /\ UNCHANGED <<active, version, password, logouts, session, login, now>>

Logout(r) ==
    /\ req[r] # NoRequest
    /\ session' = [session EXCEPT ![req[r].session].revoked = TRUE]
    /\ Done(r)
    /\ UNCHANGED <<active, version, password, logouts, login, now>>

\* UPDATE user_sessions SET revoked_at ... WHERE user_id = u.
Revoked(u) ==
    [s \in Session |-> IF session[s].user = u THEN [session[s] EXCEPT !.revoked = TRUE]
                                              ELSE session[s]]

\* revoke_all_sessions: the open sessions are revoked, auth_version stays.
LogoutAll(r) ==
    /\ req[r] # NoRequest
    /\ logouts[Actor(r)] < MaxLogoutAll
    /\ session' = Revoked(Actor(r))
    /\ logouts' = [logouts EXCEPT ![Actor(r)] = @ + 1]
    /\ Done(r)
    /\ UNCHANGED <<active, version, password, login, now>>

\* The password is verified under the lock of the credentials row, so of two
\* overlapping changes the second is refused.  All sessions are revoked and
\* one is opened for the caller with the new auth_version.
ChangePassword(r, s) ==
    LET u == Actor(r) IN
    /\ req[r] # NoRequest
    /\ password[u] < MaxGeneration
    /\ req[r].typed = password[u]
    /\ session[s] = NoRow
    /\ password' = [password EXCEPT ![u] = @ + 1]
    /\ version' = [version EXCEPT ![u] = @ + 1]
    /\ session' = [Revoked(u) EXCEPT ![s] =
                      NewSession(u, version[u] + 1, password[u] + 1, logouts[u])]
    /\ Done(r)
    /\ UNCHANGED <<active, logouts, login, now>>

\* The end of accept_data_handover for the account handed over.
DisableAccount(u) ==
    /\ active[u]
    /\ active' = [active EXCEPT ![u] = FALSE]
    /\ version' = [version EXCEPT ![u] = @ + 1]
    /\ session' = Revoked(u)
    /\ UNCHANGED <<password, logouts, login, req, now>>

Tick ==
    /\ now < Horizon
    /\ now' = now + 1
    /\ UNCHANGED <<active, version, password, logouts, session, login, req>>

Next ==
    \/ \E l \in Login : \/ \E u \in User : LoginRead(l, u)
                        \/ \E s \in Session : LoginInsert(l, s)
    \/ \E r \in Request : \/ \E s \in Session : Authenticate(r, s) \/ ChangePassword(r, s)
                          \/ Finish(r)
                          \/ Logout(r)
                          \/ LogoutAll(r)
    \/ \E u \in User : DisableAccount(u)
    \/ Tick

Spec == Init /\ [][Next]_vars

(***************************************************************************)
(* Properties.                                                             *)
(***************************************************************************)

\* Every session that authenticates was opened with the password the account
\* has now: a login that verified the old password, however late it inserts
\* its session, gets nothing after the change.
ValidSessionKnowsPassword ==
    \A s \in Session : Valid(s) => session[s].password = password[session[s].user]

\* Why it holds: auth_version grows with every password, so a session or a
\* login with the current version was verified with the current password.
VersionCoversPassword ==
    /\ \A s \in Session : LET row == session[s] IN row.user # NoUser =>
          /\ row.version <= version[row.user]
          /\ row.version = version[row.user] => row.password = password[row.user]
    /\ \A l \in Login : LET rd == login[l] IN rd.user # NoUser =>
          /\ rd.version <= version[rd.user]
          /\ rd.version = version[rd.user] => rd.password = password[rd.user]

\* A session nobody has shown for IdleLife, or that is AbsoluteLife old, is
\* dead, and one that is shown more often than every IdleLife - SlideAfter
\* never dies of idleness before its absolute limit, although authentication
\* does not write the row every time.
IdleLimitFollowsUse ==
    \A s \in Session : LET row == session[s] IN row.user # NoUser =>
        /\ row.idleUntil <= Earlier(row.until, row.used + IdleLife)
        /\ row.idleUntil >= Earlier(row.until, row.used + IdleLife - SlideAfter)

\* "修改密码或全量登出时递增，使旧会话立即失效": after a full logout no session
\* is valid whose login had begun before it.
LogoutAllEndsOlderLogins ==
    \A s \in Session : Valid(s) => session[s].logouts = logouts[session[s].user]
=============================================================================
