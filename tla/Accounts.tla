------------------------------ MODULE Accounts ------------------------------
(***************************************************************************)
(* Users, their sessions and the requests that come with a session token.  *)
(*                                                                         *)
(* internal/auth/session.go keeps the sessions in a map under a lock:      *)
(* every call is one step.  The users are rows of a table: every SQL       *)
(* statement is one step.  A request is the calls its handler makes, and   *)
(* between two of them the calls of other requests, the clock and a        *)
(* restart may come.                                                       *)
(*                                                                         *)
(* A session's age stands for now - LastActive, counted in ticks; ages     *)
(* above the idle timeout are told apart by nothing and are one value.     *)
(* Passwords are left out: a login either names a user and the user's      *)
(* password, or leaves no trace.                                           *)
(***************************************************************************)
EXTENDS Naturals, Sequences, FiniteSets

CONSTANTS
    Requests,       \* requests that may be in flight at a time
    Tokens,         \* values of newToken; 32 random bytes, never drawn twice
    NoToken,        \* a header or a cookie that is not there
    MaxUsers,       \* bound on the ids of the users table
    InitialRoles,   \* the roles of the rows the server starts with, by id
    Roles,          \* the roles an administrator gives
    MaxSessions,    \* maxSessionsPerUser, as passed to NewManager
    IdleTimeout,    \* sessionIdleTimeout, in ticks
    MaxRestarts     \* bound on the restarts of the server

None == 0           \* no user
NoRole == "none"    \* the role of an id without a row
Users == 1..MaxUsers

ASSUME AccountBounds ==
    /\ MaxUsers \in Nat
    /\ MaxRestarts \in Nat
    /\ IdleTimeout \in Nat
    /\ MaxSessions \in Nat

ASSUME AccountInputs ==
    /\ NoToken \notin Tokens
    /\ {"admin", "user", "guest"} \subseteq Roles
    /\ NoRole \notin Roles
    /\ InitialRoles \in Seq(Roles)
    /\ Len(InitialRoles) <= MaxUsers
    /\ \E u \in 1..Len(InitialRoles) : InitialRoles[u] = "admin"

VARIABLES
    users,          \* usr_role of every row; NoRole where there is no row
    usrSeq,         \* last id given out: AUTOINCREMENT never gives it again
    sessions,       \* Manager.sessions: a function from the live tokens
    issued,         \* tokens drawn so far
    req,            \* the requests
    restarts        \* counts the restarts, for the bound only

vars == <<users, usrSeq, sessions, issued, req, restarts>>

Ages == 0..(IdleTimeout + 1)
Session == [user : Users, role : Roles, age : Ages]
Steps == {"idle", "create", "cookie", "handler", "count", "delete"}
Answers == {"none", "ok", "limit", "refused"}
Request == [pc : Steps, token : Tokens \union {NoToken}, user : Users \union {None},
            role : Roles \union {NoRole}, target : Users \union {None}, answer : Answers]

Idle(answer) == [pc |-> "idle", token |-> NoToken, user |-> None, role |-> NoRole,
                 target |-> None, answer |-> answer]

\* A request under way, with what it holds between two calls.
Holding(pc, token, user, role) ==
    [pc |-> pc, token |-> token, user |-> user, role |-> role,
     target |-> None, answer |-> "none"]

TypeOK ==
    /\ users \in [Users -> Roles \union {NoRole}]
    /\ usrSeq \in 0..MaxUsers
    /\ issued \subseteq Tokens
    /\ DOMAIN sessions \subseteq issued
    /\ \A t \in DOMAIN sessions : sessions[t] \in Session
    /\ req \in [Requests -> Request]
    /\ restarts \in 0..MaxRestarts

Init ==
    /\ users = [u \in Users |-> IF u <= Len(InitialRoles) THEN InitialRoles[u] ELSE NoRole]
    /\ usrSeq = Len(InitialRoles)
    /\ sessions = [t \in {} |-> Idle("none")]
    /\ issued = {}
    /\ req = [r \in Requests |-> Idle("none")]
    /\ restarts = 0

-----------------------------------------------------------------------------
(* The session manager: what each call makes of the map.                   *)

\* How long a session may have been idle and still be a session.
Expired(session) == session.age > IdleTimeout

\* Mutant: expired sessions stay in the map.
PruneNothing(map) == map
PruneLocked(map) == [t \in {x \in DOMAIN map : ~Expired(map[x])} |-> map[t]]

\* Mutant: the comparison is off by one.
RoomForOneMore(map) == Cardinality(DOMAIN map) <= MaxSessions

HasRoom(map) == Cardinality(DOMAIN map) < MaxSessions

\* m.sessions[token] = session
WithSession(map, t, user, role) ==
    [x \in DOMAIN map \union {t} |->
        IF x = t THEN [user |-> user, role |-> role, age |-> 0] ELSE map[x]]

Touched(map, t) == [x \in DOMAIN map |-> IF x = t THEN [map[x] EXCEPT !.age = 0] ELSE map[x]]

Without(map, t) == [x \in DOMAIN map \ {t} |-> map[x]]

\* Time passes for every session; a tick is a part of the idle timeout.
Tick ==
    /\ sessions' = [t \in DOMAIN sessions |->
           [sessions[t] EXCEPT !.age = IF @ > IdleTimeout THEN @ ELSE @ + 1]]
    /\ UNCHANGED <<users, usrSeq, issued, req, restarts>>

-----------------------------------------------------------------------------
(* Login: the row is read, the password verified, the session created.     *)

Free(r) == req[r].pc = "idle"

Creating == {r \in Requests : req[r].pc = "create"}

\* The tokens last for every login under way: a bound of the model.
TokensLeft == Cardinality(issued) + Cardinality(Creating) < Cardinality(Tokens)

\* AuthenticateUser finds the row and the password fits.
AuthenticateCredentials(r, u) ==
    /\ Free(r)
    /\ users[u] # NoRole
    /\ TokensLeft
    /\ req' = [req EXCEPT ![r] = Holding("create", NoToken, u, users[u])]
    /\ UNCHANGED <<users, usrSeq, sessions, issued, restarts>>

Create(r) ==
    /\ req[r].pc = "create"
    /\ HasRoom(PruneLocked(sessions))
    /\ \E t \in Tokens \ issued :
           /\ sessions' = WithSession(PruneLocked(sessions), t, req[r].user, req[r].role)
           /\ issued' = issued \union {t}
    /\ req' = [req EXCEPT ![r] = Idle("ok")]
    /\ UNCHANGED <<users, usrSeq, restarts>>

\* Mutant: a refusal that counts as activity of every session.
RefuseAndTouch(r) ==
    /\ req[r].pc = "create"
    /\ ~HasRoom(PruneLocked(sessions))
    /\ sessions' = [t \in DOMAIN PruneLocked(sessions) |-> [sessions[t] EXCEPT !.age = 0]]
    /\ req' = [req EXCEPT ![r] = Idle("limit")]
    /\ UNCHANGED <<users, usrSeq, issued, restarts>>

\* ErrSessionLimit: the map has been pruned all the same.
RefuseSession(r) ==
    /\ req[r].pc = "create"
    /\ ~HasRoom(PruneLocked(sessions))
    /\ sessions' = PruneLocked(sessions)
    /\ req' = [req EXCEPT ![r] = Idle("limit")]
    /\ UNCHANGED <<users, usrSeq, issued, restarts>>

-----------------------------------------------------------------------------
(* withSession: the token of the request becomes its principal.            *)

\* Mutant: lookup first and pruning after it: a session that has expired is served.
GetBeforePrune(r, t) ==
    /\ t \in DOMAIN sessions
    /\ sessions' = PruneLocked(Touched(sessions, t))
    /\ req' = [req EXCEPT ![r] =
                  Holding("handler", t, sessions[t].user, sessions[t].role)]

\* Manager.Get on a token that is there: its principal goes to the handler.
GetHit(r, t) ==
    /\ t \in DOMAIN PruneLocked(sessions)
    /\ sessions' = Touched(PruneLocked(sessions), t)
    /\ req' = [req EXCEPT ![r] =
                  Holding("handler", t, sessions[t].user, sessions[t].role)]

GetMiss(t) ==
    /\ t \notin DOMAIN PruneLocked(sessions)
    /\ sessions' = PruneLocked(sessions)

\* A request presents a bearer token, a cookie, or both; the cookie counts
\* when the bearer token does not open a session.
SessionFromRequest(r, bearer, cookie) ==
    /\ Free(r)
    /\ \/ /\ GetHit(r, bearer)
       \/ /\ bearer = NoToken
          /\ GetHit(r, cookie)
       \/ /\ bearer # NoToken
          /\ cookie # NoToken
          /\ GetMiss(bearer)
          /\ req' = [req EXCEPT ![r] = Holding("cookie", cookie, None, NoRole)]
       \/ /\ bearer # NoToken
          /\ cookie = NoToken
          /\ GetMiss(bearer)
          /\ req' = [req EXCEPT ![r] = Idle("refused")]
       \/ /\ bearer = NoToken
          /\ cookie # NoToken
          /\ GetMiss(cookie)
          /\ req' = [req EXCEPT ![r] = Idle("refused")]
    /\ UNCHANGED <<users, usrSeq, issued, restarts>>

\* The second lookup of a request whose bearer token opened nothing.
CookieAfterBearer(r) ==
    /\ req[r].pc = "cookie"
    /\ \/ GetHit(r, req[r].token)
       \/ /\ GetMiss(req[r].token)
          /\ req' = [req EXCEPT ![r] = Idle("refused")]
    /\ UNCHANGED <<users, usrSeq, issued, restarts>>

-----------------------------------------------------------------------------
(* The handlers behind withSession.                                        *)

Handling(r) == req[r].pc = "handler"

Answer(r, answer) == req' = [req EXCEPT ![r] = Idle(answer)]

Logout(r) ==
    /\ Handling(r)
    /\ sessions' = Without(sessions, req[r].token)
    /\ Answer(r, "ok")
    /\ UNCHANGED <<users, usrSeq, issued, restarts>>

\* Every handler that touches neither users nor sessions, and every one that
\* is refused: for the role of the principal, for a row that is not there, for
\* a login name that is taken.
OtherHandler(r) ==
    /\ Handling(r)
    /\ Answer(r, "ok")
    /\ UNCHANGED <<users, usrSeq, sessions, issued, restarts>>

\* WriteRoles of the users table.
MayWriteUsers(r) == Handling(r) /\ req[r].role = "admin"

InsertUser(r, role) ==
    /\ MayWriteUsers(r)
    /\ usrSeq < MaxUsers
    /\ usrSeq' = usrSeq + 1
    /\ users' = [users EXCEPT ![usrSeq + 1] = role]
    /\ Answer(r, "ok")
    /\ UNCHANGED <<sessions, issued, restarts>>

\* An update may name any role; nothing counts the admins.
UpdateUser(r, u, role) ==
    /\ MayWriteUsers(r)
    /\ users[u] # NoRole
    /\ users' = [users EXCEPT ![u] = role]
    /\ Answer(r, "ok")
    /\ UNCHANGED <<usrSeq, sessions, issued, restarts>>

\* apiDeleteRecord and handleTableDelete: Get the row first.  An admin's row
\* leads to the count, any other to the deletion; without a row the API goes
\* on to the deletion and the form answers at once.
StartDeleteUser(r, u) ==
    /\ MayWriteUsers(r)
    /\ \/ req' = [req EXCEPT ![r].pc = IF users[u] = "admin" THEN "count" ELSE "delete",
                             ![r].target = u]
       \/ /\ users[u] = NoRole
          /\ Answer(r, "refused")
    /\ UNCHANGED <<users, usrSeq, sessions, issued, restarts>>

Admins == {u \in Users : users[u] = "admin"}

\* The count may spare the last admin.
LastAdmin == Cardinality(Admins) <= 1

CountAdmins(r) ==
    /\ req[r].pc = "count"
    /\ \/ /\ LastAdmin
          /\ Answer(r, "refused")
       \/ /\ ~LastAdmin
          /\ req' = [req EXCEPT ![r].pc = "delete"]
    /\ UNCHANGED <<users, usrSeq, sessions, issued, restarts>>

\* The DELETE; sessions of the user are left as they are.  It fails where
\* rows of other tables point to the user.
DeleteUser(r) ==
    /\ req[r].pc = "delete"
    /\ \/ /\ users[req[r].target] # NoRole
          /\ users' = [users EXCEPT ![req[r].target] = NoRole]
          /\ Answer(r, "ok")
       \/ /\ Answer(r, "refused")
          /\ UNCHANGED users
    /\ UNCHANGED <<usrSeq, sessions, issued, restarts>>

-----------------------------------------------------------------------------
(* Faults.                                                                 *)

\* The client hangs up: the next statement of its request fails.
Abort(r) ==
    /\ req[r].pc \in {"handler", "count", "delete"}
    /\ Answer(r, "refused")
    /\ UNCHANGED <<users, usrSeq, sessions, issued, restarts>>

\* seedDefaults gives an empty users table its three rows.
Seeded ==
    IF \E u \in Users : users[u] # NoRole
    THEN UNCHANGED <<users, usrSeq>>
    ELSE /\ usrSeq + 3 <= MaxUsers
         /\ usrSeq' = usrSeq + 3
         /\ users' = [users EXCEPT ![usrSeq + 1] = "admin", ![usrSeq + 2] = "user",
                                   ![usrSeq + 3] = "guest"]

\* The process stops and starts: sessions are in memory, users are not.
Restart ==
    /\ restarts < MaxRestarts
    /\ restarts' = restarts + 1
    /\ sessions' = [t \in {} |-> Idle("none")]
    /\ req' = [r \in Requests |-> Idle("none")]
    /\ Seeded
    /\ UNCHANGED issued

-----------------------------------------------------------------------------
LoginStep(r) ==
    \/ \E u \in Users : AuthenticateCredentials(r, u)
    \/ Create(r)
    \/ RefuseSession(r)

SessionStep(r) ==
    \/ \E bearer, cookie \in issued \union {NoToken} : SessionFromRequest(r, bearer, cookie)
    \/ CookieAfterBearer(r)

UserStep(r) ==
    \/ \E role \in Roles : InsertUser(r, role)
    \/ \E u \in Users, role \in Roles : UpdateUser(r, u, role)
    \/ \E u \in Users : StartDeleteUser(r, u)
    \/ CountAdmins(r)
    \/ DeleteUser(r)

RequestStep(r) ==
    \/ LoginStep(r)
    \/ SessionStep(r)
    \/ Logout(r)
    \/ OtherHandler(r)
    \/ UserStep(r)
    \/ Abort(r)

Next ==
    \/ Tick
    \/ \E r \in Requests : RequestStep(r)
    \/ Restart

Spec == Init /\ [][Next]_vars

\* Time passes, and a login that has been checked is answered.
Fairness ==
    /\ WF_vars(Tick)
    /\ \A r \in Requests : WF_vars(Create(r) \/ RefuseSession(r))

FairSpec == Spec /\ Fairness

-----------------------------------------------------------------------------
(* Properties.                                                             *)

\* Tokens that a request presented now would be served with.
Unexpired == {t \in DOMAIN sessions : sessions[t].age <= IdleTimeout}

\* The manager keeps the promises of SessionLifetimes: tokens are given out
\* once, no more than MaxSessions are good, and none becomes good again.
Lifetimes == INSTANCE SessionLifetimes WITH fresh <- Tokens \ issued, good <- Unexpired

ImplementsSessionLifetimes == Lifetimes!Spec

\* The session map never holds more than MaxSessions entries, expired ones
\* that nobody has pruned included.
SessionCap == Cardinality(DOMAIN sessions) <= MaxSessions

\* "sessions expire after 15 minutes of inactivity": a request reaches its
\* handler only with a session that was used within the idle timeout, and
\* as the user and in the role that session was opened with.
ServedWhileActive ==
    [][\A r \in Requests : ~Handling(r) /\ req'[r].pc = "handler" =>
          /\ req'[r].token \in Unexpired
          /\ req'[r].user = sessions[req'[r].token].user
          /\ req'[r].role = sessions[req'[r].token].role]_vars

\* Sessions that have expired take no room, whether or not somebody has pruned
\* them: as many sessions as the limit are in use when a login is refused.
\* Whose they are is the business of RefusedForOwnSessions.
ExpiredTakeNoRoom ==
    [][\A r \in Requests : req[r].pc = "create" /\ req'[r].answer = "limit" =>
          Cardinality(Unexpired) >= MaxSessions]_vars

SessionsOf(u) == {t \in Unexpired : sessions[t].user = u}

\* "at most 5 sessions are active per user; additional login attempts for that
\* user are rejected until one expires or logs out": a login is refused for the
\* sessions of its own user.  The code counts those of all users and breaks this.
RefusedForOwnSessions ==
    [][\A r \in Requests : req[r].pc = "create" /\ req'[r].answer = "limit" =>
          Cardinality(SessionsOf(req[r].user)) >= MaxSessions]_vars

\* If no session is used any more, there is room for a login again and again:
\* what keeps sessions alive is their use and nothing else.
LockoutEnds ==
    <>[][\A r \in Requests : Handling(r) \/ req'[r].pc # "handler"]_vars
        => []<>(Cardinality(Unexpired) < MaxSessions)

\* "Guard against deleting the last admin account": no deletion of a user
\* takes the number of admins to zero.
LastAdminNotDeleted ==
    [][\A r \in Requests : req[r].pc = "delete" /\ req'[r].answer = "ok" /\ Admins # {}
          => Admins' # {}]_vars
=============================================================================
