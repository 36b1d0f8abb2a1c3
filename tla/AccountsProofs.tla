--------------------------- MODULE AccountsProofs ---------------------------
(***************************************************************************)
(* Theorems of Accounts: its types, the cap on sessions, who is served and *)
(* refused, that the session manager implements SessionLifetimes, and that *)
(* deletions spare the last admin, for any number of requests, users,      *)
(* tokens and restarts and any timeout.                                    *)
(***************************************************************************)
EXTENDS Accounts, FiniteSetTheorems, TLAPS

\* What the program counter of a request says of its locals.
RequestsWellFormed ==
    \A r \in Requests :
        /\ req[r].pc = "create" => req[r].user \in Users /\ req[r].role \in Roles
        /\ req[r].pc \in {"count", "delete"} => req[r].target \in Users

TypeInv == TypeOK /\ RequestsWellFormed

USE DEF None, NoRole

-----------------------------------------------------------------------------
(* The calls on the session map keep its type.                             *)

SessionMap(map) ==
    /\ DOMAIN map \subseteq Tokens
    /\ \A t \in DOMAIN map : map[t] \in Session

LEMMA IdleType ==
    ASSUME NEW answer \in Answers
    PROVE  /\ Idle(answer) \in Request
           /\ Idle(answer).pc = "idle"
  BY DEF Idle, Request, Steps, Answers

LEMMA HoldingType ==
    ASSUME NEW pc \in Steps, NEW token \in Tokens \union {NoToken},
           NEW user \in Users \union {None}, NEW role \in Roles \union {NoRole}
    PROVE  /\ Holding(pc, token, user, role) \in Request
           /\ Holding(pc, token, user, role).pc = pc
           /\ Holding(pc, token, user, role).user = user
           /\ Holding(pc, token, user, role).role = role
  BY DEF Holding, Request, Answers

LEMMA PruneLockedType ==
    ASSUME NEW map, SessionMap(map)
    PROVE  /\ SessionMap(PruneLocked(map))
           /\ DOMAIN PruneLocked(map) \subseteq DOMAIN map
           /\ \A t \in DOMAIN PruneLocked(map) : PruneLocked(map)[t] = map[t]
  BY DEF SessionMap, PruneLocked

LEMMA TouchedType ==
    ASSUME NEW map, SessionMap(map), NEW t
    PROVE  SessionMap(Touched(map, t)) /\ DOMAIN Touched(map, t) = DOMAIN map
  <1>1. DOMAIN Touched(map, t) = DOMAIN map
    BY DEF Touched
  <1>2. ASSUME NEW x \in DOMAIN map PROVE Touched(map, t)[x] \in Session
    <2>1. map[x] \in Session
      BY DEF SessionMap
    <2>2. [map[x] EXCEPT !.age = 0] \in Session
      BY <2>1, AccountBounds DEF Session, Ages
    <2>3. QED
      BY <2>1, <2>2 DEF Touched
  <1>3. QED
    BY <1>1, <1>2 DEF SessionMap

LEMMA WithSessionType ==
    ASSUME NEW map, SessionMap(map), NEW t \in Tokens, NEW user \in Users, NEW role \in Roles
    PROVE  /\ SessionMap(WithSession(map, t, user, role))
           /\ DOMAIN WithSession(map, t, user, role) = DOMAIN map \union {t}
  <1>1. DOMAIN WithSession(map, t, user, role) = DOMAIN map \union {t}
    BY DEF WithSession
  <1>2. [user |-> user, role |-> role, age |-> 0] \in Session
    BY AccountBounds DEF Session, Ages
  <1>3. ASSUME NEW x \in DOMAIN map \union {t}
        PROVE  WithSession(map, t, user, role)[x] \in Session
    BY <1>2 DEF WithSession, SessionMap
  <1>4. QED
    BY <1>1, <1>3 DEF SessionMap

LEMMA WithoutType ==
    ASSUME NEW map, SessionMap(map), NEW t
    PROVE  SessionMap(Without(map, t)) /\ DOMAIN Without(map, t) = DOMAIN map \ {t}
  BY DEF SessionMap, Without

LEMMA TypeOKSessions ==
    ASSUME TypeOK
    PROVE  SessionMap(sessions) /\ issued \subseteq Tokens /\ DOMAIN sessions \subseteq issued
  BY DEF TypeOK, SessionMap

-----------------------------------------------------------------------------
(* Every action keeps the type invariant.                                  *)

LEMMA InitType == Init => TypeInv
  <1> SUFFICES ASSUME Init PROVE TypeInv
    OBVIOUS
  <1>1. users \in [Users -> Roles \union {"none"}]
    <2>1. ASSUME NEW u \in Users, u <= Len(InitialRoles) PROVE InitialRoles[u] \in Roles
      BY <2>1, AccountInputs, AccountBounds DEF Users
    <2>2. QED
      BY <2>1 DEF Init
  <1>2. usrSeq \in 0..MaxUsers
    BY AccountInputs, AccountBounds DEF Init
  <1>3. Idle("none") \in Request /\ Idle("none").pc = "idle"
    BY IdleType DEF Answers
  <1>4. req \in [Requests -> Request] /\ RequestsWellFormed
    BY <1>3 DEF Init, RequestsWellFormed
  <1>5. issued \subseteq Tokens /\ DOMAIN sessions \subseteq issued
        /\ \A t \in DOMAIN sessions : sessions[t] \in Session
    BY DEF Init
  <1>6. restarts \in 0..MaxRestarts
    BY AccountBounds DEF Init
  <1>7. QED
    BY <1>1, <1>2, <1>4, <1>5, <1>6 DEF TypeInv, TypeOK

\* A step that changes the session map and one request.
LEMMA RequestChangeType ==
    ASSUME TypeInv, NEW r \in Requests, NEW q \in Request,
           req' = [req EXCEPT ![r] = q],
           q.pc = "create" => q.user \in Users /\ q.role \in Roles,
           q.pc \in {"count", "delete"} => q.target \in Users
    PROVE  req' \in [Requests -> Request] /\ RequestsWellFormed'
  BY DEF TypeInv, TypeOK, RequestsWellFormed

LEMMA AnswerType ==
    ASSUME TypeInv, NEW r \in Requests, NEW answer \in Answers, Answer(r, answer)
    PROVE  req' \in [Requests -> Request] /\ RequestsWellFormed'
  <1>1. Idle(answer) \in Request /\ Idle(answer).pc = "idle"
    BY IdleType
  <1>2. PICK q : q = Idle(answer)
    OBVIOUS
  <1>3. q \in Request /\ q.pc = "idle" /\ req' = [req EXCEPT ![r] = q]
    BY <1>1, <1>2 DEF Answer
  <1>4. QED
    BY <1>3, RequestChangeType

LEMMA GetHitType ==
    ASSUME TypeInv, NEW r \in Requests, NEW t, GetHit(r, t)
    PROVE  /\ req' \in [Requests -> Request] /\ RequestsWellFormed'
           /\ SessionMap(sessions') /\ DOMAIN sessions' \subseteq DOMAIN sessions
  <1>1. SessionMap(sessions) /\ SessionMap(PruneLocked(sessions))
        /\ t \in DOMAIN sessions /\ DOMAIN PruneLocked(sessions) \subseteq DOMAIN sessions
    BY TypeOKSessions, PruneLockedType DEF GetHit, TypeInv
  <1>2. SessionMap(sessions') /\ DOMAIN sessions' \subseteq DOMAIN sessions
    BY <1>1, TouchedType DEF GetHit
  <1>3. t \in Tokens /\ sessions[t].user \in Users /\ sessions[t].role \in Roles
    BY <1>1 DEF SessionMap, Session
  <1>4. PICK q : q = Holding("handler", t, sessions[t].user, sessions[t].role)
    OBVIOUS
  <1>5. q \in Request /\ q.pc = "handler"
    BY <1>3, <1>4, HoldingType DEF Steps
  <1>6. req' = [req EXCEPT ![r] = q]
    BY <1>4 DEF GetHit
  <1>7. QED
    BY <1>2, <1>5, <1>6, RequestChangeType

LEMMA GetMissType ==
    ASSUME TypeInv, NEW t, GetMiss(t)
    PROVE  SessionMap(sessions') /\ DOMAIN sessions' \subseteq DOMAIN sessions
  BY TypeOKSessions, PruneLockedType DEF GetMiss, TypeInv

LEMMA AssembleType ==
    ASSUME TypeInv,
           users' \in [Users -> Roles \union {"none"}], usrSeq' \in 0..MaxUsers,
           SessionMap(sessions'), issued' \subseteq Tokens,
           DOMAIN sessions' \subseteq issued',
           req' \in [Requests -> Request], RequestsWellFormed',
           restarts' \in 0..MaxRestarts
    PROVE  TypeInv'
  BY DEF TypeInv, TypeOK, SessionMap

LEMMA TickType == ASSUME TypeInv, Tick PROVE TypeInv'
  <1>1. ASSUME NEW t \in DOMAIN sessions PROVE sessions'[t] \in Session
    <2>1. sessions[t] \in Session
      BY DEF TypeInv, TypeOK
    <2>2. sessions[t].age \in Ages /\ IdleTimeout \in Nat
      BY <2>1, AccountBounds DEF Session
    <2>3. PICK a : a = IF sessions[t].age > IdleTimeout THEN sessions[t].age
                       ELSE sessions[t].age + 1
      OBVIOUS
    <2>4. a \in Ages
      BY <2>2, <2>3 DEF Ages
    <2>5. sessions'[t] = [sessions[t] EXCEPT !.age = a]
      BY <2>3 DEF Tick
    <2>6. QED
      BY <2>1, <2>4, <2>5 DEF Session
  <1>2. DOMAIN sessions' = DOMAIN sessions
    BY DEF Tick
  <1>3. SessionMap(sessions')
    BY <1>1, <1>2, TypeOKSessions DEF SessionMap, TypeInv
  <1>4. RequestsWellFormed'
    BY DEF Tick, TypeInv, RequestsWellFormed
  <1>5. UNCHANGED <<users, usrSeq, issued, req, restarts>>
    BY DEF Tick
  <1>6. QED
    BY <1>2, <1>3, <1>4, <1>5, TypeOKSessions, AssembleType DEF TypeInv, TypeOK

LEMMA LoginType == ASSUME TypeInv, NEW r \in Requests, LoginStep(r) PROVE TypeInv'
  <1>1. ASSUME NEW u \in Users, AuthenticateCredentials(r, u) PROVE TypeInv'
    <2>1. users[u] \in Roles
      BY <1>1 DEF TypeInv, TypeOK, AuthenticateCredentials
    <2>2. PICK q : q = Holding("create", NoToken, u, users[u])
      OBVIOUS
    <2>3. /\ q \in Request /\ q.pc = "create"
          /\ q.user \in Users /\ q.role \in Roles
      BY <2>1, <2>2, HoldingType DEF Steps
    <2>4. req' = [req EXCEPT ![r] = q]
      BY <1>1, <2>2 DEF AuthenticateCredentials
    <2>5. req' \in [Requests -> Request] /\ RequestsWellFormed'
      BY <2>3, <2>4, RequestChangeType
    <2>6. QED
      BY <1>1, <2>5, TypeOKSessions, AssembleType DEF AuthenticateCredentials, TypeInv, TypeOK
  <1>2. ASSUME Create(r) PROVE TypeInv'
    <2>1. PICK t \in Tokens \ issued :
              /\ sessions' = WithSession(PruneLocked(sessions), t, req[r].user, req[r].role)
              /\ issued' = issued \union {t}
      BY <1>2 DEF Create
    <2>2. SessionMap(PruneLocked(sessions))
          /\ DOMAIN PruneLocked(sessions) \subseteq issued
      BY TypeOKSessions, PruneLockedType DEF TypeInv
    <2>3. req[r].user \in Users /\ req[r].role \in Roles
      BY <1>2 DEF Create, TypeInv, RequestsWellFormed
    <2>4. SessionMap(sessions') /\ DOMAIN sessions' = DOMAIN PruneLocked(sessions) \union {t}
      BY <2>1, <2>2, <2>3, WithSessionType
    <2>5. req' \in [Requests -> Request] /\ RequestsWellFormed'
      BY <1>2, AnswerType DEF Create, Answer, Answers
    <2>6. issued' \subseteq Tokens /\ DOMAIN sessions' \subseteq issued'
      BY <2>1, <2>2, <2>4, TypeOKSessions DEF TypeInv
    <2>7. QED
      BY <1>2, <2>4, <2>5, <2>6, AssembleType DEF Create, TypeInv, TypeOK
  <1>3. ASSUME RefuseSession(r) PROVE TypeInv'
    <2>1. SessionMap(sessions') /\ DOMAIN sessions' \subseteq issued
      BY <1>3, TypeOKSessions, PruneLockedType DEF RefuseSession, TypeInv
    <2>2. req' \in [Requests -> Request] /\ RequestsWellFormed'
      BY <1>3, AnswerType DEF RefuseSession, Answer, Answers
    <2>3. QED
      BY <1>3, <2>1, <2>2, AssembleType DEF RefuseSession, TypeInv, TypeOK
  <1>4. QED
    BY <1>1, <1>2, <1>3 DEF LoginStep

LEMMA SessionStepType == ASSUME TypeInv, NEW r \in Requests, SessionStep(r) PROVE TypeInv'
  <1> DEFINE ReqOK == req' \in [Requests -> Request] /\ RequestsWellFormed'
             MapOK == SessionMap(sessions') /\ DOMAIN sessions' \subseteq DOMAIN sessions
  <1>1. ASSUME NEW bearer \in issued \union {NoToken}, NEW cookie \in issued \union {NoToken},
               SessionFromRequest(r, bearer, cookie)
        PROVE  ReqOK /\ MapOK
    <2>1. ASSUME NEW t, GetHit(r, t) PROVE ReqOK /\ MapOK
      BY <2>1, GetHitType
    <2>2. ASSUME NEW t, GetMiss(t), Answer(r, "refused") PROVE ReqOK /\ MapOK
      BY <2>2, GetMissType, AnswerType DEF Answers
    <2>3. ASSUME GetMiss(bearer),
                 req' = [req EXCEPT ![r] = Holding("cookie", cookie, None, NoRole)]
          PROVE  ReqOK /\ MapOK
      <3>1. PICK q : q = Holding("cookie", cookie, None, NoRole)
        OBVIOUS
      <3>2. cookie \in Tokens \union {NoToken}
        BY TypeOKSessions DEF TypeInv
      <3>3. q \in Request /\ q.pc = "cookie"
        BY <3>1, <3>2, HoldingType DEF Steps
      <3>4. req' = [req EXCEPT ![r] = q]
        BY <2>3, <3>1
      <3>5. QED
        BY <2>3, <3>3, <3>4, RequestChangeType, GetMissType
    <2>4. QED
      BY <1>1, <2>1, <2>2, <2>3 DEF SessionFromRequest, Answer
  <1>2. ASSUME CookieAfterBearer(r) PROVE ReqOK /\ MapOK
    BY <1>2, GetHitType, GetMissType, AnswerType DEF CookieAfterBearer, Answer, Answers
  <1>3. ReqOK /\ MapOK
    BY <1>1, <1>2 DEF SessionStep
  <1>4. UNCHANGED <<users, usrSeq, issued, restarts>>
    BY DEF SessionStep, SessionFromRequest, CookieAfterBearer
  <1>5. QED
    BY <1>3, <1>4, TypeOKSessions, AssembleType DEF TypeInv, TypeOK

\* Steps that leave users and tokens alone and shrink the session map.
LEMMA ShrinkType ==
    ASSUME TypeInv, SessionMap(sessions'), DOMAIN sessions' \subseteq DOMAIN sessions,
           req' \in [Requests -> Request], RequestsWellFormed',
           UNCHANGED <<users, usrSeq, issued, restarts>>
    PROVE  TypeInv'
  BY TypeOKSessions, AssembleType DEF TypeInv, TypeOK

LEMMA LogoutType == ASSUME TypeInv, NEW r \in Requests, Logout(r) PROVE TypeInv'
  <1>1. SessionMap(sessions') /\ DOMAIN sessions' \subseteq DOMAIN sessions
    BY TypeOKSessions, WithoutType DEF Logout, TypeInv
  <1>2. req' \in [Requests -> Request] /\ RequestsWellFormed'
    BY AnswerType DEF Logout, Answers
  <1>3. QED
    BY <1>1, <1>2, ShrinkType DEF Logout

LEMMA AnswerOnlyType ==
    ASSUME TypeInv, NEW r \in Requests, NEW answer \in Answers, Answer(r, answer),
           UNCHANGED <<users, usrSeq, sessions, issued, restarts>>
    PROVE  TypeInv'
  <1>1. req' \in [Requests -> Request] /\ RequestsWellFormed'
    BY AnswerType
  <1>2. QED
    BY <1>1, TypeOKSessions, ShrinkType DEF TypeInv

\* A request that goes on to another statement with a target.
LEMMA AdvanceType ==
    ASSUME TypeInv, NEW r \in Requests, NEW pc \in {"count", "delete"}, NEW u \in Users,
           req' = [req EXCEPT ![r].pc = pc, ![r].target = u],
           UNCHANGED <<users, usrSeq, sessions, issued, restarts>>
    PROVE  TypeInv'
  <1>1. req[r] \in Request
    BY DEF TypeInv, TypeOK
  <1>2. PICK q : q = [req[r] EXCEPT !.pc = pc, !.target = u]
    OBVIOUS
  <1>3. q \in Request /\ q.pc = pc /\ q.target = u
    BY <1>1, <1>2 DEF Request, Steps
  <1>4. req' = [req EXCEPT ![r] = q]
    BY <1>2
  <1>5. req' \in [Requests -> Request] /\ RequestsWellFormed'
    BY <1>3, <1>4, RequestChangeType
  <1>6. QED
    BY <1>5, TypeOKSessions, ShrinkType DEF TypeInv

LEMMA UserStepType == ASSUME TypeInv, NEW r \in Requests, UserStep(r) PROVE TypeInv'
  <1>1. ASSUME NEW role \in Roles, InsertUser(r, role) PROVE TypeInv'
    <2>1. req' \in [Requests -> Request] /\ RequestsWellFormed'
      BY <1>1, AnswerType DEF InsertUser, Answers
    <2>2. usrSeq' \in 0..MaxUsers /\ users' \in [Users -> Roles \union {"none"}]
      BY <1>1, AccountBounds DEF InsertUser, TypeInv, TypeOK, Users
    <2>3. QED
      BY <1>1, <2>1, <2>2, TypeOKSessions, AssembleType DEF InsertUser, TypeInv, TypeOK
  <1>2. ASSUME NEW u \in Users, NEW role \in Roles, UpdateUser(r, u, role) PROVE TypeInv'
    <2>1. req' \in [Requests -> Request] /\ RequestsWellFormed'
      BY <1>2, AnswerType DEF UpdateUser, Answers
    <2>2. users' \in [Users -> Roles \union {"none"}]
      BY <1>2 DEF UpdateUser, TypeInv, TypeOK
    <2>3. QED
      BY <1>2, <2>1, <2>2, TypeOKSessions, AssembleType DEF UpdateUser, TypeInv, TypeOK
  <1>3. ASSUME NEW u \in Users, StartDeleteUser(r, u) PROVE TypeInv'
    <2>1. CASE Answer(r, "refused")
      BY <1>3, <2>1, AnswerOnlyType DEF StartDeleteUser, Answers
    <2>2. CASE req' = [req EXCEPT ![r].pc = IF users[u] = "admin" THEN "count" ELSE "delete",
                                  ![r].target = u]
      <3>1. PICK pc : pc = IF users[u] = "admin" THEN "count" ELSE "delete"
        OBVIOUS
      <3>2. pc \in {"count", "delete"} /\ req' = [req EXCEPT ![r].pc = pc, ![r].target = u]
        BY <2>2, <3>1
      <3>3. QED
        BY <1>3, <3>2, AdvanceType DEF StartDeleteUser
    <2>3. QED
      BY <1>3, <2>1, <2>2 DEF StartDeleteUser
  <1>4. ASSUME CountAdmins(r) PROVE TypeInv'
    <2>1. CASE Answer(r, "refused")
      BY <1>4, <2>1, AnswerOnlyType DEF CountAdmins, Answers
    <2>2. CASE req' = [req EXCEPT ![r].pc = "delete"]
      <3>1. req[r] \in Request /\ req[r].target \in Users
        BY <1>4 DEF CountAdmins, TypeInv, TypeOK, RequestsWellFormed
      <3>2. PICK u : u = req[r].target
        OBVIOUS
      <3>3. PICK q : q = [req[r] EXCEPT !.pc = "delete"]
        OBVIOUS
      <3>4. q \in Request /\ q.pc = "delete" /\ q.target \in Users
        BY <3>1, <3>3 DEF Request, Steps
      <3>5. req' = [req EXCEPT ![r] = q]
        BY <2>2, <3>3
      <3>6. req' \in [Requests -> Request] /\ RequestsWellFormed'
        BY <3>4, <3>5, RequestChangeType
      <3>7. QED
        BY <1>4, <3>6, TypeOKSessions, ShrinkType DEF CountAdmins, TypeInv
    <2>3. QED
      BY <1>4, <2>1, <2>2 DEF CountAdmins
  <1>5. ASSUME DeleteUser(r) PROVE TypeInv'
    <2>1. req' \in [Requests -> Request] /\ RequestsWellFormed'
      BY <1>5, AnswerType DEF DeleteUser, Answers
    <2>2. users' \in [Users -> Roles \union {"none"}]
      BY <1>5 DEF DeleteUser, TypeInv, TypeOK
    <2>3. QED
      BY <1>5, <2>1, <2>2, TypeOKSessions, AssembleType DEF DeleteUser, TypeInv, TypeOK
  <1>6. QED
    BY <1>1, <1>2, <1>3, <1>4, <1>5 DEF UserStep

LEMMA RestartType == ASSUME TypeInv, Restart PROVE TypeInv'
  <1>1. Idle("none") \in Request /\ Idle("none").pc = "idle"
    BY IdleType DEF Answers
  <1>2. req' \in [Requests -> Request] /\ RequestsWellFormed'
    BY <1>1 DEF Restart, RequestsWellFormed
  <1>3. SessionMap(sessions') /\ DOMAIN sessions' = {}
    BY DEF Restart, SessionMap
  <1>4. usrSeq' \in 0..MaxUsers /\ users' \in [Users -> Roles \union {"none"}]
    <2>1. CASE UNCHANGED <<users, usrSeq>>
      BY <2>1 DEF TypeInv, TypeOK
    <2>2. CASE /\ usrSeq + 3 <= MaxUsers
               /\ usrSeq' = usrSeq + 3
               /\ users' = [users EXCEPT ![usrSeq + 1] = "admin", ![usrSeq + 2] = "user",
                                         ![usrSeq + 3] = "guest"]
      <3>1. usrSeq' \in 0..MaxUsers
        BY <2>2, AccountBounds DEF TypeInv, TypeOK
      <3>2. users' \in [Users -> Roles \union {"none"}]
        BY <2>2, AccountInputs DEF TypeInv, TypeOK
      <3>3. QED
        BY <3>1, <3>2
    <2>3. QED
      BY <2>1, <2>2 DEF Restart, Seeded
  <1>5. issued' \subseteq Tokens
    BY DEF Restart, TypeInv, TypeOK
  <1>6. restarts' \in 0..MaxRestarts
    BY AccountBounds DEF Restart, TypeInv, TypeOK
  <1>7. QED
    BY <1>2, <1>3, <1>4, <1>5, <1>6, AssembleType

LEMMA RequestStepType == ASSUME TypeInv, NEW r \in Requests, RequestStep(r) PROVE TypeInv'
  <1>1. CASE OtherHandler(r)
    BY <1>1, AnswerOnlyType DEF OtherHandler, Answers
  <1>2. CASE Abort(r)
    BY <1>2, AnswerOnlyType DEF Abort, Answers
  <1>3. QED
    BY <1>1, <1>2, LoginType, SessionStepType, LogoutType, UserStepType DEF RequestStep

LEMMA NextType == TypeInv /\ [Next]_vars => TypeInv'
  <1> SUFFICES ASSUME TypeInv, [Next]_vars PROVE TypeInv'
    OBVIOUS
  <1>1. CASE Next
    BY <1>1, TickType, RequestStepType, RestartType DEF Next
  <1>2. CASE UNCHANGED vars
    BY <1>2 DEF vars, TypeInv, TypeOK, RequestsWellFormed
  <1>3. QED
    BY <1>1, <1>2

LEMMA TypeInvariant == Spec => []TypeInv
  BY InitType, NextType, PTL DEF Spec

\* At every step of every instance the users table, the session map and the
\* requests in flight have their types: a session is of a user id and a role
\* an administrator could give, and its token was drawn by newToken.
THEOREM TypeCorrect == Spec => []TypeOK
  <1>1. TypeInv => TypeOK
    BY DEF TypeInv
  <1>2. QED
    BY <1>1, TypeInvariant, PTL

-----------------------------------------------------------------------------
(* The cap on sessions.                                                    *)

Capped == IsFiniteSet(DOMAIN sessions) /\ SessionCap

LEMMA ShrinkCapped ==
    ASSUME Capped, DOMAIN sessions' \subseteq DOMAIN sessions
    PROVE  Capped'
  <1>1. IsFiniteSet(DOMAIN sessions')
        /\ Cardinality(DOMAIN sessions') <= Cardinality(DOMAIN sessions)
    BY FS_Subset DEF Capped
  <1>2. Cardinality(DOMAIN sessions) \in Nat /\ Cardinality(DOMAIN sessions') \in Nat
    BY <1>1, FS_CardinalityType DEF Capped
  <1>3. QED
    BY <1>1, <1>2, AccountBounds DEF Capped, SessionCap

LEMMA CreateCapped ==
    ASSUME TypeOK, Capped, NEW r \in Requests, Create(r)
    PROVE  Capped'
  <1>1. PICK t \in Tokens \ issued :
            sessions' = WithSession(PruneLocked(sessions), t, req[r].user, req[r].role)
    BY DEF Create
  <1>2. DOMAIN PruneLocked(sessions) \subseteq DOMAIN sessions
    BY TypeOKSessions, PruneLockedType
  <1>3. IsFiniteSet(DOMAIN PruneLocked(sessions)) /\ t \notin DOMAIN PruneLocked(sessions)
    BY <1>2, FS_Subset, TypeOKSessions DEF Capped
  <1>4. DOMAIN sessions' = DOMAIN PruneLocked(sessions) \union {t}
    BY <1>1 DEF WithSession
  <1>5. /\ IsFiniteSet(DOMAIN sessions')
        /\ Cardinality(DOMAIN sessions') = Cardinality(DOMAIN PruneLocked(sessions)) + 1
    BY <1>3, <1>4, FS_AddElement
  <1>6. Cardinality(DOMAIN PruneLocked(sessions)) < MaxSessions
        /\ Cardinality(DOMAIN PruneLocked(sessions)) \in Nat
    BY <1>3, FS_CardinalityType DEF Create, HasRoom
  <1>7. QED
    BY <1>5, <1>6, AccountBounds DEF Capped, SessionCap

\* Every step but a Create leaves no token in the map that was not there.
LEMMA OnlyCreateAdds ==
    ASSUME TypeInv, [Next]_vars
    PROVE  \/ \E r \in Requests : Create(r)
           \/ DOMAIN sessions' \subseteq DOMAIN sessions
  <1> DEFINE Shrinks == DOMAIN sessions' \subseteq DOMAIN sessions
  <1>1. ASSUME Tick \/ Restart \/ UNCHANGED vars PROVE Shrinks
    BY <1>1 DEF Tick, Restart, vars
  <1>2. ASSUME NEW r \in Requests, RequestStep(r), ~Create(r) PROVE Shrinks
    <2>1. CASE LoginStep(r)
      BY <1>2, <2>1, TypeOKSessions, PruneLockedType
         DEF LoginStep, AuthenticateCredentials, RefuseSession, TypeInv
    <2>2. CASE SessionStep(r)
      BY <2>2, GetHitType, GetMissType
         DEF SessionStep, SessionFromRequest, CookieAfterBearer
    <2>3. CASE Logout(r)
      BY <2>3 DEF Logout, Without
    <2>4. CASE OtherHandler(r) \/ UserStep(r) \/ Abort(r)
      BY <2>4 DEF OtherHandler, Abort, UserStep, InsertUser, UpdateUser, StartDeleteUser,
         CountAdmins, DeleteUser
    <2>5. QED
      BY <1>2, <2>1, <2>2, <2>3, <2>4 DEF RequestStep
  <1>3. QED
    BY <1>1, <1>2 DEF Next

LEMMA InitCapped == Init => Capped
  <1> SUFFICES ASSUME Init PROVE Capped
    OBVIOUS
  <1>1. DOMAIN sessions = {}
    BY DEF Init
  <1>2. QED
    BY <1>1, FS_EmptySet, AccountBounds DEF Capped, SessionCap

LEMMA NextCapped == TypeInv /\ Capped /\ [Next]_vars => Capped'
  BY OnlyCreateAdds, CreateCapped, ShrinkCapped DEF TypeInv

\* The map never holds more than MaxSessions sessions, for any number of
\* logins side by side: the count and the insertion are under one lock, and
\* a login that waits between password and session holds no place.
THEOREM SessionCapCorrect == Spec => []SessionCap
  <1>1. Capped => SessionCap
    BY DEF Capped
  <1>2. QED
    BY <1>1, InitCapped, NextCapped, TypeInvariant, PTL DEF Spec

-----------------------------------------------------------------------------
(* The session manager implements SessionLifetimes.                        *)

LEMMA PrunedIsUnexpired ==
    ASSUME TypeOK
    PROVE  DOMAIN PruneLocked(sessions) = Unexpired
  <1>1. ASSUME NEW t \in DOMAIN sessions
        PROVE  ~Expired(sessions[t]) <=> sessions[t].age <= IdleTimeout
    BY AccountBounds DEF TypeOK, Session, Ages, Expired
  <1>2. QED
    BY <1>1 DEF PruneLocked, Unexpired

\* A step of the map after which only sessions that were good are left.
LEMMA OnlyGoodStay ==
    ASSUME DOMAIN sessions' \subseteq Unexpired
    PROVE  Unexpired' \subseteq Unexpired
  BY DEF Unexpired

LEMMA GetStays ==
    ASSUME TypeOK, NEW r, NEW t, GetHit(r, t) \/ GetMiss(t)
    PROVE  Unexpired' \subseteq Unexpired
  BY PrunedIsUnexpired, OnlyGoodStay DEF GetHit, GetMiss, Touched

\* Ages only grow with time.
LEMMA TickStays == ASSUME TypeOK, Tick PROVE Unexpired' \subseteq Unexpired
  <1>1. DOMAIN sessions' = DOMAIN sessions
    BY DEF Tick
  <1>2. ASSUME NEW t \in DOMAIN sessions, sessions'[t].age <= IdleTimeout
        PROVE  sessions[t].age <= IdleTimeout
    <2>1. sessions[t] \in Session
      BY DEF TypeOK
    <2>2. sessions[t].age \in Nat /\ IdleTimeout \in Nat
      BY <2>1, AccountBounds DEF Session, Ages
    <2>3. PICK a : a = IF sessions[t].age > IdleTimeout THEN sessions[t].age
                       ELSE sessions[t].age + 1
      OBVIOUS
    <2>4. sessions'[t] = [sessions[t] EXCEPT !.age = a]
      BY <2>3 DEF Tick
    <2>5. sessions'[t].age = a
      BY <2>1, <2>4 DEF Session
    <2>6. QED
      BY <1>2, <2>2, <2>3, <2>5
  <1>3. QED
    BY <1>1, <1>2 DEF Unexpired

\* A step that adds or touches no session.
LEMMA SameOrFewerStays ==
    ASSUME DOMAIN sessions' \subseteq DOMAIN sessions,
           \A t \in DOMAIN sessions' : sessions'[t] = sessions[t]
    PROVE  Unexpired' \subseteq Unexpired
  BY DEF Unexpired

\* The abstract specification counts sets as this one does.
LEMMA SameCardinality ==
    ASSUME NEW S
    PROVE  Lifetimes!Cardinality(S) = Cardinality(S)
  BY DEF Lifetimes!Cardinality, Cardinality

LEMMA CreateOpens ==
    ASSUME TypeInv, NEW r \in Requests, Create(r)
    PROVE  \E t \in Tokens : Lifetimes!Open(t)
  <1>1. PICK t \in Tokens \ issued :
            /\ sessions' = WithSession(PruneLocked(sessions), t, req[r].user, req[r].role)
            /\ issued' = issued \union {t}
    BY DEF Create
  <1>2. DOMAIN PruneLocked(sessions) = Unexpired
    BY PrunedIsUnexpired DEF TypeInv
  <1>3. Cardinality(Unexpired) < MaxSessions
    BY <1>2 DEF Create, HasRoom
  <1>4. DOMAIN sessions' = Unexpired \union {t}
    BY <1>1, <1>2 DEF WithSession
  <1>5. t \notin DOMAIN sessions /\ t \notin Unexpired
    BY TypeOKSessions DEF TypeInv, Unexpired
  <1>6. sessions'[t].age = 0
    BY <1>1, <1>4 DEF WithSession
  <1>7. ASSUME NEW x \in Unexpired PROVE sessions'[x] = sessions[x]
    BY <1>1, <1>2, <1>5 DEF WithSession, PruneLocked
  <1>8. Unexpired' = Unexpired \union {t}
    <2>1. ASSUME NEW x \in Unexpired PROVE x \in Unexpired'
      BY <1>4, <1>7 DEF Unexpired
    <2>2. t \in Unexpired'
      BY <1>4, <1>6, AccountBounds DEF Unexpired
    <2>3. Unexpired' \subseteq DOMAIN sessions'
      BY DEF Unexpired
    <2>4. QED
      BY <1>4, <2>1, <2>2, <2>3
  <1>9. Tokens \ issued' = (Tokens \ issued) \ {t}
    BY <1>1
  <1>10. Lifetimes!Open(t)
    BY <1>1, <1>3, <1>8, <1>9, SameCardinality DEF Lifetimes!Open
  <1>11. QED
    BY <1>10

\* Every step that is not a Create lets sessions go, or leaves them as good
\* as they were.
LEMMA OthersClose ==
    ASSUME TypeInv, [Next]_vars, ~\E r \in Requests : Create(r)
    PROVE  Unexpired' \subseteq Unexpired /\ issued' = issued
  <1>1. CASE Tick
    BY <1>1, TickStays DEF Tick, TypeInv
  <1>2. CASE Restart
    BY <1>2, SameOrFewerStays DEF Restart
  <1>3. CASE UNCHANGED vars
    BY <1>3, SameOrFewerStays DEF vars
  <1>4. ASSUME NEW r \in Requests, RequestStep(r)
        PROVE  Unexpired' \subseteq Unexpired /\ issued' = issued
    <2>1. CASE \E u \in Users : AuthenticateCredentials(r, u)
      BY <2>1, SameOrFewerStays DEF AuthenticateCredentials
    <2>2. CASE RefuseSession(r)
      BY <2>2, PrunedIsUnexpired, OnlyGoodStay DEF RefuseSession, TypeInv
    <2>3. CASE SessionStep(r)
      BY <2>3, GetStays DEF SessionStep, SessionFromRequest, CookieAfterBearer, TypeInv
    <2>4. CASE Logout(r)
      BY <2>4, SameOrFewerStays DEF Logout, Without
    <2>5. CASE OtherHandler(r) \/ UserStep(r) \/ Abort(r)
      BY <2>5, SameOrFewerStays DEF OtherHandler, Abort, UserStep, InsertUser, UpdateUser,
         StartDeleteUser, CountAdmins, DeleteUser
    <2>6. QED
      BY <1>4, <2>1, <2>2, <2>3, <2>4, <2>5 DEF RequestStep, LoginStep
  <1>5. QED
    BY <1>1, <1>2, <1>3, <1>4 DEF Next

\* A token is given out once, at most MaxSessions are good, and none that has
\* expired, was logged out or lost in a restart is ever served again, for any
\* number of requests that look up, create and delete sessions side by side.
THEOREM LifetimesCorrect == Spec => ImplementsSessionLifetimes
  <1>1. Init => Lifetimes!Init
    BY DEF Init, Lifetimes!Init, Unexpired
  <1>2. TypeInv /\ [Next]_vars => [Lifetimes!Next]_(Lifetimes!vars)
    <2>1. SUFFICES ASSUME TypeInv, [Next]_vars PROVE Lifetimes!Next
      OBVIOUS
    <2>2. CASE \E r \in Requests : Create(r)
      BY <2>1, <2>2, CreateOpens DEF Lifetimes!Next
    <2>3. CASE ~\E r \in Requests : Create(r)
      <3>1. Unexpired' \subseteq Unexpired /\ issued' = issued
        BY <2>1, <2>3, OthersClose
      <3>2. QED
        BY <3>1 DEF Lifetimes!Next, Lifetimes!Close
    <2>4. QED
      BY <2>2, <2>3
  <1>3. QED
    BY <1>1, <1>2, TypeInvariant, PTL DEF Spec, ImplementsSessionLifetimes, Lifetimes!Spec

-----------------------------------------------------------------------------
(* Who is served, and who is refused for want of room.                     *)

\* A step of one request leaves the others as they are.
LEMMA OthersWait ==
    ASSUME TypeOK, NEW r \in Requests, RequestStep(r), NEW q \in Requests, q # r
    PROVE  req'[q] = req[q]
  BY DEF RequestStep, LoginStep, AuthenticateCredentials, Create, RefuseSession, SessionStep,
     SessionFromRequest, CookieAfterBearer, GetHit, Logout, OtherHandler, UserStep, InsertUser,
     UpdateUser, StartDeleteUser, CountAdmins, DeleteUser, Abort, Answer, TypeOK

\* A lookup that opens a session hands over what the map holds of it.
LEMMA GetHitServes ==
    ASSUME TypeOK, NEW r \in Requests, NEW t, GetHit(r, t)
    PROVE  /\ req'[r].token \in Unexpired
           /\ req'[r].user = sessions[req'[r].token].user
           /\ req'[r].role = sessions[req'[r].token].role
  <1>1. t \in Unexpired
    BY PrunedIsUnexpired DEF GetHit
  <1>2. req'[r] = Holding("handler", t, sessions[t].user, sessions[t].role)
    BY DEF GetHit, TypeOK
  <1>3. QED
    BY <1>1, <1>2 DEF Holding

\* Only such a lookup brings a request to its handler.
LEMMA OnlyGetHitServes ==
    ASSUME TypeOK, NEW r \in Requests, RequestStep(r), ~Handling(r), req'[r].pc = "handler"
    PROVE  \E t : GetHit(r, t)
  <1>1. \A answer : Idle(answer).pc = "idle"
    BY DEF Idle
  <1>2. \A token, user, role : /\ Holding("create", token, user, role).pc = "create"
                              /\ Holding("cookie", token, user, role).pc = "cookie"
    BY DEF Holding
  <1>3. CASE LoginStep(r)
    BY <1>1, <1>2, <1>3 DEF LoginStep, AuthenticateCredentials, Create, RefuseSession, TypeOK
  <1>4. CASE SessionStep(r)
    BY <1>1, <1>2, <1>4 DEF SessionStep, SessionFromRequest, CookieAfterBearer, TypeOK
  <1>5. CASE Logout(r) \/ OtherHandler(r) \/ Abort(r)
    BY <1>1, <1>5 DEF Logout, OtherHandler, Abort, Answer, TypeOK
  <1>6. CASE UserStep(r)
    <2>1. CASE CountAdmins(r)
      <3>1. CASE Answer(r, "refused")
        BY <1>1, <3>1 DEF Answer, TypeOK
      <3>2. CASE req' = [req EXCEPT ![r].pc = "delete"]
        BY <3>2 DEF TypeOK, Request
      <3>3. QED
        BY <2>1, <3>1, <3>2 DEF CountAdmins
    <2>2. CASE DeleteUser(r)
      BY <1>1, <2>2 DEF DeleteUser, Answer, TypeOK
    <2>3. QED
      BY <1>6, <2>1, <2>2 DEF UserStep, InsertUser, UpdateUser, StartDeleteUser, MayWriteUsers
  <1>7. QED
    BY <1>3, <1>4, <1>5, <1>6 DEF RequestStep

\* A request reaches its handler only with a session that was in use within the
\* idle timeout, and as the user and in the role of its login, whatever expires,
\* is pruned or logged out beside it.
THEOREM ServedCorrect == Spec => ServedWhileActive
  <1> DEFINE Served(r) == ~Handling(r) /\ req'[r].pc = "handler" =>
                 /\ req'[r].token \in Unexpired
                 /\ req'[r].user = sessions[req'[r].token].user
                 /\ req'[r].role = sessions[req'[r].token].role
  <1>1. ASSUME TypeInv, [Next]_vars PROVE [\A r \in Requests : Served(r)]_vars
    <2>1. SUFFICES ASSUME Next, NEW r \in Requests, ~Handling(r), req'[r].pc = "handler"
                   PROVE  Served(r)
      BY <1>1
    <2>2. CASE Tick
      BY <2>1, <2>2 DEF Tick, Handling
    <2>3. CASE Restart
      BY <2>1, <2>3 DEF Restart, Idle
    <2>4. ASSUME NEW q \in Requests, RequestStep(q) PROVE Served(r)
      <3>1. q = r
        BY <1>1, <2>1, <2>4, OthersWait DEF TypeInv, Handling
      <3>2. PICK t : GetHit(r, t)
        BY <1>1, <2>1, <2>4, <3>1, OnlyGetHitServes DEF TypeInv
      <3>3. QED
        BY <1>1, <3>2, GetHitServes DEF TypeInv
    <2>5. QED
      BY <2>1, <2>2, <2>3, <2>4 DEF Next
  <1>2. QED
    BY <1>1, TypeInvariant, PTL DEF Spec, ServedWhileActive

\* A request that is under way has given no answer yet.
Unanswered == \A r \in Requests : req[r].pc # "idle" => req[r].answer = "none"

LEMMA StepUnanswered ==
    ASSUME TypeOK, Unanswered, NEW r \in Requests, RequestStep(r)
    PROVE  req'[r].pc # "idle" => req'[r].answer = "none"
  <1>1. \A answer : Idle(answer).pc = "idle"
    BY DEF Idle
  <1>2. \A pc, token, user, role : Holding(pc, token, user, role).answer = "none"
    BY DEF Holding
  <1>3. CASE LoginStep(r)
    BY <1>1, <1>2, <1>3 DEF LoginStep, AuthenticateCredentials, Create, RefuseSession, TypeOK
  <1>4. CASE SessionStep(r)
    BY <1>1, <1>2, <1>4 DEF SessionStep, SessionFromRequest, CookieAfterBearer, GetHit, TypeOK
  <1>5. CASE Logout(r) \/ OtherHandler(r) \/ Abort(r)
    BY <1>1, <1>5 DEF Logout, OtherHandler, Abort, Answer, TypeOK
  <1>6. CASE UserStep(r)
    <2>1. ASSUME NEW answer, Answer(r, answer) PROVE req'[r].pc = "idle"
      BY <1>1, <2>1 DEF Answer, TypeOK
    <2>2. ASSUME req[r].pc # "idle", NEW pc,
                 \/ req' = [req EXCEPT ![r].pc = pc]
                 \/ \E u : req' = [req EXCEPT ![r].pc = pc, ![r].target = u]
          PROVE  req'[r].answer = "none"
      BY <2>2 DEF Unanswered, TypeOK, Request
    <2>3. ASSUME NEW u \in Users, StartDeleteUser(r, u)
          PROVE  req'[r].pc # "idle" => req'[r].answer = "none"
      BY <2>1, <2>2, <2>3 DEF StartDeleteUser, MayWriteUsers, Handling
    <2>4. CASE CountAdmins(r)
      BY <2>1, <2>2, <2>4 DEF CountAdmins
    <2>5. QED
      BY <1>6, <2>1, <2>3, <2>4 DEF UserStep, InsertUser, UpdateUser, DeleteUser
  <1>7. QED
    BY <1>3, <1>4, <1>5, <1>6 DEF RequestStep

LEMMA NextUnanswered == TypeOK /\ Unanswered /\ [Next]_vars => Unanswered'
  <1> SUFFICES ASSUME TypeOK, Unanswered, [Next]_vars PROVE Unanswered'
    OBVIOUS
  <1>1. CASE Tick \/ UNCHANGED vars
    BY <1>1 DEF Tick, vars, Unanswered
  <1>2. CASE Restart
    BY <1>2 DEF Restart, Unanswered, Idle
  <1>3. ASSUME NEW r \in Requests, RequestStep(r) PROVE Unanswered'
    BY <1>3, StepUnanswered, OthersWait DEF Unanswered
  <1>4. QED
    BY <1>1, <1>2, <1>3 DEF Next

\* The answer for want of room comes from RefuseSession, on a pruned map that
\* has no room.
LEMMA OnlyFullRefuses ==
    ASSUME TypeOK, Capped, NEW r \in Requests, RequestStep(r),
           req[r].pc = "create", req'[r].answer = "limit"
    PROVE  Cardinality(Unexpired) >= MaxSessions
  <1>1. CASE Create(r)
    BY <1>1 DEF Create, Idle, TypeOK
  <1>2. CASE RefuseSession(r)
    <2>1. IsFiniteSet(Unexpired)
      BY FS_Subset DEF Capped, Unexpired
    <2>2. Cardinality(Unexpired) \in Nat
      BY <2>1, FS_CardinalityType
    <2>3. ~(Cardinality(Unexpired) < MaxSessions)
      BY <1>2, PrunedIsUnexpired DEF RefuseSession, HasRoom
    <2>4. QED
      BY <2>2, <2>3, AccountBounds
  <1>3. QED
    BY <1>1, <1>2 DEF RequestStep, LoginStep, AuthenticateCredentials, Free, SessionStep,
       SessionFromRequest, CookieAfterBearer, Logout, OtherHandler, Handling, UserStep, InsertUser,
       UpdateUser, StartDeleteUser, MayWriteUsers, CountAdmins, DeleteUser, Abort

\* A login is turned away for want of room only when as many sessions as the
\* cap allows are in use, for any number of logins at once: neither a session
\* that has expired nor a login under way takes a place.
THEOREM RefusalCorrect == Spec => ExpiredTakeNoRoom
  <1> DEFINE Justified(r) == req[r].pc = "create" /\ req'[r].answer = "limit" =>
                 Cardinality(Unexpired) >= MaxSessions
             Inv == TypeInv /\ Capped /\ Unanswered
  <1>1. Init => Inv
    BY InitType, InitCapped DEF Init, Unanswered, Idle
  <1>2. Inv /\ [Next]_vars => Inv'
    BY NextType, NextCapped, NextUnanswered DEF TypeInv
  <1>3. ASSUME Inv, [Next]_vars PROVE [\A r \in Requests : Justified(r)]_vars
    <2>1. SUFFICES ASSUME Next, NEW r \in Requests,
                          req[r].pc = "create", req'[r].answer = "limit"
                   PROVE  Justified(r)
      BY <1>3
    <2>2. req'[r] # req[r]
      BY <1>3, <2>1 DEF Unanswered
    <2>3. CASE Tick
      BY <2>2, <2>3 DEF Tick
    <2>4. CASE Restart
      BY <2>1, <2>4 DEF Restart, Idle
    <2>5. ASSUME NEW q \in Requests, RequestStep(q) PROVE Justified(r)
      <3>1. q = r
        BY <1>3, <2>2, <2>5, OthersWait DEF TypeInv
      <3>2. QED
        BY <1>3, <2>1, <2>5, <3>1, OnlyFullRefuses DEF TypeInv
    <2>6. QED
      BY <2>1, <2>3, <2>4, <2>5 DEF Next
  <1>4. QED
    BY <1>1, <1>2, <1>3, PTL DEF Spec, ExpiredTakeNoRoom

-----------------------------------------------------------------------------
(* The last admin, when requests come one at a time.                       *)

OneRequest == \A q, r \in Requests : q = r

\* The admins there would be without user u.
OtherAdmins(u) == Admins \ {u}

\* A deletion that has been let through leaves an admin, if there is one at all.
DeletionSpares ==
    \A r \in Requests : req[r].pc = "delete" /\ Admins # {} => OtherAdmins(req[r].target) # {}

LEMMA AdminsCount ==
    ASSUME NEW u, ~LastAdmin PROVE OtherAdmins(u) # {}
  <1>1. SUFFICES ASSUME Admins \subseteq {u} PROVE Cardinality(Admins) <= 1
    BY DEF OtherAdmins, LastAdmin
  <1>2. Cardinality({u}) = 1 /\ IsFiniteSet({u})
    BY FS_Singleton
  <1>3. QED
    BY <1>1, <1>2, FS_Subset

\* A step of a request other than a deletion ends it or is not let through.
LEMMA StartSpares ==
    ASSUME TypeInv, NEW r \in Requests, NEW u \in Users, StartDeleteUser(r, u),
           req'[r].pc = "delete"
    PROVE  Admins \subseteq OtherAdmins(req'[r].target)
  <1>1. req' = [req EXCEPT ![r].pc = IF users[u] = "admin" THEN "count" ELSE "delete",
                           ![r].target = u]
    BY DEF StartDeleteUser, Answer, Idle, TypeInv, TypeOK
  <1>2. req'[r].target = u /\ users[u] # "admin"
    BY <1>1 DEF TypeInv, TypeOK, Request
  <1>3. QED
    BY <1>2 DEF Admins, OtherAdmins

LEMMA CountSpares ==
    ASSUME TypeInv, NEW r \in Requests, CountAdmins(r), req'[r].pc = "delete"
    PROVE  OtherAdmins(req'[r].target) # {}
  <1>1. CASE ~LastAdmin
    BY <1>1, AdminsCount
  <1>2. CASE Answer(r, "refused")
    BY <1>2 DEF Answer, Idle, TypeInv, TypeOK
  <1>3. QED
    BY <1>1, <1>2 DEF CountAdmins

\* Only the form of a deletion, and the count that lets one through, lead to it.
LEMMA OnlyTheseDelete ==
    ASSUME TypeInv, NEW r \in Requests, RequestStep(r), req'[r].pc = "delete"
    PROVE  users' = users /\ ((\E u \in Users : StartDeleteUser(r, u)) \/ CountAdmins(r))
  <1>1. /\ \A answer : Idle(answer).pc = "idle"
        /\ \A pc, token, user, role : Holding(pc, token, user, role).pc = pc
    BY DEF Idle, Holding
  <1>2. ~LoginStep(r)
    BY <1>1 DEF LoginStep, AuthenticateCredentials, Create, RefuseSession, TypeInv, TypeOK
  <1>3. ~SessionStep(r)
    BY <1>1 DEF SessionStep, SessionFromRequest, CookieAfterBearer, GetHit, TypeInv, TypeOK
  <1>4. ~Logout(r) /\ ~OtherHandler(r) /\ ~Abort(r) /\ ~DeleteUser(r)
    BY <1>1 DEF Logout, OtherHandler, Abort, DeleteUser, Answer, TypeInv, TypeOK
  <1>5. \A role, u : ~InsertUser(r, role) /\ ~UpdateUser(r, u, role)
    BY <1>1 DEF InsertUser, UpdateUser, Answer, TypeInv, TypeOK
  <1>6. QED
    BY <1>2, <1>3, <1>4, <1>5 DEF RequestStep, UserStep, StartDeleteUser, CountAdmins

LEMMA SparesStep ==
    ASSUME OneRequest, TypeInv, DeletionSpares, [Next]_vars PROVE DeletionSpares'
  <1>1. SUFFICES ASSUME NEW r \in Requests, req'[r].pc = "delete", Admins' # {}
                 PROVE  Admins' \ {req'[r].target} # {}
    BY DEF DeletionSpares, OtherAdmins
  <1>2. CASE UNCHANGED <<req, users>>
    BY <1>1, <1>2 DEF DeletionSpares, OtherAdmins, Admins
  <1>3. CASE Restart
    BY <1>1, <1>3 DEF Restart, Idle
  <1>4. ASSUME NEW q \in Requests, RequestStep(q) PROVE Admins' \ {req'[r].target} # {}
    <2>1. q = r
      BY DEF OneRequest
    <2>2. users' = users /\ ((\E u \in Users : StartDeleteUser(r, u)) \/ CountAdmins(r))
      BY <1>1, <1>4, <2>1, OnlyTheseDelete
    <2>3. Admins' = Admins /\ Admins' \ {req'[r].target} = OtherAdmins(req'[r].target)
      BY <2>2 DEF Admins, OtherAdmins
    <2>4. QED
      BY <1>1, <2>2, <2>3, StartSpares, CountSpares
  <1>5. QED
    BY <1>2, <1>3, <1>4 DEF Next, Tick, vars

\* A deletion that is answered leaves an admin.
LEMMA DeletionLeavesAdmin ==
    ASSUME TypeInv, DeletionSpares, NEW r \in Requests, RequestStep(r), req[r].pc = "delete",
           Admins # {}
    PROVE  Admins' # {}
  <1>1. PICK u \in Admins : u # req[r].target
    BY DEF DeletionSpares, OtherAdmins
  <1>2. DeleteUser(r) \/ Abort(r)
    BY DEF RequestStep, LoginStep, AuthenticateCredentials, Free, Create, RefuseSession,
       SessionStep, SessionFromRequest, CookieAfterBearer, Logout, OtherHandler, Handling, UserStep,
       InsertUser, UpdateUser, StartDeleteUser, MayWriteUsers, CountAdmins
  <1>3. users'[u] = "admin"
    BY <1>1, <1>2 DEF DeleteUser, Abort, Admins, TypeInv, TypeOK
  <1>4. QED
    BY <1>1, <1>3 DEF Admins

LEMMA RestartKeepsAdmins ==
    ASSUME Restart, Admins # {} PROVE Admins' = Admins
  <1>1. \E u \in Users : users[u] # NoRole
    BY DEF Admins
  <1>2. Seeded
    BY DEF Restart
  <1>3. users' = users
    BY <1>1, <1>2, Zenon DEF Seeded
  <1>4. QED
    BY <1>3 DEF Admins

\* While requests come one at a time, no deletion takes the last admin, whatever
\* users were added, deleted and given other roles before, restarts included.
\* Two deletions at a time can (the run accounts_last_admin).
THEOREM LastAdminStays == OneRequest => (Spec => LastAdminNotDeleted)
  <1> SUFFICES ASSUME OneRequest PROVE Spec => LastAdminNotDeleted
    OBVIOUS
  <1>1. Init => DeletionSpares
    BY DEF Init, DeletionSpares, Idle
  <1>2. TypeInv /\ DeletionSpares /\ [Next]_vars => DeletionSpares'
    BY SparesStep
  <1>3. TypeInv /\ DeletionSpares /\ [Next]_vars =>
          [\A r \in Requests : req[r].pc = "delete" /\ req'[r].answer = "ok" /\ Admins # {}
             => Admins' # {}]_vars
    <2>1. SUFFICES ASSUME TypeInv, DeletionSpares, Next, NEW r \in Requests,
                          req[r].pc = "delete", Admins # {}
                   PROVE  Admins' # {}
      OBVIOUS
    <2>2. CASE Tick
      BY <2>1, <2>2 DEF Tick, Admins
    <2>3. ASSUME NEW q \in Requests, RequestStep(q) PROVE Admins' # {}
      <3>1. q = r
        BY DEF OneRequest
      <3>2. QED
        BY <2>1, <2>3, <3>1, DeletionLeavesAdmin
    <2>4. QED
      BY <2>1, <2>2, <2>3, RestartKeepsAdmins DEF Next
  <1>4. QED
    BY <1>1, <1>2, <1>3, TypeInvariant, PTL DEF Spec, LastAdminNotDeleted
=============================================================================
