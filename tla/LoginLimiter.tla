---------------------------- MODULE LoginLimiter ----------------------------
(***************************************************************************)
(* The throttle in front of the two login endpoints of internal/app/app.go *)
(* (limitLogin, allowLoginAttempt, pruneLimitersLocked): one counter per   *)
(* client address, under a lock, so every attempt is one step.             *)
(*                                                                         *)
(* The age of an entry stands for now - lastSeen, counted in ticks.        *)
(***************************************************************************)
EXTENDS Naturals, FiniteSets

CONSTANTS
    Addresses,      \* what getRemoteIP returns, "unknown" included
    Window,         \* loginAttemptWindow, in ticks
    MaxIdle,        \* loginLimiterMaxIdle, in ticks
    Limit,          \* loginAttemptLimit
    CountCap        \* bound: counts from here on are one value

ASSUME LimiterConstants ==
    /\ Window \in Nat
    /\ MaxIdle \in Nat
    /\ Window < MaxIdle
    /\ Limit \in Nat \ {0}
    /\ CountCap \in Nat
    /\ Limit < CountCap

VARIABLES
    limiters,       \* Server.limiters
    allowed,        \* allowed[a][k]: logins let through for a, k ticks ago
    verdict         \* the answer to the last attempt: its address and whether it may go on

limiterVars == <<limiters, allowed, verdict>>

LimiterAges == 0..(MaxIdle + 1)
RateLimiter == [attempts : 0..CountCap, age : LimiterAges]

\* The zero value of a map entry: no attempts, last seen in the year one.
ZeroLimiter == [attempts |-> 0, age |-> MaxIdle + 1]

LimiterTypeOK ==
    /\ DOMAIN limiters \subseteq Addresses
    /\ \A a \in DOMAIN limiters : limiters[a] \in RateLimiter
    /\ allowed \in [Addresses -> [0..Window -> Nat]]
    /\ verdict \in [address : Addresses, ok : BOOLEAN] \union {<<>>}

LimiterInit ==
    /\ limiters = [a \in {} |-> ZeroLimiter]
    /\ allowed = [a \in Addresses |-> [k \in 0..Window |-> 0]]
    /\ verdict = <<>>

\* Logins let through within the last Window ticks: one pair for each.
RecentLogins(a) == UNION {{k} \X (1..allowed[a][k]) : k \in 0..Window}
Recent(a) == Cardinality(RecentLogins(a))

LimiterTick ==
    /\ limiters' = [a \in DOMAIN limiters |->
           [limiters[a] EXCEPT !.age = IF @ > MaxIdle THEN @ ELSE @ + 1]]
    /\ allowed' = [a \in Addresses |->
           [k \in 0..Window |-> IF k = 0 THEN 0 ELSE allowed[a][k - 1]]]
    /\ verdict' = <<>>

\* Mutant: an entry is dropped as soon as the clock has moved.
PruneAtOnce(a) == {x \in DOMAIN limiters : limiters[x].age = 0}

\* Mutant: only the entry of the caller is looked at.
PruneOwn(a) == {x \in DOMAIN limiters : ~(x = a /\ limiters[x].age > MaxIdle)}

\* pruneLimitersLocked: the entries that an attempt of a leaves.
PruneLimitersLocked(a) == {x \in DOMAIN limiters : limiters[x].age <= MaxIdle}

\* Mutant: the count is never reset.
StillCounts(rl) == TRUE

\* A pause longer than the window starts a new count; the window does not slide.
Counts(rl) == rl.age <= Window

OneMore(n) == IF n = CountCap THEN CountCap ELSE n + 1

\* allowLoginAttempt: an attempt counts, and is the last one seen, also when it
\* is turned away.
AllowLoginAttempt(a) ==
    LET kept == PruneLimitersLocked(a)
        rl == IF a \in kept THEN limiters[a] ELSE ZeroLimiter
        attempts == OneMore(IF Counts(rl) THEN rl.attempts ELSE 0)
    IN  /\ limiters' = [x \in kept \union {a} |->
               IF x = a THEN [attempts |-> attempts, age |-> 0] ELSE limiters[x]]
        /\ verdict' = [address |-> a, ok |-> attempts <= Limit]
        /\ allowed' = IF attempts <= Limit
                      THEN [allowed EXCEPT ![a][0] = @ + 1]
                      ELSE allowed

LimiterNext == LimiterTick \/ \E a \in Addresses : AllowLoginAttempt(a)

LimiterSpec == LimiterInit /\ [][LimiterNext]_limiterVars

-----------------------------------------------------------------------------
(* Properties.                                                             *)

\* However attempts are spaced and whatever is pruned, no window of time lets
\* more than Limit logins of one address through.
RateBound == \A a \in Addresses : Recent(a) <= Limit

Age(a) == IF a \in DOMAIN limiters THEN limiters[a].age ELSE MaxIdle + 1

Attempted(a) == verdict' # <<>> /\ verdict'.address = a

\* "Too many login attempts. Please wait a minute.": who has not tried for
\* longer than the window is let through.
WaitingHelps ==
    [][\A a \in Addresses : Attempted(a) /\ Age(a) > Window => verdict'.ok]_limiterVars

\* "bounded in-memory tracking": after an attempt of anybody the map holds no
\* address that has been quiet for longer than MaxIdle.
IdleAddressesForgotten ==
    [][verdict' # <<>> => \A a \in DOMAIN limiters' : limiters'[a].age <= MaxIdle]_limiterVars
=============================================================================
