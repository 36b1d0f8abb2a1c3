------------------------- MODULE LoginLimiterProofs -------------------------
(***************************************************************************)
(* What is proved of LoginLimiter, for every number of addresses, window   *)
(* and limit.                                                              *)
(***************************************************************************)
EXTENDS LoginLimiter, FiniteSetTheorems, TLAPS

\* The entries an attempt leaves are entries of the map, and not old.
LEMMA Kept ==
    ASSUME LimiterTypeOK, NEW a \in Addresses
    PROVE  /\ PruneLimitersLocked(a) \subseteq DOMAIN limiters
           /\ \A x \in PruneLimitersLocked(a) : limiters[x].age <= MaxIdle
  BY DEF PruneLimitersLocked

\* One attempt more, up to the cap.
LEMMA OneMoreCounts ==
    ASSUME NEW n \in 0 .. CountCap
    PROVE  OneMore(n) \in 0 .. CountCap
  BY LimiterConstants DEF OneMore

\* The count of an attempt, of an address that is known or not.
LEMMA AttemptCounts ==
    ASSUME LimiterTypeOK, NEW a \in Addresses
    PROVE  LET kept == PruneLimitersLocked(a)
               rl == IF a \in kept THEN limiters[a] ELSE ZeroLimiter
           IN OneMore(IF Counts(rl) THEN rl.attempts ELSE 0) \in 0 .. CountCap
  <1> DEFINE kept == PruneLimitersLocked(a)
             rl == IF a \in kept THEN limiters[a] ELSE ZeroLimiter
  <1>1. ZeroLimiter.attempts = 0
    BY DEF ZeroLimiter
  <1>2. a \in kept => limiters[a].attempts \in 0 .. CountCap
    BY Kept DEF LimiterTypeOK, RateLimiter
  <1>3. rl.attempts \in 0 .. CountCap
    BY <1>1, <1>2, LimiterConstants
  <1>4. QED
    BY <1>3, OneMoreCounts, LimiterConstants

\* Time passes.
LEMMA TickStep ==
    ASSUME LimiterTypeOK, LimiterTick
    PROVE  LimiterTypeOK'
  <1>1. ASSUME NEW a \in DOMAIN limiters
        PROVE  [limiters[a] EXCEPT !.age = IF @ > MaxIdle THEN @ ELSE @ + 1] \in RateLimiter
    <2>1. /\ limiters[a] \in [attempts : 0..CountCap, age : LimiterAges]
      BY DEF LimiterTypeOK, RateLimiter
    <2>2. (IF limiters[a].age > MaxIdle THEN limiters[a].age ELSE limiters[a].age + 1) \in LimiterAges
      BY <2>1, LimiterConstants DEF LimiterAges
    <2>3. QED
      BY <2>1, <2>2 DEF RateLimiter
  <1>2. /\ DOMAIN limiters' = DOMAIN limiters
        /\ \A a \in DOMAIN limiters' : limiters'[a] \in RateLimiter
    BY <1>1 DEF LimiterTick
  <1>3. allowed' \in [Addresses -> [0..Window -> Nat]]
    <2>1. ASSUME NEW a \in Addresses, NEW k \in 0..Window
          PROVE  (IF k = 0 THEN 0 ELSE allowed[a][k - 1]) \in Nat
      BY LimiterConstants DEF LimiterTypeOK
    <2>2. QED
      BY <2>1 DEF LimiterTick
  <1>4. verdict' = <<>>
    BY DEF LimiterTick
  <1>5. QED
    BY <1>2, <1>3, <1>4 DEF LimiterTypeOK

\* An attempt.
LEMMA AttemptStep ==
    ASSUME LimiterTypeOK, NEW a \in Addresses, AllowLoginAttempt(a)
    PROVE  LimiterTypeOK'
  <1> DEFINE kept == PruneLimitersLocked(a)
             rl == IF a \in kept THEN limiters[a] ELSE ZeroLimiter
             attempts == OneMore(IF Counts(rl) THEN rl.attempts ELSE 0)
  <1>1. attempts \in 0 .. CountCap /\ kept \subseteq DOMAIN limiters
    BY AttemptCounts, Kept
  <1>2. /\ limiters' = [x \in kept \union {a} |->
               IF x = a THEN [attempts |-> attempts, age |-> 0] ELSE limiters[x]]
        /\ verdict' = [address |-> a, ok |-> attempts <= Limit]
        /\ allowed' = IF attempts <= Limit THEN [allowed EXCEPT ![a][0] = @ + 1] ELSE allowed
    BY DEF AllowLoginAttempt
  <1> HIDE DEF kept, attempts
  <1>3. [attempts |-> attempts, age |-> 0] \in RateLimiter
    BY <1>1, LimiterConstants DEF RateLimiter, LimiterAges
  <1>4. /\ DOMAIN limiters' \subseteq Addresses
        /\ \A x \in DOMAIN limiters' : limiters'[x] \in RateLimiter
    BY <1>1, <1>2, <1>3 DEF LimiterTypeOK
  <1>5. allowed' \in [Addresses -> [0..Window -> Nat]]
    <2>1. 0 \in 0..Window /\ allowed \in [Addresses -> [0..Window -> Nat]]
      BY LimiterConstants DEF LimiterTypeOK
    <2>2. allowed[a] \in [0..Window -> Nat] /\ allowed[a][0] + 1 \in Nat
      <3>1. allowed[a] \in [0..Window -> Nat]
        BY <2>1
      <3>2. allowed[a][0] \in Nat
        BY <2>1, <3>1
      <3>3. QED
        BY <3>1, <3>2
    <2>3. [allowed[a] EXCEPT ![0] = @ + 1] \in [0..Window -> Nat]
      BY <2>1, <2>2
    <2>4. QED
      BY <1>2, <2>1, <2>3
  <1>6. verdict' \in [address : Addresses, ok : BOOLEAN]
    <2>1. (attempts <= Limit) \in BOOLEAN
      OBVIOUS
    <2>2. QED
      BY <1>2, <2>1
  <1>7. QED
    BY <1>4, <1>5, <1>6 DEF LimiterTypeOK

\* What every variable holds.
THEOREM TypeCorrect == LimiterSpec => []LimiterTypeOK
  <1>1. LimiterInit => LimiterTypeOK
    BY LimiterConstants DEF LimiterInit, LimiterTypeOK
  <1>2. LimiterTypeOK /\ [LimiterNext]_limiterVars => LimiterTypeOK'
    <2>1. LimiterTypeOK /\ UNCHANGED limiterVars => LimiterTypeOK'
      BY DEF LimiterTypeOK, limiterVars
    <2>2. QED
      BY <2>1, TickStep, AttemptStep DEF LimiterNext
  <1>3. QED
    BY <1>1, <1>2, PTL DEF LimiterSpec

\* After an attempt of anybody the map holds no address that has been quiet for
\* longer than MaxIdle, so it is bounded by the addresses of that time.
THEOREM IdleForgotten == LimiterSpec => IdleAddressesForgotten
  <1> DEFINE Forgets == verdict' # <<>> => \A a \in DOMAIN limiters' : limiters'[a].age <= MaxIdle
  <1>1. ASSUME LimiterTypeOK, [LimiterNext]_limiterVars PROVE [Forgets]_limiterVars
    <2>1. CASE LimiterTick
      BY <2>1 DEF LimiterTick
    <2>2. ASSUME NEW a \in Addresses, AllowLoginAttempt(a) PROVE Forgets
      BY <1>1, <2>2, Kept, LimiterConstants DEF AllowLoginAttempt
    <2>3. QED
      BY <1>1, <2>1, <2>2 DEF LimiterNext
  <1>2. QED
    BY <1>1, TypeCorrect, PTL DEF LimiterSpec, IdleAddressesForgotten

\* Who has not tried for longer than the window is let through, whatever the
\* others do and whatever is pruned.
THEOREM WaitingIsEnough == LimiterSpec => WaitingHelps
  <1> DEFINE Helps == \A a \in Addresses : Attempted(a) /\ Age(a) > Window => verdict'.ok
  <1>1. ASSUME LimiterTypeOK, [LimiterNext]_limiterVars PROVE [Helps]_limiterVars
    <2>1. CASE LimiterTick
      BY <2>1 DEF LimiterTick, Attempted
    <2>2. ASSUME NEW b \in Addresses, AllowLoginAttempt(b), NEW a \in Addresses, Attempted(a), Age(a) > Window
          PROVE  verdict'.ok
      <3> DEFINE kept == PruneLimitersLocked(a)
                 rl == IF a \in kept THEN limiters[a] ELSE ZeroLimiter
                 attempts == OneMore(IF Counts(rl) THEN rl.attempts ELSE 0)
      <3>1. b = a
        BY <2>2 DEF AllowLoginAttempt, Attempted
      <3>2. verdict' = [address |-> a, ok |-> attempts <= Limit]
        BY <2>2, <3>1 DEF AllowLoginAttempt
      <3>3. rl.age > Window
        <4>1. CASE a \in kept
          BY <1>1, <2>2, <4>1, Kept DEF Age
        <4>2. CASE a \notin kept
          BY <4>2, LimiterConstants DEF ZeroLimiter
        <4>3. QED
          BY <4>1, <4>2
      <3>4. rl.age \in Nat
        BY <1>1, Kept, LimiterConstants DEF ZeroLimiter, LimiterTypeOK, RateLimiter, LimiterAges
      <3>5. ~Counts(rl)
        BY <3>3, <3>4, LimiterConstants DEF Counts
      <3>6. attempts = 1
        BY <3>5, LimiterConstants DEF OneMore
      <3> HIDE DEF attempts
      <3>7. attempts <= Limit
        BY <3>6, LimiterConstants
      <3>8. QED
        BY <3>2, <3>7
    <2>3. QED
      BY <1>1, <2>1, <2>2 DEF LimiterNext
  <1>2. QED
    BY <1>1, TypeCorrect, PTL DEF LimiterSpec, WaitingHelps

(***************************************************************************)
(* The bound on the logins of a window.  By itself it is not inductive: an *)
(* attempt is judged by the counter, so the counter must be at least the   *)
(* number of recent logins, and must not be started anew while there are   *)
(* any.  That is why nothing may have been let through since the entry was *)
(* last seen.                                                              *)
(***************************************************************************)
SilentSince(a) == \A k \in 0..Window : k < Age(a) => allowed[a][k] = 0

CounterCovers(a) == a \in DOMAIN limiters => Recent(a) <= limiters[a].attempts

RateInv ==
    \A a \in Addresses :
        /\ IsFiniteSet(RecentLogins(a))
        /\ SilentSince(a)
        /\ CounterCovers(a)
        /\ Recent(a) <= Limit

\* A login is a pair of a tick of the window and a number.
LEMMA LoginPairs ==
    ASSUME NEW a, NEW p
    PROVE  p \in RecentLogins(a) <=>
             \E k \in 0..Window : \E i \in 1..allowed[a][k] : p = <<k, i>>
  BY DEF RecentLogins

\* A window without logins is empty.
LEMMA NoneRecent ==
    ASSUME NEW a, \A k \in 0..Window : allowed[a][k] = 0
    PROVE  IsFiniteSet(RecentLogins(a)) /\ Recent(a) = 0
  <1>1. RecentLogins(a) = {}
    <2>1. ASSUME NEW p \in RecentLogins(a) PROVE FALSE
      BY LoginPairs
    <2>2. QED
      BY <2>1
  <1>2. QED
    BY <1>1, FS_EmptySet DEF Recent

\* What has been quiet for longer than the window has no recent login.
LEMMA QuietForLong ==
    ASSUME LimiterTypeOK, RateInv, NEW a \in Addresses, Age(a) > Window
    PROVE  Recent(a) = 0
  <1>1. \A k \in 0..Window : k < Age(a)
    BY LimiterConstants DEF Age, LimiterTypeOK, RateLimiter, LimiterAges
  <1>2. \A k \in 0..Window : allowed[a][k] = 0
    BY <1>1 DEF RateInv, SilentSince
  <1>3. QED
    BY <1>2, NoneRecent

\* One login more is one pair more.
LEMMA OneLoginMore ==
    ASSUME LimiterTypeOK, NEW a \in Addresses, IsFiniteSet(RecentLogins(a)),
           allowed' = [allowed EXCEPT ![a][0] = @ + 1]
    PROVE  /\ IsFiniteSet(RecentLogins(a))'
           /\ Recent(a)' = Recent(a) + 1
  <1> DEFINE new == <<0, allowed[a][0] + 1>>
  <1>1. /\ 0 \in 0..Window
        /\ allowed[a] \in [0..Window -> Nat]
        /\ \A k \in 0..Window : allowed[a][k] \in Nat
    BY LimiterConstants DEF LimiterTypeOK
  <1>2. allowed'[a] = [allowed[a] EXCEPT ![0] = @ + 1]
    BY DEF LimiterTypeOK
  <1>3. /\ allowed'[a][0] = allowed[a][0] + 1
        /\ \A k \in 0..Window : k # 0 => allowed'[a][k] = allowed[a][k]
    BY <1>1, <1>2
  <1>4. RecentLogins(a)' = RecentLogins(a) \union {new}
    <2>1. \A p : p \in RecentLogins(a)' <=>
                   \E k \in 0..Window : \E i \in 1..allowed'[a][k] : p = <<k, i>>
      BY DEF RecentLogins
    <2>2. ASSUME NEW k \in 0..Window, NEW i \in 1..allowed'[a][k]
          PROVE  <<k, i>> \in RecentLogins(a) \union {new}
      <3>1. CASE i \in 1..allowed[a][k]
        BY <3>1, LoginPairs
      <3>2. CASE i \notin 1..allowed[a][k]
        BY <1>1, <1>3, <3>2
      <3>3. QED
        BY <3>1, <3>2
    <2>3. ASSUME NEW k \in 0..Window, NEW i \in 1..allowed[a][k]
          PROVE  <<k, i>> \in RecentLogins(a)'
      <3>1. i \in 1..allowed'[a][k]
        BY <1>1, <1>3
      <3>2. QED
        BY <2>1, <3>1
    <2>4. new \in RecentLogins(a)'
      <3>1. allowed[a][0] + 1 \in 1..allowed'[a][0]
        BY <1>1, <1>3
      <3>2. QED
        BY <1>1, <2>1, <3>1
    <2>5. QED
      BY <2>1, <2>2, <2>3, <2>4, LoginPairs
  <1>5. new \notin RecentLogins(a)
    <2>1. ASSUME NEW k \in 0..Window, NEW i \in 1..allowed[a][k], new = <<k, i>>
          PROVE  FALSE
      <3>1. k = 0 /\ i = allowed[a][0] + 1
        BY <2>1
      <3>2. QED
        BY <1>1, <2>1, <3>1
    <2>2. QED
      BY <2>1, LoginPairs
  <1> HIDE DEF new
  <1>6. QED
    BY <1>4, <1>5, FS_AddElement DEF Recent

\* Time moves every login of the window one tick back, and the last ones out.
LEMMA WindowMoves ==
    ASSUME LimiterTypeOK, LimiterTick, NEW a \in Addresses, IsFiniteSet(RecentLogins(a))
    PROVE  /\ IsFiniteSet(RecentLogins(a))'
           /\ Recent(a)' <= Recent(a)
  <1> DEFINE before == [p \in RecentLogins(a)' |-> <<p[1] - 1, p[2]>>]
  <1>1. \A k \in 0..Window : allowed'[a][k] = IF k = 0 THEN 0 ELSE allowed[a][k - 1]
    BY DEF LimiterTick
  <1>2. ASSUME NEW p \in RecentLogins(a)'
        PROVE  /\ p = <<p[1], p[2]>>
               /\ p[1] \in 0..Window /\ p[1] # 0
               /\ p[2] \in 1..allowed[a][p[1] - 1]
    <2>1. PICK k \in 0..Window : \E i \in 1..allowed'[a][k] : p = <<k, i>>
      BY <1>2 DEF RecentLogins
    <2>2. PICK i \in 1..allowed'[a][k] : p = <<k, i>>
      BY <2>1
    <2>3. k # 0
      BY <1>1, <2>2
    <2>4. i \in 1..allowed[a][k - 1]
      BY <1>1, <2>3
    <2>5. p[1] = k /\ p[2] = i
      BY <2>2
    <2>6. QED
      BY <2>2, <2>3, <2>4, <2>5
  <1>3. ASSUME NEW p \in RecentLogins(a)'
        PROVE  <<p[1] - 1, p[2]>> \in RecentLogins(a)
    <2>1. p[1] - 1 \in 0..Window
      BY <1>2, LimiterConstants
    <2>2. QED
      BY <1>2, <2>1, LoginPairs
  <1>4. ASSUME NEW p \in RecentLogins(a)', NEW q \in RecentLogins(a)', before[p] = before[q]
        PROVE  p = q
    <2>1. p[1] - 1 = q[1] - 1 /\ p[2] = q[2]
      BY <1>4
    <2>2. p[1] \in Int /\ q[1] \in Int
      BY <1>2
    <2>3. p[1] = q[1]
      BY <2>1, <2>2
    <2>4. QED
      BY <1>2, <2>1, <2>3
  <1>5. before \in Injection(RecentLogins(a)', RecentLogins(a))
    <2>1. before \in [RecentLogins(a)' -> RecentLogins(a)]
      BY <1>3
    <2> HIDE DEF before
    <2>2. QED
      BY <1>4, <2>1 DEF Injection, IsInjective
  <1>6. QED
    BY <1>5, FS_Injection DEF Recent

\* What an address that nothing happened to shows.
LEMMA AllowedKept ==
    ASSUME NEW a, allowed'[a] = allowed[a]
    PROVE  /\ RecentLogins(a)' = RecentLogins(a)
           /\ Recent(a)' = Recent(a)
  BY DEF RecentLogins, Recent


\* Time passes.
LEMMA TickKeepsRate ==
    ASSUME LimiterTypeOK, RateInv, LimiterTick
    PROVE  RateInv'
  <1> SUFFICES ASSUME NEW a \in Addresses
               PROVE  /\ IsFiniteSet(RecentLogins(a))'
                      /\ SilentSince(a)'
                      /\ CounterCovers(a)'
                      /\ Recent(a)' <= Limit
    BY DEF RateInv
  <1>1. /\ IsFiniteSet(RecentLogins(a))
        /\ SilentSince(a)
        /\ CounterCovers(a)
        /\ Recent(a) <= Limit
    BY DEF RateInv
  <1>2. /\ IsFiniteSet(RecentLogins(a))'
        /\ Recent(a)' <= Recent(a)
    BY <1>1, WindowMoves
  <1>3. Recent(a) \in Nat /\ Recent(a)' \in Nat
    BY <1>1, <1>2, FS_CardinalityType DEF Recent
  <1>4. /\ DOMAIN limiters' = DOMAIN limiters
        /\ \A x \in DOMAIN limiters :
             /\ limiters[x].attempts \in Nat
             /\ limiters[x].age \in Nat
             /\ limiters'[x].attempts = limiters[x].attempts
             /\ limiters'[x].age \in Nat
             /\ limiters'[x].age <= limiters[x].age + 1
    BY LimiterConstants DEF LimiterTick, LimiterTypeOK, RateLimiter, LimiterAges
  <1>5. SilentSince(a)'
    <2>1. \A k \in 0..Window : allowed'[a][k] = IF k = 0 THEN 0 ELSE allowed[a][k - 1]
      BY DEF LimiterTick
    <2>2. Age(a) \in Nat /\ Age(a)' \in Nat /\ Age(a)' <= Age(a) + 1
      BY <1>4, LimiterConstants DEF Age
    <2>3. ASSUME NEW k \in 0..Window, k < Age(a)' PROVE allowed'[a][k] = 0
      <3>1. CASE k = 0
        BY <2>1, <3>1
      <3>2. CASE k # 0
        <4>1. k - 1 \in 0..Window /\ k - 1 < Age(a)
          BY <2>2, <2>3, <3>2, LimiterConstants
        <4>2. allowed[a][k - 1] = 0
          BY <1>1, <4>1 DEF SilentSince
        <4>3. QED
          BY <2>1, <3>2, <4>2
      <3>3. QED
        BY <3>1, <3>2
    <2>4. QED
      BY <2>3 DEF SilentSince
  <1>6. CounterCovers(a)'
    BY <1>1, <1>2, <1>3, <1>4 DEF CounterCovers
  <1>7. QED
    BY <1>1, <1>2, <1>3, <1>5, <1>6, LimiterConstants

\* What an attempt of another address does to this one: nothing, or its old
\* entry goes.
LEMMA OthersKeepRate ==
    ASSUME LimiterTypeOK, RateInv, NEW b \in Addresses, AllowLoginAttempt(b),
           NEW a \in Addresses, a # b
    PROVE  /\ IsFiniteSet(RecentLogins(a))'
           /\ SilentSince(a)'
           /\ CounterCovers(a)'
           /\ Recent(a)' <= Limit
  <1> DEFINE kept == PruneLimitersLocked(b)
  <1>1. /\ IsFiniteSet(RecentLogins(a))
        /\ SilentSince(a)
        /\ CounterCovers(a)
        /\ Recent(a) <= Limit
    BY DEF RateInv
  <1>2. allowed'[a] = allowed[a]
    BY DEF AllowLoginAttempt, LimiterTypeOK
  <1>3. /\ RecentLogins(a)' = RecentLogins(a)
        /\ Recent(a)' = Recent(a)
    BY <1>2, AllowedKept
  <1>4. /\ a \in DOMAIN limiters' <=> a \in kept
        /\ a \in kept => a \in DOMAIN limiters /\ limiters'[a] = limiters[a]
    BY Kept DEF AllowLoginAttempt
  <1>5. SilentSince(a)'
    <2>1. CASE a \in kept
      BY <1>1, <1>2, <1>4, <2>1 DEF SilentSince, Age
    <2>2. CASE a \notin DOMAIN limiters
      BY <1>1, <1>2, <1>4, <2>2 DEF SilentSince, Age
    <2>3. CASE a \in DOMAIN limiters /\ a \notin kept
      <3>1. limiters[a].age > MaxIdle /\ limiters[a].age \in Nat
        BY <2>3, LimiterConstants DEF PruneLimitersLocked, LimiterTypeOK, RateLimiter, LimiterAges
      <3>2. \A k \in 0..Window : k < Age(a)
        BY <2>3, <3>1, LimiterConstants DEF Age
      <3>3. QED
        BY <1>1, <1>2, <3>2 DEF SilentSince
    <2>4. QED
      BY <1>4, <2>1, <2>2, <2>3
  <1>6. CounterCovers(a)'
    BY <1>1, <1>3, <1>4 DEF CounterCovers
  <1>7. QED
    BY <1>1, <1>3, <1>5, <1>6

\* What an attempt does to its own address.
LEMMA OwnKeepsRate ==
    ASSUME LimiterTypeOK, RateInv, NEW a \in Addresses, AllowLoginAttempt(a)
    PROVE  /\ IsFiniteSet(RecentLogins(a))'
           /\ SilentSince(a)'
           /\ CounterCovers(a)'
           /\ Recent(a)' <= Limit
  <1> DEFINE kept == PruneLimitersLocked(a)
             rl == IF a \in kept THEN limiters[a] ELSE ZeroLimiter
             n == IF Counts(rl) THEN rl.attempts ELSE 0
             attempts == OneMore(n)
  <1>1. /\ IsFiniteSet(RecentLogins(a))
        /\ CounterCovers(a)
        /\ Recent(a) <= Limit
        /\ Recent(a) \in Nat
    BY FS_CardinalityType DEF RateInv, Recent
  <1>2. /\ a \in DOMAIN limiters'
        /\ limiters'[a] = [attempts |-> attempts, age |-> 0]
        /\ attempts <= Limit => allowed' = [allowed EXCEPT ![a][0] = @ + 1]
        /\ ~(attempts <= Limit) => allowed' = allowed
    BY DEF AllowLoginAttempt
  <1>3. Recent(a) <= n /\ n \in Nat
    <2>1. CASE a \in kept
      <3>1. /\ a \in DOMAIN limiters
            /\ rl = limiters[a]
            /\ rl.attempts \in Nat
            /\ rl.age \in Nat
        BY <2>1, Kept, LimiterConstants DEF LimiterTypeOK, RateLimiter, LimiterAges
      <3>2. CASE Counts(rl)
        BY <1>1, <3>1, <3>2 DEF CounterCovers
      <3>3. CASE ~Counts(rl)
        <4>1. Age(a) > Window
          BY <3>1, <3>3, LimiterConstants DEF Counts, Age
        <4>2. Recent(a) = 0
          BY <4>1, QuietForLong
        <4>3. QED
          BY <3>3, <4>2
      <3>4. QED
        BY <3>2, <3>3
    <2>2. CASE a \notin kept
      <3>1. Age(a) > Window
        BY <2>2, LimiterConstants DEF PruneLimitersLocked, Age, LimiterTypeOK, RateLimiter, LimiterAges
      <3>2. Recent(a) = 0
        BY <3>1, QuietForLong
      <3>3. n = 0
        BY <2>2 DEF ZeroLimiter
      <3>4. QED
        BY <3>2, <3>3
    <2>3. QED
      BY <2>1, <2>2
  <1>4. SilentSince(a)'
    <2>1. Age(a)' = 0
      BY <1>2 DEF Age
    <2>2. QED
      BY <2>1 DEF SilentSince
  <1> HIDE DEF n
  <1>5. n < CountCap => attempts = n + 1
    BY <1>3, LimiterConstants DEF OneMore
  <1>6. n >= CountCap => attempts >= CountCap
    BY <1>3, LimiterConstants DEF OneMore
  <1>7. attempts \in Nat
    BY <1>3, LimiterConstants DEF OneMore
  <1> HIDE DEF attempts
  <1>8. CASE attempts <= Limit
    <2>1. attempts = n + 1
      BY <1>3, <1>5, <1>6, <1>7, <1>8, LimiterConstants
    <2>2. /\ IsFiniteSet(RecentLogins(a))'
          /\ Recent(a)' = Recent(a) + 1
      <3>1. allowed' = [allowed EXCEPT ![a][0] = @ + 1]
        BY <1>2, <1>8
      <3>2. IsFiniteSet(RecentLogins(a))
        BY <1>1
      <3>3. QED
        BY <3>1, <3>2, OneLoginMore
    <2>3. CounterCovers(a)'
      BY <1>1, <1>2, <1>3, <2>1, <2>2 DEF CounterCovers
    <2>4. Recent(a)' <= Limit
      BY <1>1, <1>3, <1>8, <2>1, <2>2, LimiterConstants
    <2>5. QED
      BY <1>4, <2>2, <2>3, <2>4
  <1>9. CASE ~(attempts <= Limit)
    <2>1. /\ RecentLogins(a)' = RecentLogins(a)
          /\ Recent(a)' = Recent(a)
      BY <1>2, <1>9, AllowedKept
    <2>2. CounterCovers(a)'
      BY <1>1, <1>2, <1>7, <1>9, <2>1, LimiterConstants DEF CounterCovers
    <2>3. QED
      BY <1>1, <1>4, <2>1, <2>2
  <1>10. QED
    BY <1>8, <1>9

\* However attempts are spaced, whoever else attempts and whatever is pruned, no
\* window of time lets more than Limit logins of one address through.
THEOREM RateIsBounded == LimiterSpec => []RateBound
  <1>1. LimiterInit => RateInv
    <2> SUFFICES ASSUME LimiterInit, NEW a \in Addresses
                 PROVE  /\ IsFiniteSet(RecentLogins(a))
                        /\ SilentSince(a)
                        /\ CounterCovers(a)
                        /\ Recent(a) <= Limit
      BY DEF RateInv
    <2>1. \A k \in 0..Window : allowed[a][k] = 0
      BY DEF LimiterInit
    <2>2. IsFiniteSet(RecentLogins(a)) /\ Recent(a) = 0
      BY <2>1, NoneRecent
    <2>3. a \notin DOMAIN limiters
      BY DEF LimiterInit
    <2>4. QED
      BY <2>1, <2>2, <2>3, LimiterConstants DEF SilentSince, CounterCovers
  <1>2. LimiterTypeOK /\ RateInv /\ [LimiterNext]_limiterVars => RateInv'
    <2>1. LimiterTypeOK /\ RateInv /\ UNCHANGED limiterVars => RateInv'
      BY DEF RateInv, SilentSince, CounterCovers, Recent, RecentLogins, Age, limiterVars
    <2>2. ASSUME LimiterTypeOK, RateInv, NEW b \in Addresses, AllowLoginAttempt(b)
          PROVE  RateInv'
      BY <2>2, OthersKeepRate, OwnKeepsRate DEF RateInv
    <2>3. QED
      BY <2>1, <2>2, TickKeepsRate DEF LimiterNext
  <1>3. RateInv => RateBound
    BY DEF RateInv, RateBound
  <1>4. QED
    BY <1>1, <1>2, <1>3, TypeCorrect, PTL DEF LimiterSpec
=============================================================================
