------------------------- MODULE ExternalAppsProofs -------------------------
(***************************************************************************)
(* What is proved of the backends of the two apps: types, that nothing is  *)
(* left behind at StockIt, what the answer to a recurring payment says of  *)
(* the rows there are, what offset paging promises while other clients     *)
(* write, and that due dates and balances are right, for any number of     *)
(* requests, sessions, rows and faults.                                    *)
(***************************************************************************)
EXTENDS ExternalApps, CashflowProofs

-----------------------------------------------------------------------------
(* Invariants.                                                             *)

\* The tokens of the logins that have no session of the app yet.
LimitTokens == {handlers[h].token : h \in {g \in Handlers : At(g, "limit")}}

\* Where a good token is, while nothing has failed; a token that a handler
\* holds was given out, and a call that is late was given up by a fault.
TokensInv ==
    /\ \A h \in Handlers : /\ handlers[h].token \notin fresh
                           /\ At(h, "limit") => handlers[h].token \in Tokens
    /\ \A c \in late : c.fault <= faults
    /\ faults = 0 => good \subseteq held \union LimitTokens

\* A run that may get another row.
Pending(run) == run.created < run.count /\ run.answer.status # "refused"
Unfinished(r) == r \in DOMAIN runs /\ Pending(runs[r])

\* An answer that tells what has landed, when it is one of those that do.
Truthful(run) ==
    /\ run.answer.status = "all" => run.created = run.count /\ run.answer.told = {run.count}
    /\ run.answer.status = "refused" => run.answer.told = {run.created} /\ run.landed = 1..run.created

\* A run has one handler, or a call that is late, or nobody who goes on with it.
RunsInv ==
    /\ \A r \in DOMAIN runs :
          /\ runs[r].landed \in {1..runs[r].created, 1..(runs[r].created + 1)}
          /\ Truthful(runs[r])
    /\ \A h \in Handlers : At(h, "create") =>
          /\ Unfinished(handlers[h].run)
          /\ runs[handlers[h].run].landed = 1..runs[handlers[h].run].created
          /\ runs[handlers[h].run].answer = NoReply
    /\ \A h, g \in Handlers :
          At(h, "create") /\ At(g, "create") /\ handlers[h].run = handlers[g].run => h = g
    /\ \A c \in late : c.call = "create" =>
          /\ Unfinished(c.run)
          /\ \A h \in Handlers : At(h, "create") => handlers[h].run # c.run

\* A report has as many rows as its offset says, and those that are still there
\* come before it; no more of them are gone than were deleted meanwhile.
PagesInv ==
    \A h \in Handlers :
       /\ deletions[h] + Cardinality(rows) <= seq
       /\ At(h, "list") =>
             /\ handlers[h].got \subseteq 1..seq
             /\ Cardinality(handlers[h].got) = handlers[h].offset
             /\ Cardinality(handlers[h].got \ rows) <= deletions[h]
             /\ \A x \in handlers[h].got \intersect rows : Rank(x) <= handlers[h].offset

AppsInv == TypeOK /\ TokensInv /\ RunsInv /\ PagesInv

-----------------------------------------------------------------------------
(* Counting in a finite set of numbers.                                    *)

LEMMA FewerInSubset ==
    ASSUME NEW n \in Nat, NEW S \in SUBSET (1..n), NEW T \in SUBSET S
    PROVE  /\ IsFiniteSet(S) /\ IsFiniteSet(T)
           /\ Cardinality(S) \in Nat /\ Cardinality(T) \in Nat
           /\ Cardinality(T) <= Cardinality(S) /\ Cardinality(S) <= n
  <1>1. IsFiniteSet(1..n) /\ Cardinality(1..n) = n
    BY FS_Interval
  <1>2. IsFiniteSet(S) /\ Cardinality(S) <= Cardinality(1..n)
    BY <1>1, FS_Subset
  <1>3. IsFiniteSet(T) /\ Cardinality(T) <= Cardinality(S)
    BY <1>2, FS_Subset
  <1>4. QED
    BY <1>1, <1>2, <1>3, FS_CardinalityType

\* At most k elements have a place up to the k-th.
LEMMA FewLow ==
    ASSUME NEW n \in Nat, NEW S \in SUBSET (1..n), NEW k \in Nat
    PROVE  Cardinality({x \in S : Cardinality({y \in S : y <= x}) <= k}) <= k
  <1> DEFINE Low == {x \in S : Cardinality({y \in S : y <= x}) <= k}
  <1>1. CASE Low = {}
    <2>1. Cardinality(Low) = 0
      BY <1>1, FS_EmptySet
    <2> HIDE DEF Low
    <2>2. Cardinality(Low) <= k
      BY <2>1
    <2>3. QED
      BY <2>2 DEF Low
  <1>2. CASE Low # {}
    <2>1. PICK m \in Low : \A x \in Low : x <= m
      BY <1>2, Largest
    <2>2. Low \subseteq {y \in S : y <= m} /\ Cardinality({y \in S : y <= m}) <= k
      BY <2>1
    <2>3. /\ Cardinality(Low) <= Cardinality({y \in S : y <= m})
          /\ Cardinality(Low) \in Nat /\ Cardinality({y \in S : y <= m}) \in Nat
      <3>1. {y \in S : y <= m} \in SUBSET (1..n)
        OBVIOUS
      <3>2. QED
        BY <2>2, <3>1, FewerInSubset
    <2>4. QED
      BY <2>2, <2>3
  <1>3. QED
    BY <1>1, <1>2

-----------------------------------------------------------------------------
(* Types.                                                                  *)

LEMMA Bounds ==
    /\ MaxSessions \in Nat /\ MaxRows \in Nat /\ MaxRuns \in Nat /\ MaxFaults \in Nat
    /\ PageLimit \in Nat \ {0} /\ NoToken \notin Tokens
  BY AppBounds, AppInputs

LEMMA CountTypes == \A count \in Counts : count \in Nat /\ count > 0 /\ count <= MaxRows
  BY Bounds DEF Counts, Rows

LEMMA IdleType == Idle \in Handler /\ Idle.pc = "idle" /\ Idle.token = NoToken
  BY Bounds DEF Idle, Handler, Steps

LEMMA InitInv == Init => AppsInv
  <1> SUFFICES ASSUME Init PROVE AppsInv
    OBVIOUS
  <1>1. /\ fresh = Tokens /\ good = {} /\ seq \in 0..MaxRows /\ rows = 1..seq /\ held = {}
        /\ handlers = [h \in Handlers |-> Idle] /\ runs = [r \in {} |-> {}]
        /\ deletions = [h \in Handlers |-> 0] /\ late = {} /\ faults = 0
    BY DEF Init, StockIt!Init
  <1>2. \A h \in Handlers : handlers[h] = Idle
    BY <1>1
  <1>3. TypeOK
    <2>1. DOMAIN runs = 1..0
      BY <1>1
    <2>2. 0 \in 0..MaxRuns /\ 0 \in 0..MaxRows /\ 0 \in 0..MaxFaults
      BY Bounds
    <2>3. DOMAIN runs \in {1..n : n \in 0..MaxRuns} /\ \A r \in DOMAIN runs : FALSE
      BY <2>1, <2>2
    <2>4. handlers \in [Handlers -> Handler] /\ deletions \in [Handlers -> 0..MaxRows]
      BY <1>1, <2>2, IdleType
    <2>5. QED
      BY <1>1, <2>2, <2>3, <2>4 DEF TypeOK
  <1>4. TokensInv
    BY <1>1, <1>2, IdleType, Bounds DEF TokensInv, At
  <1>5. RunsInv
    <2>1. \A h \in Handlers : ~At(h, "create")
      BY <1>2, IdleType DEF At
    <2>2. \A r \in DOMAIN runs : FALSE
      BY <1>1
    <2>3. QED
      BY <1>1, <2>1, <2>2 DEF RunsInv
  <1>6. PagesInv
    <2>1. \A h \in Handlers : ~At(h, "list") /\ deletions[h] = 0
      BY <1>1, <1>2, IdleType DEF At
    <2>2. seq \in Nat /\ Cardinality(rows) = seq
      BY <1>1, Bounds, FS_Interval
    <2>3. QED
      BY <2>1, <2>2 DEF PagesInv
  <1>7. QED
    BY <1>3, <1>4, <1>5, <1>6 DEF AppsInv

-----------------------------------------------------------------------------
(* Handlers.                                                               *)

\* Only handler h moves, and this is what becomes of it.
Moves(h, to) == handlers' = [handlers EXCEPT ![h] = to]

LEMMA MoveType ==
    ASSUME TypeOK, NEW h \in Handlers, NEW to \in Handler, Moves(h, to)
    PROVE  /\ handlers' \in [Handlers -> Handler]
           /\ handlers'[h] = to
           /\ \A g \in Handlers \ {h} : handlers'[g] = handlers[g]
  BY DEF Moves, TypeOK

LEMMA HandlerFields ==
    ASSUME TypeOK, NEW h \in Handlers
    PROVE  /\ handlers[h] \in Handler
           /\ handlers[h].pc \in Steps /\ handlers[h].token \in Tokens \union {NoToken}
           /\ handlers[h].run \in {0} \union RunIds /\ handlers[h].offset \in 0..MaxRows
           /\ handlers[h].got \subseteq Rows
  BY DEF TypeOK, Handler

\* A request begins with nothing read and no run.
Started(step, t, r) == [pc |-> step, token |-> t, run |-> r, offset |-> 0, got |-> {}]

LEMMA StartedType ==
    ASSUME NEW step \in Steps, NEW t \in Tokens \union {NoToken}, NEW r \in {0} \union RunIds
    PROVE  /\ Started(step, t, r) \in Handler
           /\ Started(step, t, r).pc = step /\ Started(step, t, r).token = t
           /\ Started(step, t, r).run = r /\ Started(step, t, r).offset = 0
           /\ Started(step, t, r).got = {}
  BY Bounds DEF Started, Handler

LEMMA DoneMoves ==
    ASSUME NEW h \in Handlers, Done(h)
    PROVE  Moves(h, Idle)
  BY DEF Done, Moves

\* The ways a handler begins.
LEMMA BeginMoves ==
    ASSUME TypeOK, NEW h \in Handlers
    PROVE  /\ StartLogin(h) => Moves(h, Started("login", NoToken, 0))
           /\ \A t \in held :
                 /\ StartLogout(h, t) => Moves(h, Started("logout", t, 0))
                 /\ StartForward(h, t) => Moves(h, Started("forward", t, 0))
                 /\ StartReport(h, t) => Moves(h, Started("list", t, 0))
                 /\ \A count \in Counts : StartRecurring(h, t, count) =>
                       Moves(h, Started("create", t, Cardinality(DOMAIN runs) + 1))
  <1> DEFINE pcOnly(step) == [pc |-> step, token |-> NoToken, run |-> 0, offset |-> 0, got |-> {}]
  <1>0. \A step : [Idle EXCEPT !.pc = step] = pcOnly(step)
    BY DEF Idle
  <1>1. ASSUME NEW step, NEW t
        PROVE  [Idle EXCEPT !.pc = step, !.token = t] = Started(step, t, 0)
    <2>1. [Idle EXCEPT !.pc = step, !.token = t] = [pcOnly(step) EXCEPT !.token = t]
      BY <1>0
    <2>2. QED
      BY <2>1 DEF Started
  <1>2. \A step : [Idle EXCEPT !.pc = step] = Started(step, NoToken, 0)
    BY DEF Started, Idle
  <1>3. ASSUME NEW step, NEW t, NEW r
        PROVE  [Idle EXCEPT !.pc = step, !.token = t, !.run = r] = Started(step, t, r)
    <2>1. [Idle EXCEPT !.pc = step, !.token = t, !.run = r] = [Started(step, t, 0) EXCEPT !.run = r]
      BY <1>1
    <2>2. QED
      BY <2>1 DEF Started
  <1>4. StartLogin(h) => Moves(h, Started("login", NoToken, 0))
    BY <1>2 DEF StartLogin, Moves
  <1>5. ASSUME NEW t \in held
        PROVE  /\ StartLogout(h, t) => Moves(h, Started("logout", t, 0))
               /\ StartForward(h, t) => Moves(h, Started("forward", t, 0))
               /\ StartReport(h, t) => Moves(h, Started("list", t, 0))
    BY <1>1 DEF StartLogout, StartForward, StartReport, Begin, Moves
  <1>6. ASSUME NEW t \in held, NEW count \in Counts, StartRecurring(h, t, count)
        PROVE  Moves(h, Started("create", t, Cardinality(DOMAIN runs) + 1))
    BY <1>3, <1>6 DEF StartRecurring, Moves
  <1>7. QED
    BY <1>4, <1>5, <1>6

LEMMA LoginMoves ==
    ASSUME TypeOK, NEW h \in Handlers, LoginCall(h)
    PROVE  \/ Moves(h, Idle)
           \/ \E t \in fresh : /\ Moves(h, [handlers[h] EXCEPT !.pc = "limit", !.token = t])
                               /\ StockIt!Open(t) /\ faults' = faults /\ late' = late
  <1>1. CASE Done(h)
    BY <1>1, DoneMoves
  <1>2. CASE \E t \in fresh :
                /\ StockIt!Open(t)
                /\ handlers' = [handlers EXCEPT ![h].pc = "limit", ![h].token = t]
                /\ NoFault /\ UNCHANGED late
    <2>1. \A t : [handlers EXCEPT ![h].pc = "limit", ![h].token = t] =
                 [handlers EXCEPT ![h] = [handlers[h] EXCEPT !.pc = "limit", !.token = t]]
      BY DEF TypeOK
    <2>2. QED
      BY <1>2, <2>1 DEF Moves, NoFault
  <1>3. QED
    BY <1>1, <1>2 DEF LoginCall

\* What a page makes of the handler.
Read(h) == [handlers[h] EXCEPT !.pc = IF HasMore(handlers[h].offset) THEN "list" ELSE "report",
                               !.got = handlers[h].got \union Page(handlers[h].offset),
                               !.offset = handlers[h].offset + Cardinality(Page(handlers[h].offset))]

\* What becomes of a handler that has asked for an installment.
LEMMA RowHandlers ==
    ASSUME NEW h \in Handlers, CreateRow(h)
    PROVE  Done(h) \/ handlers' = handlers
  <1>1. PICK r, k : r = handlers[h].run /\ k = runs[r].created + 1
    OBVIOUS
  <1>2. ASSUME Created(h, r, k) PROVE Done(h) \/ handlers' = handlers
    BY <1>2 DEF Created
  <1>3. ASSUME Rejected(h, r, k) PROVE Done(h)
    BY <1>3 DEF Rejected
  <1>4. Created(h, r, k) \/ Rejected(h, r, k) \/ Done(h)
    BY <1>1, Zenon DEF CreateRow, NextInstallment
  <1>5. QED
    BY <1>2, <1>3, <1>4

LEMMA ListMoves ==
    ASSUME TypeOK, NEW h \in Handlers, ListRows(h)
    PROVE  Moves(h, Idle) \/ (~Unauthorized(h) /\ Moves(h, Read(h)))
  <1>1. CASE Unauthorized(h)
    BY <1>1, DoneMoves DEF ListRows
  <1>2. CASE ~Unauthorized(h)
    <2>1. ReadPage(h)
      BY <1>2 DEF ListRows
    <2>2. Moves(h, Read(h))
      BY <2>1 DEF ReadPage, Moves, Read, NextOffset, TypeOK
    <2>3. QED
      BY <1>2, <2>2
  <1>3. QED
    BY <1>1, <1>2

-----------------------------------------------------------------------------
(* Pages.                                                                  *)

LEMMA RowFacts ==
    ASSUME TypeOK
    PROVE  /\ seq \in Nat /\ seq <= MaxRows /\ rows \in SUBSET (1..seq)
           /\ IsFiniteSet(rows) /\ Cardinality(rows) \in Nat /\ Cardinality(rows) <= seq
           /\ \A x \in Nat : /\ Rank(x) \in Nat /\ Rank(x) <= Cardinality(rows)
                             /\ IsFiniteSet({y \in rows : y <= x})
  <1>1. seq \in Nat /\ seq <= MaxRows /\ rows \in SUBSET (1..seq)
    BY Bounds DEF TypeOK
  <1>2. IsFiniteSet(rows) /\ Cardinality(rows) \in Nat /\ Cardinality(rows) <= seq
    BY <1>1, FewerInSubset
  <1>3. ASSUME NEW x \in Nat
        PROVE  /\ Rank(x) \in Nat /\ Rank(x) <= Cardinality(rows)
               /\ IsFiniteSet({y \in rows : y <= x})
    <2>1. {y \in rows : y <= x} \in SUBSET rows
      OBVIOUS
    <2>2. QED
      BY <1>1, <2>1, FewerInSubset DEF Rank
  <1>4. QED
    BY <1>1, <1>2, <1>3

\* A page reaches up to the last of its rows: no row of it has a place farther
\* from the offset than the page has rows.
LEMMA PageReaches ==
    ASSUME TypeOK, NEW o \in Nat, NEW x \in Page(o)
    PROVE  /\ Rank(x) <= o + Cardinality(Page(o))
           /\ IsFiniteSet(Page(o)) /\ Cardinality(Page(o)) \in Nat
  <1> DEFINE Low == {y \in rows : Rank(y) <= o}
  <1> DEFINE Upto == {y \in rows : y <= x}
  <1>1. /\ IsFiniteSet(rows) /\ (\A y \in rows : y \in Nat)
        /\ \A y \in Nat : Rank(y) \in Nat
    <2>1. rows \in SUBSET (1..seq) /\ seq \in Nat
      BY RowFacts
    <2>2. \A y \in rows : y \in Nat
      BY <2>1
    <2>3. QED
      BY <2>2, RowFacts
  <1>2. Low \subseteq rows /\ Page(o) \subseteq rows /\ Upto \subseteq rows /\ x \in rows
    BY DEF Page
  <1>3. /\ IsFiniteSet(Low) /\ IsFiniteSet(Page(o)) /\ IsFiniteSet(Upto)
        /\ Cardinality(Low) \in Nat /\ Cardinality(Page(o)) \in Nat /\ Cardinality(Upto) \in Nat
    BY <1>1, <1>2, FS_Subset, FS_CardinalityType
  <1>4. Cardinality(Low) <= o
    BY RowFacts, FewLow DEF Rank
  <1>5. Upto \subseteq Low \union Page(o)
    <2>1. ASSUME NEW y \in Upto PROVE Rank(y) <= Rank(x)
      <3>1. y \in Nat /\ x \in Nat /\ y <= x
        BY <1>1, <1>2
      <3>2. {z \in rows : z <= y} \subseteq Upto
        <4>1. \A z \in rows : z <= y => z <= x
          BY <1>1, <3>1
        <4>2. QED
          BY <4>1
      <3>3. QED
        BY <1>3, <3>2, FS_Subset DEF Rank
    <2>2. Rank(x) <= o + PageLimit /\ PageLimit \in Nat
      BY Bounds DEF Page
    <2>3. ASSUME NEW y \in Upto PROVE y \in Low \/ y \in Page(o)
      <3>1. y \in rows /\ Rank(y) \in Nat /\ Rank(x) \in Nat
        BY <1>1, <1>2
      <3>2. Rank(y) <= o + PageLimit
        BY <2>1, <2>2, <3>1
      <3>3. QED
        BY <3>1, <3>2 DEF Page
    <2>4. QED
      BY <2>3
  <1>6. Cardinality(Upto) <= Cardinality(Low) + Cardinality(Page(o))
    <2>1. /\ IsFiniteSet(Low \union Page(o))
          /\ Cardinality(Low \union Page(o)) =
                Cardinality(Low) + Cardinality(Page(o)) - Cardinality(Low \cap Page(o))
      BY <1>3, FS_Union
    <2>2. IsFiniteSet(Low \cap Page(o)) /\ Cardinality(Low \cap Page(o)) \in Nat
      BY <1>3, FS_Intersection, FS_CardinalityType
    <2>3. Cardinality(Upto) <= Cardinality(Low \union Page(o))
      BY <1>5, <2>1, FS_Subset
    <2> HIDE DEF Upto, Low
    <2>4. QED
      BY <1>3, <2>1, <2>2, <2>3
  <1>7. Rank(x) = Cardinality(Upto)
    BY DEF Rank
  <1>8. QED
    BY <1>3, <1>4, <1>6, <1>7

LEMMA PageFinite ==
    ASSUME TypeOK, NEW o \in Nat
    PROVE  /\ Page(o) \subseteq rows /\ IsFiniteSet(Page(o)) /\ Cardinality(Page(o)) \in Nat
  <1>1. Page(o) \subseteq rows
    BY DEF Page
  <1>2. QED
    BY <1>1, RowFacts, FS_Subset, FS_CardinalityType

\* What a handler knows of a report, as the invariant has it.
Listing(h) ==
    /\ handlers[h].got \subseteq 1..seq
    /\ Cardinality(handlers[h].got) = handlers[h].offset
    /\ Cardinality(handlers[h].got \ rows) <= deletions[h]
    /\ \A x \in handlers[h].got \intersect rows : Rank(x) <= handlers[h].offset

LEMMA ListingFacts ==
    ASSUME TypeOK, NEW h \in Handlers, Listing(h)
    PROVE  /\ handlers[h].offset \in Nat /\ IsFiniteSet(handlers[h].got)
           /\ Cardinality(handlers[h].got) = handlers[h].offset
           /\ \A x \in handlers[h].got : x \in Nat
           /\ deletions[h] \in Nat
  <1>1. seq \in Nat
    BY RowFacts
  <1>2. handlers[h].got \in SUBSET (1..seq)
    BY DEF Listing
  <1>3. IsFiniteSet(handlers[h].got) /\ Cardinality(handlers[h].got) \in Nat
    BY <1>1, <1>2, FewerInSubset
  <1>4. \A x \in handlers[h].got : x \in Nat
    BY <1>1, <1>2
  <1>5. deletions[h] \in Nat
    BY Bounds DEF TypeOK
  <1>6. QED
    BY <1>3, <1>4, <1>5 DEF Listing

\* The next page has none of the rows that came before.
LEMMA PageIsNew ==
    ASSUME TypeOK, NEW h \in Handlers, Listing(h)
    PROVE  Page(handlers[h].offset) \intersect handlers[h].got = {}
  <1> SUFFICES ASSUME NEW x \in Page(handlers[h].offset), x \in handlers[h].got
               PROVE  FALSE
    OBVIOUS
  <1>1. x \in rows /\ handlers[h].offset < Rank(x)
    BY DEF Page
  <1>2. Rank(x) <= handlers[h].offset
    BY <1>1 DEF Listing
  <1>3. x \in Nat /\ handlers[h].offset \in Nat
    BY ListingFacts
  <1>4. Rank(x) \in Nat
    BY <1>3, RowFacts
  <1>5. QED
    BY <1>1, <1>2, <1>3, <1>4

\* What a handler has read, with the next page, fits the invariant again.
LEMMA PageFits ==
    ASSUME TypeOK, NEW h \in Handlers, Listing(h),
           NEW got, got = handlers[h].got \union Page(handlers[h].offset),
           NEW offset, offset = handlers[h].offset + Cardinality(Page(handlers[h].offset))
    PROVE  /\ got \subseteq 1..seq /\ Cardinality(got) = offset /\ offset \in 0..MaxRows
           /\ Cardinality(got \ rows) <= deletions[h]
           /\ \A x \in got \intersect rows : Rank(x) <= offset
  <1> DEFINE P == Page(handlers[h].offset)
  <1>1. /\ handlers[h].offset \in Nat /\ IsFiniteSet(handlers[h].got)
        /\ Cardinality(handlers[h].got) = handlers[h].offset
        /\ \A x \in handlers[h].got : x \in Nat
    BY ListingFacts
  <1>2. P \subseteq rows /\ IsFiniteSet(P) /\ Cardinality(P) \in Nat
    BY <1>1, PageFinite
  <1>3. seq \in Nat /\ seq <= MaxRows /\ rows \in SUBSET (1..seq)
    BY RowFacts
  <1>4. got \in SUBSET (1..seq)
    BY <1>2, <1>3 DEF Listing
  <1>5. Cardinality(got) = offset
    <2>1. handlers[h].got \cap P = {}
      BY PageIsNew
    <2>2. Cardinality(handlers[h].got \cap P) = 0
      BY <2>1, FS_EmptySet
    <2>3. Cardinality(handlers[h].got \union P) =
             Cardinality(handlers[h].got) + Cardinality(P) - Cardinality(handlers[h].got \cap P)
      BY <1>1, <1>2, FS_Union
    <2> HIDE DEF P
    <2>4. Cardinality(handlers[h].got \union P) = handlers[h].offset + Cardinality(P)
      BY <1>1, <1>2, <2>2, <2>3
    <2>5. QED
      BY <2>4 DEF P
  <1>6. offset \in 0..MaxRows
    <2>1. Cardinality(got) <= seq /\ Cardinality(got) \in Nat
      BY <1>3, <1>4, FewerInSubset
    <2>2. QED
      BY <1>3, <1>5, <2>1, Bounds
  <1>7. Cardinality(got \ rows) <= deletions[h]
    <2>1. got \ rows = handlers[h].got \ rows
      BY <1>2
    <2>2. QED
      BY <2>1 DEF Listing
  <1>8. ASSUME NEW x \in got \intersect rows PROVE Rank(x) <= offset
    <2>1. CASE x \in P
      BY <1>1, <2>1, PageReaches
    <2>2. CASE x \in handlers[h].got
      <3>1. Rank(x) <= handlers[h].offset /\ x \in Nat
        BY <1>1, <2>2 DEF Listing
      <3>2. Rank(x) \in Nat
        BY <3>1, RowFacts
      <3>3. QED
        BY <1>1, <1>2, <3>1, <3>2
    <2>3. QED
      BY <2>1, <2>2
  <1>9. QED
    BY <1>4, <1>5, <1>6, <1>7, <1>8

\* After the last page, what is missing was kept from a page by a deletion.
LEMMA LastPageCompletes ==
    ASSUME TypeOK, NEW h \in Handlers, Listing(h), ~HasMore(handlers[h].offset)
    PROVE  Cardinality(rows \ (handlers[h].got \union Page(handlers[h].offset))) <= deletions[h]
  <1> DEFINE Low == {x \in rows : Rank(x) <= handlers[h].offset}
  <1> DEFINE got == handlers[h].got
  <1> DEFINE missing == rows \ (got \union Page(handlers[h].offset))
  <1>1. /\ handlers[h].offset \in Nat /\ IsFiniteSet(got) /\ Cardinality(got) = handlers[h].offset
        /\ deletions[h] \in Nat
    BY ListingFacts
  <1>2. /\ seq \in Nat /\ rows \in SUBSET (1..seq) /\ IsFiniteSet(rows) /\ Cardinality(rows) \in Nat
        /\ \A x \in Nat : Rank(x) \in Nat /\ Rank(x) <= Cardinality(rows)
    BY RowFacts
  <1>3. missing \subseteq Low \ got
    <2>1. ASSUME NEW x \in missing PROVE Rank(x) <= handlers[h].offset
      <3>1. x \in Nat
        BY <1>2
      <3>2. Rank(x) \in Nat /\ Rank(x) <= Cardinality(rows)
        BY <1>2, <3>1
      <3>3. Cardinality(rows) <= handlers[h].offset + PageLimit /\ PageLimit \in Nat
        BY <1>1, <1>2, Bounds DEF HasMore
      <3>4. ~(handlers[h].offset < Rank(x) /\ Rank(x) <= handlers[h].offset + PageLimit)
        BY DEF Page
      <3>5. QED
        BY <1>1, <1>2, <3>2, <3>3, <3>4
    <2>2. QED
      BY <2>1
  <1>4. got \cap rows = Low \cap got
    BY DEF Listing
  <1>5. Cardinality(Low) <= handlers[h].offset
    BY <1>1, <1>2, FewLow DEF Rank
  <1>6. IsFiniteSet(Low) /\ Cardinality(Low) \in Nat
    BY <1>2, FS_Subset, FS_CardinalityType
  <1> HIDE DEF Low
  <1>7. /\ IsFiniteSet(Low \ got) /\ Cardinality(Low \ got) \in Nat
        /\ Cardinality(Low \ got) = Cardinality(Low) - Cardinality(Low \cap got)
    BY <1>6, FS_Difference, FS_CardinalityType
  <1>8. /\ IsFiniteSet(got \ rows) /\ Cardinality(got \ rows) \in Nat
        /\ Cardinality(got \ rows) = Cardinality(got) - Cardinality(got \cap rows)
    BY <1>1, FS_Difference, FS_CardinalityType
  <1>9. IsFiniteSet(got \cap rows) /\ Cardinality(got \cap rows) \in Nat
    BY <1>1, FS_Intersection, FS_CardinalityType
  <1>10. Cardinality(got \ rows) <= deletions[h]
    BY DEF Listing
  <1>11. Cardinality(missing) \in Nat /\ Cardinality(missing) <= Cardinality(Low \ got)
    BY <1>3, <1>7, FS_Subset, FS_CardinalityType
  <1> HIDE DEF got, missing
  <1>12. Cardinality(Low \ got) <= Cardinality(got \ rows)
    <2>1. Cardinality(Low \cap got) = Cardinality(got \cap rows)
      BY <1>4
    <2>2. Cardinality(Low \ got) = Cardinality(Low) - Cardinality(got \cap rows)
      BY <1>7, <2>1
    <2>3. Cardinality(got \ rows) = handlers[h].offset - Cardinality(got \cap rows)
      BY <1>1, <1>8
    <2>4. QED
      BY <1>1, <1>5, <1>6, <1>9, <2>2, <2>3
  <1>13. Cardinality(missing) <= deletions[h]
    BY <1>1, <1>7, <1>8, <1>10, <1>11, <1>12
  <1>14. QED
    BY <1>13 DEF missing, got

-----------------------------------------------------------------------------
(* Rows.                                                                   *)

\* The part of the invariant that is about rows and pages.
RowsInv ==
    /\ rows \subseteq 1..seq /\ seq \in 0..MaxRows
    /\ deletions \in [Handlers -> 0..MaxRows]
    /\ PagesInv

LEMMA PagesInvIsListing ==
    PagesInv <=> \A h \in Handlers : /\ deletions[h] + Cardinality(rows) <= seq
                                     /\ At(h, "list") => Listing(h)
  BY DEF PagesInv, Listing

\* A new row comes last: nothing moves.
LEMMA InsertKeepsListing ==
    ASSUME TypeOK, InsertRow
    PROVE  /\ rows' \subseteq 1..seq' /\ seq' \in 0..MaxRows
           /\ deletions' = deletions
           /\ Cardinality(rows') = Cardinality(rows) + 1 /\ seq' = seq + 1
           /\ \A h \in Handlers : Listing(h) /\ handlers'[h] = handlers[h] => Listing(h)'
  <1>1. /\ seq \in Nat /\ seq <= MaxRows /\ rows \in SUBSET (1..seq) /\ IsFiniteSet(rows)
        /\ Cardinality(rows) \in Nat
        /\ \A x \in Nat : Rank(x) \in Nat
    BY RowFacts
  <1>2. seq < MaxRows /\ seq' = seq + 1 /\ rows' = rows \union {seq + 1} /\ deletions' = deletions
    BY DEF InsertRow
  <1>3. rows' \in SUBSET (1..seq') /\ seq' \in 0..MaxRows
    BY <1>1, <1>2, Bounds
  <1>4. seq + 1 \notin rows
    BY <1>1
  <1>5. Cardinality(rows') = Cardinality(rows) + 1
    BY <1>1, <1>2, <1>4, FS_AddElement
  <1>6. ASSUME NEW h \in Handlers, Listing(h), handlers'[h] = handlers[h] PROVE Listing(h)'
    <2>1. handlers[h].got \in SUBSET (1..seq) /\ IsFiniteSet(handlers[h].got)
      BY <1>6, ListingFacts DEF Listing
    <2>2. handlers'[h].got \subseteq 1..seq'
      BY <1>1, <1>2, <1>6, <2>1
    <2>3. Cardinality(handlers'[h].got) = handlers'[h].offset
      BY <1>6 DEF Listing
    <2>4. seq + 1 \notin handlers[h].got
      BY <1>1, <2>1
    <2>5. Cardinality(handlers'[h].got \ rows') <= deletions'[h]
      <3>1. handlers'[h].got \ rows' = handlers[h].got \ rows
        BY <1>2, <1>6, <2>4
      <3>2. QED
        BY <1>2, <1>6, <3>1 DEF Listing
    <2>6. ASSUME NEW x \in handlers'[h].got \intersect rows' PROVE Rank(x)' <= handlers'[h].offset
      <3>1. x \in handlers[h].got \intersect rows /\ x \in 1..seq
        BY <1>2, <1>6, <2>1, <2>4, <2>6
      <3>2. {y \in rows' : y <= x} = {y \in rows : y <= x}
        <4>1. ~(seq + 1 <= x)
          BY <1>1, <3>1
        <4>2. QED
          BY <1>2, <4>1
      <3>3. QED
        BY <1>6, <3>1, <3>2 DEF Listing, Rank
    <2>7. QED
      BY <2>2, <2>3, <2>5, <2>6 DEF Listing
  <1>7. QED
    BY <1>2, <1>3, <1>5, <1>6

\* A row that goes moves those behind it forward, and is counted.
LEMMA DeleteKeepsListing ==
    ASSUME TypeOK, PagesInv, NEW r \in rows, DeleteRow(r)
    PROVE  /\ rows' \subseteq 1..seq' /\ seq' \in 0..MaxRows
           /\ deletions' \in [Handlers -> 0..MaxRows]
           /\ \A h \in Handlers : /\ deletions'[h] + Cardinality(rows') <= seq'
                                  /\ At(h, "list") /\ handlers'[h] = handlers[h] => Listing(h)'
  <1>1. /\ seq \in Nat /\ seq <= MaxRows /\ rows \in SUBSET (1..seq) /\ IsFiniteSet(rows)
        /\ Cardinality(rows) \in Nat /\ Cardinality(rows) <= seq
        /\ \A x \in Nat : Rank(x) \in Nat /\ IsFiniteSet({y \in rows : y <= x})
    BY RowFacts
  <1>2. /\ rows' = rows \ {r} /\ seq' = seq
        /\ deletions' = [h \in Handlers |-> IF At(h, "list") THEN deletions[h] + 1 ELSE 0]
    BY DEF DeleteRow
  <1>3. Cardinality(rows') = Cardinality(rows) - 1
    BY <1>1, <1>2, FS_RemoveElement
  <1>4. ASSUME NEW h \in Handlers
        PROVE  deletions'[h] \in Nat /\ deletions'[h] + Cardinality(rows') <= seq'
    <2>1. deletions[h] \in Nat /\ deletions[h] + Cardinality(rows) <= seq
      <3>1. deletions[h] \in Nat
        BY Bounds DEF TypeOK
      <3>2. QED
        BY <3>1, PagesInvIsListing
    <2>2. deletions'[h] = IF At(h, "list") THEN deletions[h] + 1 ELSE 0
      BY <1>2
    <2>3. CASE At(h, "list")
      BY <1>1, <1>2, <1>3, <2>1, <2>2, <2>3
    <2>4. CASE ~At(h, "list")
      BY <1>1, <1>2, <1>3, <2>2, <2>4
    <2>5. QED
      BY <2>3, <2>4
  <1>5. Cardinality(rows') \in Nat
    BY <1>1, <1>2, FS_Subset, FS_CardinalityType
  <1>6. deletions' \in [Handlers -> 0..MaxRows]
    <2>1. \A h \in Handlers : deletions'[h] \in 0..MaxRows
      BY <1>1, <1>2, <1>4, <1>5, Bounds
    <2>2. \E f : deletions' = [h \in Handlers |-> f[h]]
      <3>1. deletions' = [h \in Handlers |-> deletions'[h]]
        BY <1>2
      <3>2. QED
        BY <3>1
    <2>3. QED
      BY <2>1, <2>2
  <1>7. ASSUME NEW h \in Handlers, At(h, "list"), handlers'[h] = handlers[h] PROVE Listing(h)'
    <2>1. Listing(h)
      BY <1>7, PagesInvIsListing
    <2>2. /\ handlers[h].got \in SUBSET (1..seq) /\ IsFiniteSet(handlers[h].got)
          /\ deletions[h] \in Nat /\ handlers[h].offset \in Nat
          /\ \A x \in handlers[h].got : x \in Nat
      BY <2>1, ListingFacts DEF Listing
    <2>3. deletions'[h] = deletions[h] + 1
      BY <1>2, <1>7
    <2>4. Cardinality(handlers'[h].got \ rows') <= deletions'[h]
      <3> DEFINE gone == handlers[h].got \ rows
      <3>1. IsFiniteSet(gone) /\ Cardinality(gone) \in Nat /\ Cardinality(gone) <= deletions[h]
        BY <2>1, <2>2, FS_Difference, FS_CardinalityType DEF Listing
      <3>2. handlers'[h].got \ rows' \subseteq gone \union {r} /\ r \notin gone
        BY <1>2, <1>7
      <3> HIDE DEF gone
      <3>3. /\ IsFiniteSet(gone \union {r}) /\ Cardinality(gone \union {r}) \in Nat
            /\ Cardinality(gone \union {r}) = Cardinality(gone) + 1
        <4>1. IsFiniteSet(gone \union {r}) /\ Cardinality(gone \union {r}) = Cardinality(gone) + 1
          BY <3>1, <3>2, FS_AddElement
        <4>2. QED
          BY <3>1, <4>1
      <3>4. /\ Cardinality(handlers'[h].got \ rows') \in Nat
            /\ Cardinality(handlers'[h].got \ rows') <= Cardinality(gone \union {r})
        BY <3>2, <3>3, FS_Subset, FS_CardinalityType
      <3>5. QED
        BY <2>2, <2>3, <3>1, <3>3, <3>4
    <2>5. ASSUME NEW x \in handlers'[h].got \intersect rows' PROVE Rank(x)' <= handlers'[h].offset
      <3>1. x \in handlers[h].got \intersect rows /\ x \in Nat
        BY <1>2, <1>7, <2>2, <2>5
      <3>2. {y \in rows' : y <= x} \subseteq {y \in rows : y <= x}
        BY <1>2
      <3>3. IsFiniteSet({y \in rows : y <= x}) /\ Rank(x) \in Nat
        BY <1>1, <3>1
      <3>4. /\ Cardinality({y \in rows' : y <= x}) <= Cardinality({y \in rows : y <= x})
            /\ Cardinality({y \in rows' : y <= x}) \in Nat
        BY <3>2, <3>3, FS_Subset, FS_CardinalityType
      <3>5. Rank(x)' \in Nat /\ Rank(x)' <= Rank(x)
        BY <3>4 DEF Rank
      <3>6. Rank(x) <= handlers[h].offset
        BY <2>1, <3>1 DEF Listing
      <3>7. QED
        BY <1>7, <2>2, <3>3, <3>5, <3>6
    <2>6. /\ handlers'[h].got \subseteq 1..seq'
          /\ Cardinality(handlers'[h].got) = handlers'[h].offset
      BY <1>2, <1>7, <2>1 DEF Listing
    <2>7. QED
      BY <2>4, <2>5, <2>6 DEF Listing
  <1>8. rows' \subseteq 1..seq' /\ seq' \in 0..MaxRows
    BY <1>1, <1>2, Bounds
  <1>9. QED
    BY <1>4, <1>6, <1>7, <1>8

\* Other clients, or the app itself, write a row, or nobody does.
LEMMA WriteKeepsListing ==
    ASSUME TypeOK, PagesInv, Write \/ NoWrite
    PROVE  /\ rows' \subseteq 1..seq' /\ seq' \in 0..MaxRows
           /\ deletions' \in [Handlers -> 0..MaxRows]
           /\ \A h \in Handlers : /\ deletions'[h] + Cardinality(rows') <= seq'
                                  /\ At(h, "list") /\ handlers'[h] = handlers[h] => Listing(h)'
  <1>1. CASE InsertRow
    <2>1. \A h \in Handlers : deletions[h] \in Nat /\ deletions[h] + Cardinality(rows) <= seq
      BY PagesInvIsListing, Bounds DEF TypeOK
    <2>2. seq \in Nat /\ Cardinality(rows) \in Nat
      BY RowFacts
    <2>3. \A h \in Handlers : deletions'[h] + Cardinality(rows') <= seq'
      BY <1>1, <2>1, <2>2, InsertKeepsListing
    <2>4. \A h \in Handlers : At(h, "list") /\ handlers'[h] = handlers[h] => Listing(h)'
      BY <1>1, InsertKeepsListing, PagesInvIsListing
    <2>5. deletions' \in [Handlers -> 0..MaxRows] /\ rows' \subseteq 1..seq' /\ seq' \in 0..MaxRows
      BY <1>1, InsertKeepsListing DEF TypeOK
    <2>6. QED
      BY <2>3, <2>4, <2>5
  <1>2. CASE \E x \in rows : DeleteRow(x)
    BY <1>2, DeleteKeepsListing
  <1>3. CASE NoWrite
    <2>1. rows' = rows /\ seq' = seq /\ deletions' = deletions
      BY <1>3 DEF NoWrite
    <2>2. \A h \in Handlers : Listing(h) /\ handlers'[h] = handlers[h] => Listing(h)'
      BY <2>1 DEF Listing, Rank
    <2>3. QED
      BY <2>1, <2>2, PagesInvIsListing DEF TypeOK
  <1>4. QED
    BY <1>1, <1>2, <1>3 DEF Write

-----------------------------------------------------------------------------
(* What a step does to the handlers.                                       *)

LEMMA StartedPcs == {"login", "logout", "forward", "list", "create", "limit", "idle"} \subseteq Steps
  BY DEF Steps

\* A handler that begins.
LEMMA BeginHandlers ==
    ASSUME TypeOK, NEW h \in Handlers, Begins(h)
    PROVE  /\ handlers[h].pc = "idle"
           /\ \E step \in {"login", "logout", "forward", "list", "create"},
                t \in held \union {NoToken}, r \in {0} \union RunIds :
                 /\ Moves(h, Started(step, t, r))
                 /\ step = "list" => StartReport(h, t)
                 /\ step = "create" =>
                       t \in held /\ \E count \in Counts : StartRecurring(h, t, count)
  <1> DEFINE Begun == \E step \in {"login", "logout", "forward", "list", "create"},
                t \in held \union {NoToken}, r \in {0} \union RunIds :
                 /\ Moves(h, Started(step, t, r))
                 /\ step = "list" => StartReport(h, t)
                 /\ step = "create" =>
                       t \in held /\ \E count \in Counts : StartRecurring(h, t, count)
  <1>1. CASE StartLogin(h)
    <2>1. Moves(h, Started("login", NoToken, 0)) /\ handlers[h].pc = "idle"
      BY <1>1, BeginMoves DEF StartLogin, At
    <2>2. QED
      BY <2>1
  <1>2. ASSUME NEW t \in held, StartLogout(h, t) PROVE handlers[h].pc = "idle" /\ Begun
    <2>1. Moves(h, Started("logout", t, 0)) /\ handlers[h].pc = "idle"
      BY <1>2, BeginMoves DEF StartLogout, Begin, At
    <2>2. QED
      BY <2>1
  <1>3. ASSUME NEW t \in held, StartForward(h, t) PROVE handlers[h].pc = "idle" /\ Begun
    <2>1. Moves(h, Started("forward", t, 0)) /\ handlers[h].pc = "idle"
      BY <1>3, BeginMoves DEF StartForward, Begin, At
    <2>2. QED
      BY <2>1
  <1>4. ASSUME NEW t \in held, StartReport(h, t) PROVE handlers[h].pc = "idle" /\ Begun
    <2>1. Moves(h, Started("list", t, 0)) /\ handlers[h].pc = "idle"
      BY <1>4, BeginMoves DEF StartReport, Begin, At
    <2>2. QED
      BY <1>4, <2>1
  <1>5. ASSUME NEW t \in held, NEW count \in Counts, StartRecurring(h, t, count)
        PROVE  handlers[h].pc = "idle" /\ Begun
    <2>1. Moves(h, Started("create", t, Cardinality(DOMAIN runs) + 1)) /\ handlers[h].pc = "idle"
      BY <1>5, BeginMoves DEF StartRecurring, At
    <2>2. Cardinality(DOMAIN runs) + 1 \in RunIds
      <3>1. PICK n \in 0..MaxRuns : DOMAIN runs = 1..n
        BY DEF TypeOK
      <3>2. n \in Nat /\ Cardinality(DOMAIN runs) = n
        BY <3>1, Bounds, FS_Interval
      <3>3. n < MaxRuns
        BY <1>5, <3>2 DEF StartRecurring
      <3>4. QED
        BY <3>2, <3>3, Bounds DEF RunIds
    <2>3. QED
      BY <1>5, <2>1, <2>2
  <1>6. QED
    BY <1>1, <1>2, <1>3, <1>4, <1>5 DEF Begins

\* What nobody but a report does to its pages, and nobody but a run to its run.
LEMMA OtherHandlers ==
    ASSUME TypeOK, NEW h \in Handlers,
           \/ LoginCall(h) \/ CreateSession(h) \/ LogoutCall(h) \/ Forward(h)
           \/ Report(h) \/ ListRowsFails(h) \/ CreateRow(h)
    PROVE  \/ \E to \in Handler : to.pc \in {"idle", "limit"} /\ Moves(h, to)
           \/ handlers' = handlers /\ CreateRow(h)
  <1>1. CASE Done(h)
    BY <1>1, DoneMoves, IdleType
  <1>2. CASE LoginCall(h)
    <2>1. CASE Moves(h, Idle)
      BY <2>1, IdleType
    <2>2. CASE \E t \in fresh : Moves(h, [handlers[h] EXCEPT !.pc = "limit", !.token = t])
      <3>1. PICK t \in fresh : Moves(h, [handlers[h] EXCEPT !.pc = "limit", !.token = t])
        BY <2>2
      <3>2. /\ [handlers[h] EXCEPT !.pc = "limit", !.token = t] \in Handler
            /\ [handlers[h] EXCEPT !.pc = "limit", !.token = t].pc = "limit"
        BY StartedPcs, HandlerFields DEF Handler, TypeOK
      <3>3. QED
        BY <3>1, <3>2
    <2>3. QED
      BY <1>2, <2>1, <2>2, LoginMoves
  <1>3. CASE CreateRow(h)
    <2>1. CASE handlers' = handlers
      BY <1>3, <2>1
    <2>2. CASE Done(h)
      BY <2>2, DoneMoves, IdleType
    <2>3. QED
      BY ZenonT(30), <1>3, <2>1, <2>2 DEF CreateRow, Created, Rejected
  <1>4. QED
    BY <1>1, <1>2, <1>3 DEF CreateSession, LogoutCall, Forward, Report, ListRowsFails

\* What happens to a handler in a step of its own or of others.
LEMMA HandlerStep ==
    ASSUME TypeOK, [Next]_vars, NEW g \in Handlers
    PROVE  \/ handlers'[g] = handlers[g]
           \/ handlers'[g].pc \in {"idle", "limit", "login", "logout", "forward"}
           \/ \E t \in held : StartReport(g, t)
           \/ \E t \in held, count \in Counts : StartRecurring(g, t, count)
           \/ ListRows(g) /\ ~Unauthorized(g) /\ handlers'[g] = Read(g)
  <1> DEFINE Quiet == {"idle", "limit", "login", "logout", "forward"}
  <1>1. CASE handlers' = handlers
    BY <1>1
  <1>2. ASSUME NEW h \in Handlers, Begins(h)
        PROVE  \/ handlers'[g] = handlers[g]
               \/ handlers'[g].pc \in Quiet
               \/ \E t \in held : StartReport(g, t)
               \/ \E t \in held, count \in Counts : StartRecurring(g, t, count)
    <2>1. PICK step \in {"login", "logout", "forward", "list", "create"},
               t \in held \union {NoToken}, r \in {0} \union RunIds :
                 /\ Moves(h, Started(step, t, r))
                 /\ step = "list" => StartReport(h, t)
                 /\ step = "create" =>
                       t \in held /\ \E count \in Counts : StartRecurring(h, t, count)
      BY <1>2, BeginHandlers
    <2>2. Started(step, t, r) \in Handler /\ Started(step, t, r).pc = step
      BY SMTT(30), StartedPcs, StartedType DEF TypeOK
    <2>3. handlers'[g] = handlers[g] \/ (g = h /\ handlers'[g].pc = step)
      BY <2>1, <2>2, MoveType
    <2>4. step = "list" => t \in held
      BY <2>1 DEF StartReport, Begin
    <2>5. QED
      BY <2>1, <2>3, <2>4
  <1>3. ASSUME NEW h \in Handlers,
               \/ LoginCall(h) \/ CreateSession(h) \/ LogoutCall(h) \/ Forward(h)
               \/ Report(h) \/ ListRowsFails(h) \/ CreateRow(h)
        PROVE  handlers'[g] = handlers[g] \/ handlers'[g].pc \in Quiet
    BY <1>3, OtherHandlers, MoveType
  <1>4. ASSUME NEW h \in Handlers, ListRows(h)
        PROVE  \/ handlers'[g] = handlers[g]
               \/ handlers'[g].pc \in Quiet
               \/ ListRows(g) /\ ~Unauthorized(g) /\ handlers'[g] = Read(g)
    <2>1. CASE Moves(h, Idle)
      BY <2>1, MoveType, IdleType
    <2>2. CASE ~Unauthorized(h) /\ Moves(h, Read(h))
      BY <1>4, <2>2 DEF Moves, TypeOK
    <2>3. QED
      BY <1>4, <2>1, <2>2, ListMoves
  <1>5. CASE AppRestart
    BY <1>5, IdleType DEF AppRestart
  <1>6. CASE OtherClient \/ SessionsEnd \/ \E c \in late : LateCall(c)
    BY <1>1, <1>6 DEF OtherClient, SessionsEnd, LateCall
  <1>7. CASE UNCHANGED vars
    BY <1>1, <1>7 DEF vars
  <1>8. QED
    BY <1>2, <1>3, <1>4, <1>5, <1>6, <1>7 DEF Next, GoesOn

-----------------------------------------------------------------------------
(* Rows and pages, step by step.                                           *)

LEMMA StepWrites ==
    ASSUME [Next]_vars
    PROVE  \/ Write \/ NoWrite
           \/ \E h \in Handlers, t \in held : StartReport(h, t)
  <1>1. CASE UNCHANGED vars
    BY <1>1 DEF vars, stockit, NoWrite
  <1>2. ASSUME NEW h \in Handlers, Begins(h) PROVE NoWrite \/ \E t \in held : StartReport(h, t)
    BY <1>2 DEF Begins, StartLogin, StartLogout, StartForward, StartRecurring, stockit, NoWrite
  <1>3. ASSUME NEW h \in Handlers, GoesOn(h) \/ ListRowsFails(h) PROVE Write \/ NoWrite
    <2>1. CASE LoginCall(h) \/ LogoutCall(h) \/ CreateSession(h) \/ ListRows(h)
               \/ Report(h) \/ ListRowsFails(h)
      BY <2>1 DEF LoginCall, LogoutCall, CreateSession, ListRows, Report, ListRowsFails, stockit, NoWrite
    <2>2. CASE Forward(h)
      BY SMTT(30), SMTT(30), <2>2 DEF Forward
    <2>3. CASE CreateRow(h)
      BY <2>3 DEF CreateRow, Created, Rejected, Write
    <2>4. QED
      BY <1>3, <2>1, <2>2, <2>3 DEF GoesOn
  <1>4. CASE OtherClient
    BY <1>4 DEF OtherClient
  <1>5. CASE SessionsEnd
    BY <1>5 DEF SessionsEnd, NoWrite
  <1>6. ASSUME NEW c \in late, LateCall(c) PROVE Write \/ NoWrite
    BY <1>6 DEF LateCall, Land, Write
  <1>7. CASE AppRestart
    BY <1>7 DEF AppRestart, stockit, NoWrite
  <1>8. QED
    BY <1>1, <1>2, <1>3, <1>4, <1>5, <1>6, <1>7 DEF Next

LEMMA ReadFields ==
    ASSUME TypeOK, NEW h \in Handlers
    PROVE  /\ Read(h).pc = IF HasMore(handlers[h].offset) THEN "list" ELSE "report"
           /\ Read(h).got = handlers[h].got \union Page(handlers[h].offset)
           /\ Read(h).offset = handlers[h].offset + Cardinality(Page(handlers[h].offset))
           /\ Read(h).run = handlers[h].run /\ Read(h).token = handlers[h].token
  BY HandlerFields DEF Read, Handler

LEMMA ReportBegins ==
    ASSUME TypeOK, NEW h \in Handlers, NEW t \in held, StartReport(h, t)
    PROVE  /\ rows' = rows /\ seq' = seq /\ deletions' = [deletions EXCEPT ![h] = 0]
           /\ handlers'[h].got = {} /\ handlers'[h].offset = 0
           /\ \A g \in Handlers \ {h} : handlers'[g] = handlers[g]
  <1>1. Moves(h, Started("list", t, 0))
    BY BeginMoves
  <1>2. t \in Tokens \union {NoToken} /\ "list" \in Steps
    BY StartedPcs DEF TypeOK
  <1>3. handlers'[h] = Started("list", t, 0) /\ \A g \in Handlers \ {h} : handlers'[g] = handlers[g]
    BY <1>1, <1>2, StartedType, MoveType
  <1>4. QED
    BY <1>2, <1>3, StartedType DEF StartReport, stockit

LEMMA RowsStep ==
    ASSUME TypeOK, PagesInv, [Next]_vars
    PROVE  RowsInv'
  <1>1. ASSUME NEW h \in Handlers, NEW t \in held, StartReport(h, t)
        PROVE  RowsInv'
    <2>1. /\ rows' = rows /\ seq' = seq /\ deletions' = [deletions EXCEPT ![h] = 0]
          /\ handlers'[h].got = {} /\ handlers'[h].offset = 0
          /\ \A g \in Handlers \ {h} : handlers'[g] = handlers[g]
      BY <1>1, ReportBegins
    <2>2. deletions' \in [Handlers -> 0..MaxRows] /\ deletions'[h] = 0
      BY <2>1, Bounds DEF TypeOK
    <2>3. seq \in Nat /\ Cardinality(rows) \in Nat /\ Cardinality(rows) <= seq
      BY RowFacts
    <2>4. Listing(h)'
      <3>1. Cardinality({}) = 0 /\ {} \ rows = {}
        BY FS_EmptySet
      <3>2. QED
        BY <2>1, <2>2, <3>1 DEF Listing
    <2>5. ASSUME NEW g \in Handlers \ {h}
          PROVE  /\ deletions'[g] + Cardinality(rows') <= seq'
                 /\ At(g, "list")' => Listing(g)'
      <3>1. deletions'[g] = deletions[g] /\ handlers'[g] = handlers[g]
        BY <2>1 DEF TypeOK
      <3>2. deletions[g] + Cardinality(rows) <= seq /\ (At(g, "list") => Listing(g))
        BY PagesInvIsListing
      <3>3. QED
        BY <2>1, <3>1, <3>2 DEF At, Listing, Rank
    <2>6. \A g \in Handlers : /\ deletions'[g] + Cardinality(rows') <= seq'
                              /\ At(g, "list")' => Listing(g)'
      BY <2>1, <2>2, <2>3, <2>4, <2>5
    <2>7. PagesInv'
      BY <2>6 DEF PagesInv, Listing
    <2>8. QED
      BY <2>1, <2>2, <2>7 DEF RowsInv, TypeOK
  <1>2. ASSUME Write \/ NoWrite, ~\E h \in Handlers, t \in held : StartReport(h, t)
        PROVE  RowsInv'
    <2>1. ASSUME NEW g \in Handlers
          PROVE  /\ deletions'[g] + Cardinality(rows') <= seq'
                 /\ At(g, "list")' => Listing(g)'
      <3>1. deletions'[g] + Cardinality(rows') <= seq'
        BY <1>2, WriteKeepsListing
      <3>2. CASE handlers'[g] = handlers[g]
        BY <1>2, <3>1, <3>2, WriteKeepsListing DEF At
      <3>3. CASE handlers'[g].pc \in {"idle", "limit", "login", "logout", "forward"}
        BY <3>1, <3>3 DEF At
      <3>4. ASSUME NEW t \in held, NEW count \in Counts, StartRecurring(g, t, count)
            PROVE  handlers'[g].pc = "create"
        <4>1. Moves(g, Started("create", t, Cardinality(DOMAIN runs) + 1))
          BY <3>4, BeginMoves
        <4>2. QED
          BY <4>1 DEF Moves, Started, TypeOK
      <3>5. CASE ListRows(g) /\ ~Unauthorized(g) /\ handlers'[g] = Read(g)
        <4>1. rows' = rows /\ seq' = seq /\ deletions' = deletions /\ At(g, "list")
          BY <3>5 DEF ListRows, stockit
        <4>2. Listing(g)
          BY <4>1, PagesInvIsListing
        <4>3. /\ Read(g).got \subseteq 1..seq /\ Cardinality(Read(g).got) = Read(g).offset
              /\ Cardinality(Read(g).got \ rows) <= deletions[g]
              /\ \A x \in Read(g).got \intersect rows : Rank(x) <= Read(g).offset
          <5>1. PICK got, offset : got = Read(g).got /\ offset = Read(g).offset
            OBVIOUS
          <5>2. /\ got = handlers[g].got \union Page(handlers[g].offset)
                /\ offset = handlers[g].offset + Cardinality(Page(handlers[g].offset))
            BY <5>1, ReadFields
          <5>3. /\ got \subseteq 1..seq /\ Cardinality(got) = offset
                /\ Cardinality(got \ rows) <= deletions[g]
                /\ \A x \in got \intersect rows : Rank(x) <= offset
            BY <4>2, <5>2, PageFits
          <5>4. QED
            BY <5>1, <5>3
        <4>5. Listing(g)'
          BY <3>5, <4>1, <4>3 DEF Listing, Rank
        <4>6. QED
          BY <3>1, <4>5
      <3>6. QED
        BY <1>2, <3>1, <3>2, <3>3, <3>4, <3>5, HandlerStep DEF At
    <2>2. PagesInv'
      BY <2>1 DEF PagesInv, Listing
    <2>3. QED
      BY <1>2, <2>2, WriteKeepsListing DEF RowsInv
  <1>3. QED
    BY <1>1, <1>2, StepWrites

LEMMA ReadType ==
    ASSUME TypeOK, PagesInv, NEW h \in Handlers, At(h, "list")
    PROVE  Read(h) \in Handler
  <1>1. Listing(h)
    BY PagesInvIsListing
  <1>2. /\ Read(h).got \subseteq 1..seq /\ Read(h).offset \in 0..MaxRows
    BY <1>1, ReadFields, PageFits
  <1>3. Read(h).got \subseteq Rows
    BY <1>2, RowFacts, Bounds DEF Rows
  <1>4. /\ "list" \in Steps /\ "report" \in Steps
    BY DEF Steps
  <1>5. \A r \in Handler, pc \in Steps, got \in SUBSET Rows, offset \in 0..MaxRows :
           [r EXCEPT !.pc = pc, !.got = got, !.offset = offset] \in Handler
    BY DEF Handler
  <1>6. QED
    BY <1>2, <1>3, <1>4, <1>5, ReadFields, HandlerFields DEF Read

LEMMA HandlersTyped ==
    ASSUME TypeOK, PagesInv, [Next]_vars
    PROVE  handlers' \in [Handlers -> Handler]
  <1>1. CASE handlers' = handlers
    BY <1>1 DEF TypeOK
  <1>2. ASSUME NEW h \in Handlers, NEW to \in Handler, Moves(h, to)
        PROVE  handlers' \in [Handlers -> Handler]
    BY <1>2, MoveType
  <1>3. ASSUME NEW h \in Handlers, Begins(h) PROVE handlers' \in [Handlers -> Handler]
    <2>1. PICK step \in {"login", "logout", "forward", "list", "create"},
               t \in held \union {NoToken}, r \in {0} \union RunIds :
                 Moves(h, Started(step, t, r))
      BY <1>3, BeginHandlers
    <2>2. Started(step, t, r) \in Handler
      BY StartedPcs, StartedType DEF TypeOK
    <2>3. QED
      BY <1>2, <2>1, <2>2
  <1>4. ASSUME NEW h \in Handlers, ListRows(h) PROVE handlers' \in [Handlers -> Handler]
    <2>1. Read(h) \in Handler
      BY <1>4, ReadType DEF ListRows
    <2>2. QED
      BY <1>2, <1>4, <2>1, IdleType, ListMoves
  <1>5. ASSUME NEW h \in Handlers,
               \/ LoginCall(h) \/ CreateSession(h) \/ LogoutCall(h) \/ Forward(h)
               \/ Report(h) \/ ListRowsFails(h) \/ CreateRow(h)
        PROVE  handlers' \in [Handlers -> Handler]
    BY <1>1, <1>2, <1>5, OtherHandlers
  <1>6. CASE AppRestart
    BY <1>6, IdleType DEF AppRestart
  <1>7. CASE OtherClient \/ SessionsEnd \/ \E c \in late : LateCall(c)
    BY <1>1, <1>7 DEF OtherClient, SessionsEnd, LateCall
  <1>8. CASE UNCHANGED vars
    BY <1>1, <1>8 DEF vars
  <1>9. QED
    BY <1>3, <1>4, <1>5, <1>6, <1>7, <1>8 DEF Next, GoesOn

-----------------------------------------------------------------------------
(* Calls that are late.                                                    *)

LateCalls == [call : Calls, token : Tokens \union {NoToken}, run : {0} \union RunIds, fault : 1..MaxFaults]

LEMMA CallOfType ==
    ASSUME TypeOK, NEW h \in Handlers, handlers[h].pc \in Calls, Fault
    PROVE  /\ CallOf(h) \in LateCalls
           /\ CallOf(h).call = handlers[h].pc /\ CallOf(h).run = handlers[h].run
           /\ CallOf(h).fault <= faults'
  <1>1. faults \in Nat /\ faults < MaxFaults /\ faults' = faults + 1
    BY Bounds DEF TypeOK, Fault
  <1>2. faults + 1 \in 1..MaxFaults
    BY <1>1, Bounds
  <1>3. QED
    BY <1>1, <1>2, HandlerFields DEF CallOf, LateCalls

\* A late call comes from a handler whose wait ends with a fault.
LEMMA LateStep ==
    ASSUME TypeOK, [Next]_vars
    PROVE  /\ faults' \in 0..MaxFaults /\ faults' >= faults
           /\ \A c \in late' \ late :
                 \E h \in Handlers : /\ handlers[h].pc \in Calls
                                     /\ c = CallOf(h) /\ Fault
                                     /\ handlers'[h] = Idle
                                     /\ handlers[h].pc = "create" => CreateRow(h) \/ AppRestart
  <1>0. faults \in Nat /\ faults \in 0..MaxFaults
    BY Bounds DEF TypeOK
  <1> DEFINE New == \A c \in late' \ late :
                 \E h \in Handlers : /\ handlers[h].pc \in Calls
                                     /\ c = CallOf(h) /\ Fault
                                     /\ handlers'[h] = Idle
                                     /\ handlers[h].pc = "create" => CreateRow(h) \/ AppRestart
  <1>1. ASSUME Fault \/ NoFault \/ faults' = faults PROVE faults' \in 0..MaxFaults /\ faults' >= faults
    BY <1>0, <1>1, Bounds DEF Fault, NoFault
  <1>2. ASSUME NEW h \in Handlers, GiveUp(h), Done(h), handlers[h].pc \in Calls,
               handlers[h].pc = "create" => CreateRow(h) \/ AppRestart
        PROVE  New /\ Fault
    <2>1. handlers'[h] = Idle
      BY <1>2 DEF Done, TypeOK
    <2>2. QED
      BY <1>2, <2>1 DEF GiveUp
  <1>3. ASSUME late' \subseteq late PROVE New
    BY SMTT(30), <1>3
  <1>4. ASSUME NEW h \in Handlers, LoginCall(h) \/ LogoutCall(h) \/ CreateRow(h)
        PROVE  New /\ (Fault \/ NoFault)
    <2>1. handlers[h].pc \in Calls /\ (handlers[h].pc = "create" => CreateRow(h))
      BY <1>4 DEF LoginCall, LogoutCall, CreateRow, At, Calls
    <2>2. CASE GiveUp(h) /\ Done(h)
      BY <1>2, <2>1, <2>2
    <2>3. CASE late' = late /\ (Fault \/ NoFault)
      BY <1>3, <2>3
    <2>4. QED
      BY <1>4, <2>2, <2>3 DEF LoginCall, LogoutCall, CreateRow
  <1>5. CASE AppRestart
    <2>1. PICK waiting \in SUBSET {h \in Handlers : handlers[h].pc \in Calls} :
             late' = late \union {CallOf(h) : h \in waiting}
      BY <1>5 DEF AppRestart
    <2>2. Fault /\ \A h \in Handlers : handlers'[h] = Idle
      BY <1>5 DEF AppRestart
    <2>3. QED
      BY <1>1, <1>5, <2>1, <2>2
  <1>6. ASSUME NEW h \in Handlers,
               Begins(h) \/ CreateSession(h) \/ Forward(h) \/ ListRows(h) \/ Report(h) \/ ListRowsFails(h)
        PROVE  New /\ (Fault \/ NoFault)
    <2>1. late' = late /\ (Fault \/ NoFault)
      BY <1>6 DEF Begins, StartLogin, StartLogout, StartForward, StartReport, StartRecurring,
         CreateSession, Forward, ListRows, Report, ListRowsFails, NoFault
    <2>2. QED
      BY <1>3, <2>1
  <1>7. CASE OtherClient \/ SessionsEnd \/ UNCHANGED vars
    BY <1>1, <1>3, <1>7 DEF OtherClient, SessionsEnd, vars
  <1>8. ASSUME NEW c \in late, LateCall(c) PROVE New /\ faults' = faults
    <2>1. late' = late \ {c} /\ faults' = faults
      BY <1>8 DEF LateCall
    <2>2. QED
      BY <1>3, <2>1
  <1>9. QED
    BY <1>1, <1>4, <1>5, <1>6, <1>7, <1>8 DEF Next, GoesOn

-----------------------------------------------------------------------------
(* Tokens, step by step.                                                   *)

SessionTypes ==
    /\ good \union fresh \subseteq Tokens
    /\ held \subseteq Tokens \ fresh

\* StockIt's part of a step, as the invariant sees it.
LEMMA FreshShrinks ==
    ASSUME TypeOK, [Next]_vars
    PROVE  /\ fresh' \subseteq fresh /\ good' \subseteq good \union fresh
           /\ [StockIt!Next]_(StockIt!vars)
  <1>1. ASSUME UNCHANGED <<fresh, good>> PROVE [StockIt!Next]_(StockIt!vars)
    BY <1>1 DEF StockIt!vars
  <1>2. ASSUME NEW t \in fresh, StockIt!Open(t)
        PROVE  fresh' \subseteq fresh /\ good' \subseteq good \union fresh /\ [StockIt!Next]_(StockIt!vars)
    <2>1. t \in Tokens
      BY DEF TypeOK
    <2>2. QED
      BY <1>2, <2>1 DEF StockIt!Next, StockIt!Open
  <1>3. ASSUME good' \subseteq good, fresh' = fresh
        PROVE  fresh' \subseteq fresh /\ good' \subseteq good \union fresh /\ [StockIt!Next]_(StockIt!vars)
    BY <1>3 DEF StockIt!Next, StockIt!Close
  <1>4. ASSUME NEW h \in Handlers, Begins(h) PROVE UNCHANGED <<fresh, good>>
    BY <1>4 DEF Begins, StartLogin, StartLogout, StartForward, StartReport, StartRecurring, stockit
  <1>5. ASSUME NEW h \in Handlers,
               CreateSession(h) \/ Forward(h) \/ ListRows(h) \/ Report(h) \/ ListRowsFails(h) \/ CreateRow(h)
        PROVE  UNCHANGED <<fresh, good>>
    BY <1>5 DEF CreateSession, Forward, ListRows, Report, ListRowsFails, CreateRow, stockit
  <1>6. ASSUME NEW h \in Handlers, LoginCall(h)
        PROVE  (\E t \in fresh : StockIt!Open(t)) \/ UNCHANGED <<fresh, good>>
    BY <1>6 DEF LoginCall
  <1>7. ASSUME NEW h \in Handlers, LogoutCall(h) PROVE good' \subseteq good /\ fresh' = fresh
    BY <1>7 DEF LogoutCall
  <1>8. CASE OtherClient \/ SessionsEnd \/ AppRestart \/ UNCHANGED vars
    <2>1. good' \subseteq good /\ fresh' = fresh
      BY <1>8 DEF OtherClient, SessionsEnd, AppRestart, stockit, vars
    <2>2. QED
      BY <1>3, <2>1
  <1>9. ASSUME NEW c \in late, LateCall(c)
        PROVE  (\E t \in fresh : StockIt!Open(t)) \/ (good' \subseteq good /\ fresh' = fresh)
    BY <1>9 DEF LateCall
  <1>10. QED
    BY <1>1, <1>2, <1>3, <1>4, <1>5, <1>6, <1>7, <1>8, <1>9 DEF Next, GoesOn

\* A handler that was not about to make its session leaves the others as they are.
LEMMA LimitTokensStay ==
    ASSUME TypeOK, NEW h \in Handlers, ~At(h, "limit"),
           \A g \in Handlers \ {h} : handlers'[g] = handlers[g]
    PROVE  LimitTokens \subseteq LimitTokens'
  BY DEF LimitTokens, At

LEMMA TokensStep ==
    ASSUME TypeOK, PagesInv, TokensInv, [Next]_vars
    PROVE  SessionTypes' /\ TokensInv'
  <1> DEFINE Kept ==
        /\ held' \subseteq Tokens \ fresh'
        /\ \A g \in Handlers : /\ handlers'[g].token \notin fresh'
                               /\ handlers'[g].pc = "limit" => handlers'[g].token \in Tokens
  <1> DEFINE Nothing == faults' = 0 => good' \subseteq held' \union LimitTokens'
  <1>0. /\ good \union fresh \subseteq Tokens /\ held \subseteq Tokens \ fresh /\ NoToken \notin fresh
        /\ \A g \in Handlers : /\ handlers[g].token \notin fresh
                               /\ handlers[g].pc = "limit" => handlers[g].token \in Tokens
        /\ faults \in Nat /\ \A c \in late : c.fault <= faults /\ c.fault >= 1
        /\ faults = 0 => good \subseteq held \union LimitTokens
    BY Bounds DEF TypeOK, TokensInv, At
  <1>1. fresh' \subseteq fresh /\ good' \subseteq good \union fresh
    BY FreshShrinks
  <1>2. ASSUME NEW h \in Handlers, Begins(h) PROVE Kept /\ Nothing
    <2>1. PICK step \in {"login", "logout", "forward", "list", "create"},
               t \in held \union {NoToken}, r \in {0} \union RunIds :
                 Moves(h, Started(step, t, r))
      BY <1>2, BeginHandlers
    <2>2. /\ handlers'[h].token = t /\ handlers'[h].pc # "limit"
          /\ \A g \in Handlers \ {h} : handlers'[g] = handlers[g]
      <3>1. step \in Steps /\ t \in Tokens \union {NoToken}
        BY <1>0, StartedPcs
      <3>2. QED
        BY <2>1, <3>1, StartedType, MoveType
    <2>3. UNCHANGED <<fresh, good, held, faults>>
      BY <1>2 DEF Begins, StartLogin, StartLogout, StartForward, StartReport, StartRecurring, stockit
    <2>4. ~At(h, "limit")
      BY <1>2, BeginHandlers DEF At
    <2>5. LimitTokens \subseteq LimitTokens'
      BY <2>2, <2>4, LimitTokensStay
    <2>6. QED
      BY <1>0, <2>2, <2>3, <2>5
  <1>3. ASSUME NEW h \in Handlers, LoginCall(h) PROVE Kept /\ Nothing
    <2>1. held' = held /\ ~At(h, "limit")
      BY <1>3 DEF LoginCall, At
    <2>2. CASE Moves(h, Idle)
      <3>1. handlers'[h] = Idle /\ \A g \in Handlers \ {h} : handlers'[g] = handlers[g]
        BY <2>2, IdleType, MoveType
      <3>2. Kept
        BY <1>0, <1>1, <2>1, <3>1, IdleType
      <3>3. faults' = 0 => good' = good /\ faults = 0
        <4>1. CASE handlers' = [handlers EXCEPT ![h].pc = "limit"]
          BY <3>1, <4>1, IdleType DEF TypeOK, Handler
        <4>2. ASSUME NEW t, handlers' = [handlers EXCEPT ![h].pc = "limit", ![h].token = t] PROVE FALSE
          <5>1. handlers'[h].pc = "limit"
            BY <4>2, HandlerFields DEF TypeOK, Handler
          <5>2. QED
            BY <3>1, <5>1, IdleType
        <4>3. QED
          BY <1>0, <1>3, <4>2 DEF LoginCall, Fault, NoFault, GiveUp
      <3>4. LimitTokens \subseteq LimitTokens'
        BY <2>1, <3>1, LimitTokensStay
      <3>5. QED
        BY <1>0, <2>1, <3>2, <3>3, <3>4
    <2>3. CASE \E t \in fresh : /\ Moves(h, [handlers[h] EXCEPT !.pc = "limit", !.token = t])
                                /\ StockIt!Open(t) /\ faults' = faults /\ late' = late
      <3>1. PICK t \in fresh : /\ Moves(h, [handlers[h] EXCEPT !.pc = "limit", !.token = t])
                               /\ StockIt!Open(t) /\ faults' = faults
        BY <2>3
      <3>2. /\ handlers'[h].pc = "limit" /\ handlers'[h].token = t
            /\ \A g \in Handlers \ {h} : handlers'[g] = handlers[g]
        BY <3>1, HandlerFields DEF Moves, TypeOK, Handler
      <3>3. fresh' = fresh \ {t} /\ good' = good \union {t}
        BY <3>1 DEF StockIt!Open
      <3>4. LimitTokens \subseteq LimitTokens' /\ t \in LimitTokens'
        <4>1. t \in LimitTokens'
          BY <3>2 DEF LimitTokens, At
        <4>2. QED
          BY <2>1, <3>2, <4>1, LimitTokensStay
      <3>5. QED
        BY <1>0, <2>1, <3>1, <3>2, <3>3, <3>4
    <2>4. QED
      BY <1>3, <2>2, <2>3, LoginMoves
  <1>4. ASSUME NEW h \in Handlers, CreateSession(h) PROVE Kept /\ Nothing
    <2>1. /\ UNCHANGED <<fresh, good, faults>> /\ held' = held \union {handlers[h].token}
          /\ At(h, "limit")
      BY <1>4 DEF CreateSession, stockit
    <2>2. handlers'[h] = Idle /\ \A g \in Handlers \ {h} : handlers'[g] = handlers[g]
      BY <1>4, DoneMoves, IdleType, MoveType DEF CreateSession
    <2>3. LimitTokens \subseteq LimitTokens' \union {handlers[h].token}
      BY <2>2 DEF LimitTokens, At
    <2>4. Kept
      <3>1. handlers[h].token \in Tokens \ fresh
        BY <1>0, <2>1 DEF At
      <3>2. held' \subseteq Tokens \ fresh'
        BY <1>0, <2>1, <3>1
      <3>3. ASSUME NEW g \in Handlers
            PROVE  /\ handlers'[g].token \notin fresh'
                   /\ handlers'[g].pc = "limit" => handlers'[g].token \in Tokens
        <4>1. CASE g = h
          BY <1>0, <2>1, <2>2, <4>1, IdleType
        <4>2. CASE g # h
          BY <1>0, <2>1, <2>2, <4>2
        <4>3. QED
          BY <4>1, <4>2
      <3>4. QED
        BY <3>2, <3>3
    <2>5. Nothing
      BY <1>0, <2>1, <2>3
    <2>6. QED
      BY <2>4, <2>5
  <1>5. ASSUME NEW h \in Handlers, LogoutCall(h) PROVE Kept /\ Nothing
    <2>1. /\ fresh' = fresh /\ held' = held \ {handlers[h].token} /\ ~At(h, "limit")
          /\ (good' = good \ {handlers[h].token} /\ faults' = faults) \/ faults' # 0
      BY <1>0, <1>5 DEF LogoutCall, At, NoFault, GiveUp, Fault
    <2>2. handlers'[h] = Idle /\ \A g \in Handlers \ {h} : handlers'[g] = handlers[g]
      BY <1>5, DoneMoves, IdleType, MoveType DEF LogoutCall
    <2>3. LimitTokens \subseteq LimitTokens'
      BY <2>1, <2>2, LimitTokensStay
    <2>4. QED
      BY <1>0, <2>1, <2>2, <2>3, IdleType
  <1>6. ASSUME NEW h \in Handlers,
               Forward(h) \/ ListRows(h) \/ Report(h) \/ ListRowsFails(h) \/ CreateRow(h)
        PROVE  Kept /\ Nothing
    <2>1. /\ UNCHANGED <<fresh, good>> /\ ~At(h, "limit")
          /\ faults' >= faults /\ faults' \in Nat
      <3>1. UNCHANGED <<fresh, good>>
        BY <1>6 DEF Forward, ListRows, Report, ListRowsFails, CreateRow, stockit
      <3>2. ~At(h, "limit")
        BY <1>6 DEF Forward, ListRows, Report, ListRowsFails, CreateRow, At
      <3>3. QED
        BY <3>1, <3>2, LateStep, Bounds
    <2>2. held' \subseteq held /\ held \intersect good \subseteq held'
      <3>1. held' = held \/ (Unauthorized(h) /\ held' = held \ {handlers[h].token})
        BY <1>6 DEF Forward, ListRows, Report, ListRowsFails, CreateRow, DropIf
      <3>2. QED
        BY <3>1 DEF Unauthorized
    <2>3. handlers'[h] = handlers[h] \/ handlers'[h] = Idle \/ handlers'[h] = Read(h)
      <3>1. Done(h) \/ handlers' = handlers \/ Moves(h, Read(h))
        <4>1. CASE ListRows(h)
          BY SMTT(30), <4>1, ListMoves DEF Moves, Done
        <4>2. CASE CreateRow(h)
          BY <4>2, RowHandlers
        <4>3. QED
          BY <1>6, <4>1, <4>2 DEF Forward, Report, ListRowsFails
      <3>2. QED
        BY <3>1 DEF Done, Moves, TypeOK
    <2>4. handlers'[h].pc # "limit" /\ handlers'[h].token \in {handlers[h].token, NoToken}
      BY <2>1, <2>3, IdleType, ReadFields DEF At
    <2>5. \A g \in Handlers \ {h} : handlers'[g] = handlers[g]
      <3>1. Done(h) \/ handlers' = handlers \/ Moves(h, Read(h))
        <4>1. CASE ListRows(h)
          BY <4>1, ListMoves DEF Moves, Done
        <4>2. CASE CreateRow(h)
          BY <4>2, RowHandlers
        <4>3. QED
          BY <1>6, <4>1, <4>2 DEF Forward, Report, ListRowsFails
      <3>2. QED
        BY <3>1 DEF Done, Moves, TypeOK
    <2>6. LimitTokens \subseteq LimitTokens'
      BY <2>1, <2>5, LimitTokensStay
    <2>7. QED
      BY <1>0, <2>1, <2>2, <2>4, <2>5, <2>6
  <1>7. ASSUME OtherClient \/ SessionsEnd \/ UNCHANGED vars PROVE Kept /\ Nothing
    <2>1. /\ good' \subseteq good /\ fresh' = fresh
          /\ UNCHANGED <<held, handlers, faults>>
      BY <1>7 DEF OtherClient, SessionsEnd, vars, stockit
    <2>2. LimitTokens' = LimitTokens
      BY <2>1 DEF LimitTokens, At
    <2>3. QED
      BY <1>0, <2>1, <2>2
  <1>8. ASSUME NEW c \in late, LateCall(c) PROVE Kept /\ Nothing
    <2>1. held' = held /\ handlers' = handlers /\ faults' = faults
      BY <1>8 DEF LateCall
    <2>3. faults # 0
      <3>1. c.fault <= faults /\ c.fault \in 1..MaxFaults
        BY <1>0 DEF TypeOK
      <3>2. QED
        BY <3>1, <1>0, Bounds
    <2>2. QED
      BY <1>0, <1>1, <2>1, <2>3
  <1>9. ASSUME AppRestart PROVE Kept /\ Nothing
    <2>1. /\ held' = {} /\ faults' # 0 /\ \A g \in Handlers : handlers'[g] = Idle
      BY <1>0, <1>9 DEF AppRestart, Fault
    <2>2. QED
      BY <1>0, <1>1, <2>1, IdleType
  <1>10. \A c \in late' : c.fault <= faults'
    <2>1. faults' \in Nat /\ faults' >= faults
      BY LateStep, Bounds
    <2>2. \A c \in late : c.fault \in Nat
      BY Bounds DEF TypeOK
    <2>3. ASSUME NEW c \in late' \ late PROVE c.fault <= faults'
      BY LateStep, CallOfType
    <2>4. QED
      BY <1>0, <2>1, <2>2, <2>3
  <1>11. Kept /\ Nothing
    BY <1>2, <1>3, <1>4, <1>5, <1>6, <1>7, <1>8, <1>9 DEF Next, GoesOn
  <1>12. QED
    BY <1>0, <1>1, <1>10, <1>11 DEF SessionTypes, TokensInv, At

-----------------------------------------------------------------------------
(* Runs, step by step.                                                     *)

\* The part of TypeOK that is about runs.
RunTypes ==
    /\ DOMAIN runs \in {1..n : n \in 0..MaxRuns}
    /\ \A r \in DOMAIN runs :
           /\ runs[r] \in Run
           /\ runs[r].created \in 0..runs[r].count
           /\ runs[r].landed \subseteq 1..runs[r].count

LEMMA NoReplyGiven == NoReply \in Replies /\ NoReply.status = "none"
  BY DEF NoReply, Reply, Replies

\* An answer that is neither a success nor a refusal promises nothing.
LEMMA OtherReplies ==
    ASSUME NEW status \in {"all", "refused", "failed", "expired"}, NEW told \in SUBSET Nat
    PROVE  /\ Reply(status, told) \in Replies
           /\ Reply(status, told).status = status /\ Reply(status, told).told = told
  BY DEF Reply, Replies

\* What is said of one run.
RunKept(r) ==
    /\ runs[r] \in Run
    /\ runs[r].created \in 0..runs[r].count
    /\ runs[r].landed \subseteq 1..runs[r].count
    /\ runs[r].landed \in {1..runs[r].created, 1..(runs[r].created + 1)}
    /\ Truthful(runs[r])

\* A handler that goes on with its run, and a call that may still land in one.
Serving(h) ==
    /\ Unfinished(handlers[h].run)
    /\ runs[handlers[h].run].landed = 1..runs[handlers[h].run].created
    /\ runs[handlers[h].run].answer = NoReply

\* How a run may change: nothing, the handler's next installment, its answer.
LEMMA RunFacts ==
    ASSUME TypeOK, RunsInv, NEW r \in DOMAIN runs
    PROVE  /\ RunKept(r)
           /\ runs[r].count \in Nat /\ runs[r].created \in Nat /\ runs[r].created <= runs[r].count
  <1>1. RunKept(r)
    BY DEF TypeOK, RunsInv, RunKept
  <1>2. runs[r].count \in Nat
    BY <1>1, CountTypes DEF RunKept, Run
  <1>3. QED
    BY <1>1, <1>2 DEF RunKept

\* Installment k of run r is made while the run counts k - 1 of them.
LEMMA Lands ==
    ASSUME TypeOK, RunsInv, NEW r, Unfinished(r),
           NEW landed, landed = runs[r].landed \union {runs[r].created + 1}
    PROVE  /\ landed = 1..(runs[r].created + 1)
           /\ landed \subseteq 1..runs[r].count
           /\ runs[r].created + 1 \in 1..runs[r].count
  <1>1. /\ r \in DOMAIN runs /\ RunKept(r)
        /\ runs[r].count \in Nat /\ runs[r].created \in Nat
        /\ runs[r].created < runs[r].count
    BY RunFacts DEF Unfinished, Pending
  <1>2. runs[r].landed \in {1..runs[r].created, 1..(runs[r].created + 1)}
    BY <1>1 DEF RunKept
  <1>3. landed = 1..(runs[r].created + 1)
    BY <1>1, <1>2
  <1>4. QED
    BY <1>1, <1>3

\* The invariant, with its parts named.
LEMMA RunsInvParts ==
    RunTypes /\ RunsInv <=>
        /\ DOMAIN runs \in {1..n : n \in 0..MaxRuns}
        /\ \A r \in DOMAIN runs : RunKept(r)
        /\ \A h \in Handlers : At(h, "create") => Serving(h)
        /\ \A h, g \in Handlers :
              At(h, "create") /\ At(g, "create") /\ handlers[h].run = handlers[g].run => h = g
        /\ \A c \in late : c.call = "create" =>
              /\ Unfinished(c.run)
              /\ \A h \in Handlers : At(h, "create") => handlers[h].run # c.run
  BY DEF RunTypes, RunsInv, RunKept, Serving

\* A step that leaves the runs alone.
LEMMA RunsStay ==
    ASSUME TypeOK, RunsInv, runs' = runs,
           \A h \in Handlers : handlers'[h] = handlers[h] \/ handlers'[h].pc # "create",
           \A c \in late' \ late : c.call # "create"
    PROVE  RunTypes' /\ RunsInv'
  <1>1. RunTypes /\ RunsInv
    BY DEF TypeOK, RunTypes
  <1>2. /\ DOMAIN runs' \in {1..n : n \in 0..MaxRuns}
        /\ \A r \in DOMAIN runs' : RunKept(r)'
    BY <1>1, RunsInvParts DEF RunKept
  <1>3. ASSUME NEW h \in Handlers, At(h, "create")'
        PROVE  Serving(h)' /\ At(h, "create") /\ handlers'[h] = handlers[h]
    <2>1. handlers'[h] = handlers[h] /\ At(h, "create")
      BY <1>3 DEF At
    <2>2. Serving(h)
      BY <1>1, <2>1, RunsInvParts
    <2>3. QED
      BY <2>1, <2>2 DEF Serving, Unfinished
  <1>4. \A h, g \in Handlers :
           At(h, "create")' /\ At(g, "create")' /\ handlers'[h].run = handlers'[g].run => h = g
    BY <1>1, <1>3, RunsInvParts
  <1>5. ASSUME NEW c \in late', c.call = "create"
        PROVE  /\ Unfinished(c.run)'
               /\ \A h \in Handlers : At(h, "create")' => handlers'[h].run # c.run
    <2>1. c \in late
      BY <1>5
    <2>2. Unfinished(c.run) /\ \A h \in Handlers : At(h, "create") => handlers[h].run # c.run
      BY <1>1, <1>5, <2>1, RunsInvParts
    <2>3. QED
      BY <1>3, <2>2 DEF Unfinished
  <1>6. QED
    BY <1>2, <1>3, <1>4, <1>5 DEF RunTypes, RunsInv, RunKept, Serving

\* A step that changes run r, of which a handler may go on with what it served.
LEMMA RunChanges ==
    ASSUME TypeOK, RunsInv, NEW r \in DOMAIN runs, NEW to \in Run,
           runs' = [runs EXCEPT ![r] = to],
           /\ to.created \in 0..to.count /\ to.landed \subseteq 1..to.count
           /\ to.landed \in {1..to.created, 1..(to.created + 1)}
           /\ Truthful(to),
           \A h \in Handlers : handlers'[h].pc = "create" =>
               /\ handlers'[h] = handlers[h]
               /\ handlers[h].run = r =>
                     Pending(to) /\ to.landed = 1..to.created /\ to.answer = NoReply,
           \A c \in late' \ late : c.call = "create" => c.run = r,
           \A c \in late' : c.call = "create" /\ c.run = r =>
               /\ Pending(to)
               /\ \A h \in Handlers : handlers'[h].pc = "create" => handlers[h].run # r
    PROVE  RunTypes' /\ RunsInv'
  <1>1. RunTypes /\ RunsInv
    BY DEF TypeOK, RunTypes
  <1>2. /\ DOMAIN runs' = DOMAIN runs /\ runs'[r] = to
        /\ \A s \in DOMAIN runs \ {r} : runs'[s] = runs[s]
    OBVIOUS
  <1>3. ASSUME NEW s \in DOMAIN runs' PROVE RunKept(s)'
    <2>1. CASE s = r
      BY <1>2, <2>1 DEF RunKept
    <2>2. CASE s # r
      <3>1. RunKept(s) /\ runs'[s] = runs[s]
        BY <1>1, <1>2, <2>2, RunsInvParts
      <3>2. QED
        BY <3>1 DEF RunKept
    <2>3. QED
      BY <2>1, <2>2
  <1>4. ASSUME NEW h \in Handlers, At(h, "create")'
        PROVE  Serving(h)' /\ At(h, "create") /\ handlers'[h] = handlers[h]
    <2>1. handlers'[h] = handlers[h] /\ At(h, "create")
      BY <1>4 DEF At
    <2>2. Serving(h)
      BY <1>1, <2>1, RunsInvParts
    <2>3. CASE handlers[h].run = r
      BY <1>2, <1>4, <2>1, <2>3 DEF Serving, Unfinished, At
    <2>4. CASE handlers[h].run # r
      BY <1>2, <2>1, <2>2, <2>4 DEF Serving, Unfinished
    <2>5. QED
      BY <2>1, <2>3, <2>4
  <1>5. \A h, g \in Handlers :
           At(h, "create")' /\ At(g, "create")' /\ handlers'[h].run = handlers'[g].run => h = g
    BY <1>1, <1>4, RunsInvParts
  <1>6. ASSUME NEW c \in late', c.call = "create"
        PROVE  /\ Unfinished(c.run)'
               /\ \A h \in Handlers : At(h, "create")' => handlers'[h].run # c.run
    <2>1. CASE c.run = r
      <3>1. Unfinished(c.run)'
        BY <1>2, <1>6, <2>1 DEF Unfinished
      <3>2. \A h \in Handlers : At(h, "create")' => handlers'[h].run # c.run
        BY <1>4, <1>6, <2>1 DEF At
      <3>3. QED
        BY <3>1, <3>2
    <2>2. CASE c.run # r
      <3>1. c \in late
        BY <1>6, <2>2
      <3>2. Unfinished(c.run) /\ \A h \in Handlers : At(h, "create") => handlers[h].run # c.run
        BY <1>1, <1>6, <3>1, RunsInvParts
      <3>3. QED
        BY <1>2, <1>4, <2>2, <3>2 DEF Unfinished
    <2>3. QED
      BY <2>1, <2>2
  <1>7. DOMAIN runs' \in {1..n : n \in 0..MaxRuns}
    BY <1>1, <1>2 DEF RunTypes
  <1>8. QED
    BY <1>3, <1>4, <1>5, <1>6, <1>7 DEF RunTypes, RunsInv, RunKept, Serving

\* A recurring payment that is asked for gets a run of its own.
LEMMA RunBegins ==
    ASSUME TypeOK, RunsInv, NEW h \in Handlers, NEW t \in held, NEW count \in Counts,
           StartRecurring(h, t, count)
    PROVE  RunTypes' /\ RunsInv'
  <1> DEFINE r == Cardinality(DOMAIN runs) + 1
  <1> DEFINE new == [count |-> count, created |-> 0, landed |-> {}, answer |-> NoReply]
  <1>1. RunTypes /\ RunsInv
    BY DEF TypeOK, RunTypes
  <1>2. PICK n \in 0..MaxRuns : DOMAIN runs = 1..n
    BY <1>1 DEF RunTypes
  <1>3. n \in Nat /\ r = n + 1 /\ r \in RunIds /\ n + 1 \in 0..MaxRuns
    <2>1. n \in Nat /\ Cardinality(DOMAIN runs) = n
      BY <1>2, Bounds, FS_Interval
    <2>2. n < MaxRuns
      BY <2>1 DEF StartRecurring
    <2>3. QED
      BY <2>1, <2>2, Bounds DEF RunIds
  <1>4. /\ runs' = [m \in 1..r |-> IF m < r THEN runs[m] ELSE new]
        /\ late' = late
    BY DEF StartRecurring
  <1> HIDE DEF r
  <1>5. /\ DOMAIN runs' = 1..r /\ r \notin DOMAIN runs /\ runs'[r] = new /\ r \in DOMAIN runs'
        /\ \A s \in DOMAIN runs : s \in DOMAIN runs' /\ runs'[s] = runs[s]
        /\ \A s \in DOMAIN runs' : s = r \/ s \in DOMAIN runs
    BY <1>2, <1>3, <1>4
  <1>6. /\ handlers'[h].pc = "create" /\ handlers'[h].run = r
        /\ \A g \in Handlers \ {h} : handlers'[g] = handlers[g]
    <2>1. Moves(h, Started("create", t, r))
      BY BeginMoves DEF r
    <2>2. t \in Tokens \union {NoToken}
      BY DEF TypeOK
    <2>3. QED
      BY <1>3, <2>1, <2>2, StartedPcs, StartedType, MoveType
  <1>7. new \in Run /\ count \in Nat /\ count > 0 /\ new.count = count /\ new.created = 0
        /\ new.landed = {} /\ new.answer = NoReply
    BY CountTypes, NoReplyGiven DEF Run
  <1> HIDE DEF new
  <1>8. {} = 1..0
    OBVIOUS
  <1>9. ASSUME NEW s \in DOMAIN runs' PROVE RunKept(s)'
    <2>1. CASE s = r
      <3>1. runs'[s] = new
        BY <1>5, <2>1
      <3>2. /\ new.created \in 0..new.count /\ new.landed \subseteq 1..new.count
            /\ new.landed = 1..new.created /\ Truthful(new)
        BY <1>7, <1>8, NoReplyGiven DEF Truthful
      <3>3. QED
        BY <1>7, <3>1, <3>2 DEF RunKept
    <2>2. CASE s # r
      <3>1. RunKept(s) /\ runs'[s] = runs[s]
        BY <1>1, <1>5, <2>2, RunsInvParts
      <3>2. QED
        BY <3>1 DEF RunKept
    <2>3. QED
      BY <2>1, <2>2
  <1>10. ASSUME NEW g \in Handlers, At(g, "create")', g # h
         PROVE  /\ At(g, "create") /\ handlers'[g] = handlers[g] /\ Serving(g)
                /\ handlers[g].run \in DOMAIN runs /\ Serving(g)'
    <2>1. At(g, "create") /\ handlers'[g] = handlers[g]
      BY <1>6, <1>10 DEF At
    <2>2. Serving(g) /\ handlers[g].run \in DOMAIN runs
      BY <1>1, <2>1, RunsInvParts DEF Serving, Unfinished
    <2>3. QED
      BY <1>5, <2>1, <2>2 DEF Serving, Unfinished
  <1>11. Serving(h)'
    BY <1>5, <1>6, <1>7, <1>8, NoReplyGiven DEF Serving, Unfinished, Pending
  <1>12. ASSUME NEW g1 \in Handlers, NEW g2 \in Handlers,
                At(g1, "create")', At(g2, "create")', handlers'[g1].run = handlers'[g2].run
         PROVE  g1 = g2
    BY <1>1, <1>5, <1>6, <1>10, <1>12, RunsInvParts
  <1>13. ASSUME NEW c \in late', c.call = "create"
         PROVE  /\ Unfinished(c.run)'
                /\ \A g \in Handlers : At(g, "create")' => handlers'[g].run # c.run
    <2>1. Unfinished(c.run) /\ \A g \in Handlers : At(g, "create") => handlers[g].run # c.run
      BY <1>1, <1>4, <1>13, RunsInvParts
    <2>2. c.run \in DOMAIN runs
      BY <2>1 DEF Unfinished
    <2>3. QED
      BY <1>5, <1>6, <1>10, <2>1, <2>2 DEF Unfinished
  <1>14. DOMAIN runs' \in {1..m : m \in 0..MaxRuns}
    BY <1>3, <1>5
  <1>15. \A g \in Handlers : At(g, "create")' => Serving(g)'
    BY <1>10, <1>11
  <1>16. QED
    BY <1>9, <1>12, <1>13, <1>14, <1>15 DEF RunTypes, RunsInv, RunKept, Serving

\* A run whose fields are these.
RunOf(count, created, landed, answer) ==
    [count |-> count, created |-> created, landed |-> landed, answer |-> answer]

WithCreated(run, created, landed, answer) ==
    [run EXCEPT !.created = created, !.landed = landed, !.answer = answer]
WithLanded(run, landed, answer) == [run EXCEPT !.landed = landed, !.answer = answer]
WithRow(run, landed) == [run EXCEPT !.landed = landed]
WithAnswer(run, answer) == [run EXCEPT !.answer = answer]

LEMMA RunEdits ==
    ASSUME NEW co, NEW cr, NEW la, NEW an, NEW created, NEW landed, NEW answer
    PROVE  /\ WithCreated(RunOf(co, cr, la, an), created, landed, answer) = RunOf(co, created, landed, answer)
           /\ WithLanded(RunOf(co, cr, la, an), landed, answer) = RunOf(co, cr, landed, answer)
           /\ WithRow(RunOf(co, cr, la, an), landed) = RunOf(co, cr, landed, an)
           /\ WithAnswer(RunOf(co, cr, la, an), answer) = RunOf(co, cr, la, answer)
  <1>1. /\ \A l : [RunOf(co, cr, la, an) EXCEPT !.landed = l] = RunOf(co, cr, l, an)
        /\ [RunOf(co, cr, la, an) EXCEPT !.answer = answer] = RunOf(co, cr, la, answer)
        /\ [RunOf(co, cr, la, an) EXCEPT !.created = created] = RunOf(co, created, la, an)
    BY DEF RunOf
  <1>2. [RunOf(co, cr, la, an) EXCEPT !.landed = landed, !.answer = answer] = RunOf(co, cr, landed, answer)
    <2>1. [RunOf(co, cr, la, an) EXCEPT !.landed = landed, !.answer = answer]
             = [RunOf(co, cr, landed, an) EXCEPT !.answer = answer]
      BY <1>1
    <2>2. QED
      BY <2>1 DEF RunOf
  <1>3. [RunOf(co, cr, la, an) EXCEPT !.created = created, !.landed = landed, !.answer = answer]
           = RunOf(co, created, landed, answer)
    <2>1. [RunOf(co, cr, la, an) EXCEPT !.created = created, !.landed = landed, !.answer = answer]
             = [RunOf(co, created, la, an) EXCEPT !.landed = landed, !.answer = answer]
      BY <1>1
    <2>2. [RunOf(co, created, la, an) EXCEPT !.landed = landed, !.answer = answer]
             = [RunOf(co, created, landed, an) EXCEPT !.answer = answer]
      <3>1. [RunOf(co, created, la, an) EXCEPT !.landed = landed] = RunOf(co, created, landed, an)
        BY DEF RunOf
      <3>2. QED
        BY <3>1
    <2>3. [RunOf(co, created, landed, an) EXCEPT !.answer = answer] = RunOf(co, created, landed, answer)
      BY DEF RunOf
    <2>4. QED
      BY <2>1, <2>2, <2>3
  <1>4. QED
    BY <1>1, <1>2, <1>3 DEF WithCreated, WithLanded, WithRow, WithAnswer

LEMMA RunForm ==
    /\ \A run \in Run : run = RunOf(run.count, run.created, run.landed, run.answer)
    /\ \A co, cr, la, an :
          /\ RunOf(co, cr, la, an) \in Run <=>
                /\ co \in Counts /\ cr \in Nat /\ la \in SUBSET Nat
                /\ an \in Replies
          /\ RunOf(co, cr, la, an).count = co /\ RunOf(co, cr, la, an).created = cr
          /\ RunOf(co, cr, la, an).landed = la /\ RunOf(co, cr, la, an).answer = an
  BY DEF RunOf, Run

\* A run whose progress or answer changes is a run.
LEMMA EditedRun ==
    ASSUME NEW run \in Run, NEW created \in Nat, NEW landed \in SUBSET Nat,
           NEW answer \in Replies
    PROVE  /\ WithCreated(run, created, landed, answer) \in Run
           /\ WithCreated(run, created, landed, answer).count = run.count
           /\ WithCreated(run, created, landed, answer).created = created
           /\ WithCreated(run, created, landed, answer).landed = landed
           /\ WithCreated(run, created, landed, answer).answer = answer
           /\ WithLanded(run, landed, answer) \in Run
           /\ WithLanded(run, landed, answer).count = run.count
           /\ WithLanded(run, landed, answer).created = run.created
           /\ WithLanded(run, landed, answer).landed = landed
           /\ WithLanded(run, landed, answer).answer = answer
  <1>1. PICK co \in Counts, cr \in Nat, la \in SUBSET Nat, an \in Replies :
           run = RunOf(co, cr, la, an)
    <2>1. /\ run.count \in Counts /\ run.created \in Nat /\ run.landed \in SUBSET Nat
          /\ run.answer \in Replies
      BY DEF Run
    <2>2. QED
      BY <2>1, RunForm
  <1>2. run.count = co /\ run.created = cr /\ run.landed = la /\ run.answer = an
    BY <1>1, RunForm
  <1>3. /\ WithCreated(run, created, landed, answer) \in Run
        /\ WithCreated(run, created, landed, answer).count = run.count
        /\ WithCreated(run, created, landed, answer).created = created
        /\ WithCreated(run, created, landed, answer).landed = landed
        /\ WithCreated(run, created, landed, answer).answer = answer
    <2>1. WithCreated(run, created, landed, answer) = RunOf(co, created, landed, answer)
      BY <1>1, RunEdits
    <2>2. RunOf(co, created, landed, answer) \in Run
      BY <1>1, RunForm
    <2>3. QED
      BY <1>2, <2>1, <2>2, RunForm
  <1>4. /\ WithLanded(run, landed, answer) \in Run
        /\ WithLanded(run, landed, answer).count = run.count
        /\ WithLanded(run, landed, answer).created = run.created
        /\ WithLanded(run, landed, answer).landed = landed
        /\ WithLanded(run, landed, answer).answer = answer
    <2>1. WithLanded(run, landed, answer) = RunOf(co, cr, landed, answer)
      BY <1>1, RunEdits
    <2>2. RunOf(co, cr, landed, answer) \in Run
      BY <1>1, RunForm
    <2>3. QED
      BY <1>2, <2>1, <2>2, RunForm
  <1>5. QED
    BY <1>3, <1>4

\* A run that gets its answer, and changes in nothing else, is a run.
LEMMA AnsweredRun ==
    ASSUME NEW run \in Run, NEW answer \in Replies
    PROVE  /\ WithAnswer(run, answer) \in Run
           /\ WithAnswer(run, answer).count = run.count
           /\ WithAnswer(run, answer).created = run.created
           /\ WithAnswer(run, answer).landed = run.landed
           /\ WithAnswer(run, answer).answer = answer
  <1>1. PICK co \in Counts, cr \in Nat, la \in SUBSET Nat, an \in Replies :
           run = RunOf(co, cr, la, an)
    <2>1. /\ run.count \in Counts /\ run.created \in Nat /\ run.landed \in SUBSET Nat
          /\ run.answer \in Replies
      BY DEF Run
    <2>2. QED
      BY <2>1, RunForm
  <1>2. run.count = co /\ run.created = cr /\ run.landed = la /\ run.answer = an
    BY <1>1, RunForm
  <1>3. WithAnswer(run, answer) = RunOf(co, cr, la, answer)
    BY <1>1, RunEdits
  <1>4. RunOf(co, cr, la, answer) \in Run
    BY <1>1, RunForm
  <1>5. QED
    BY <1>2, <1>3, <1>4, RunForm

\* A run whose rows change, and nothing else, is a run.
LEMMA LandedRun ==
    ASSUME NEW run \in Run, NEW landed \in SUBSET Nat
    PROVE  /\ WithRow(run, landed) \in Run
           /\ WithRow(run, landed).count = run.count
           /\ WithRow(run, landed).created = run.created
           /\ WithRow(run, landed).landed = landed
           /\ WithRow(run, landed).answer = run.answer
  <1>1. PICK co \in Counts, cr \in Nat, la \in SUBSET Nat, an \in Replies :
           run = RunOf(co, cr, la, an)
    <2>1. /\ run.count \in Counts /\ run.created \in Nat /\ run.landed \in SUBSET Nat
          /\ run.answer \in Replies
      BY DEF Run
    <2>2. QED
      BY <2>1, RunForm
  <1>2. run.count = co /\ run.created = cr /\ run.landed = la /\ run.answer = an
    BY <1>1, RunForm
  <1>3. WithRow(run, landed) = RunOf(co, cr, landed, an)
    BY <1>1, RunEdits
  <1>4. RunOf(co, cr, landed, an) \in Run
    BY <1>1, RunForm
  <1>5. QED
    BY <1>2, <1>3, <1>4, RunForm

Becomes(r, to) == runs' = [runs EXCEPT ![r] = to]

\* What a run must be for the invariant.
RunSound(to) ==
    /\ to.created \in 0..to.count /\ to.landed \subseteq 1..to.count
    /\ to.landed \in {1..to.created, 1..(to.created + 1)}
    /\ Truthful(to)

\* An installment is made, refused, or nobody knows.
LEMMA RunGoesOn ==
    ASSUME TypeOK, RunsInv, NEW h \in Handlers, CreateRow(h)
    PROVE  RunTypes' /\ RunsInv'
  <1>1. RunTypes /\ RunsInv
    BY DEF TypeOK, RunTypes
  <1>a. PICK r, k : r = handlers[h].run /\ k = runs[r].created + 1
    OBVIOUS
  <1>2. /\ At(h, "create") /\ Serving(h) /\ Unfinished(r) /\ r \in DOMAIN runs
        /\ runs[r].answer = NoReply /\ runs[r].landed = 1..runs[r].created
        /\ \A g \in Handlers \ {h} : At(g, "create") => handlers[g].run # r
        /\ \A c \in late : c.call = "create" => c.run # r
    BY <1>1, <1>a, RunsInvParts DEF CreateRow, Serving, Unfinished
  <1>3. /\ RunKept(r) /\ runs[r].count \in Nat /\ runs[r].created \in Nat
        /\ runs[r].created < runs[r].count
    BY <1>2, RunFacts DEF Unfinished, Pending
  <1>4. /\ runs[r].landed \union {k} = 1..k /\ 1..k \subseteq 1..runs[r].count
        /\ k \in 1..runs[r].count /\ k \in Nat /\ 1..k \in SUBSET Nat
    <2>1. /\ runs[r].landed \union {k} = 1..k /\ k \in 1..runs[r].count
      BY <1>2, <1>a, Lands
    <2>2. QED
      BY <1>3, <2>1
  <1>5. runs[r] \in Run
    BY <1>3 DEF RunKept
  <1>6. /\ \A g \in Handlers \ {h} : handlers'[g] = handlers[g]
        /\ handlers'[h] = handlers[h] \/ handlers'[h] = Idle
    <2>1. Done(h) \/ handlers' = handlers
      BY DEF CreateRow, Created, Rejected
    <2>2. QED
      BY <2>1 DEF Done, TypeOK
  <1>7. \A c \in late' \ late : c.run = r /\ handlers'[h] = Idle
    <2>1. late' = late \/ (GiveUp(h) /\ Done(h))
      BY DEF CreateRow
    <2>2. CASE GiveUp(h) /\ Done(h)
      <3>1. late' \subseteq late \union {CallOf(h)}
        BY <2>2 DEF GiveUp
      <3>2. CallOf(h).run = r /\ handlers'[h] = Idle
        BY <1>a, <2>2 DEF CallOf, Done, TypeOK
      <3>3. QED
        BY <3>1, <3>2
    <2>3. QED
      BY <2>1, <2>2
  <1>8. ASSUME NEW to, to \in Run, Becomes(r, to), RunSound(to),
               \/ handlers'[h] = Idle
               \/ Pending(to) /\ to.landed = 1..to.created /\ to.answer = NoReply,
               late' = late \/ Pending(to)
        PROVE  RunTypes' /\ RunsInv'
    <2>1. ASSUME NEW g \in Handlers, handlers'[g].pc = "create"
          PROVE  /\ handlers'[g] = handlers[g]
                 /\ handlers[g].run = r =>
                       Pending(to) /\ to.landed = 1..to.created /\ to.answer = NoReply
                 /\ handlers'[h] = Idle => handlers[g].run # r
      BY <1>2, <1>6, <1>8, <2>1, IdleType DEF At
    <2>2. \A g \in Handlers : handlers'[g].pc = "create" =>
             /\ handlers'[g] = handlers[g]
             /\ handlers[g].run = r =>
                   Pending(to) /\ to.landed = 1..to.created /\ to.answer = NoReply
      BY <2>1
    <2>3. \A c \in late' \ late : c.call = "create" => c.run = r
      BY <1>7
    <2>4. \A c \in late' : c.call = "create" /\ c.run = r =>
             /\ Pending(to)
             /\ \A g \in Handlers : handlers'[g].pc = "create" => handlers[g].run # r
      <3>1. ASSUME NEW c \in late', c.call = "create", c.run = r
            PROVE  /\ Pending(to)
                   /\ \A g \in Handlers : handlers'[g].pc = "create" => handlers[g].run # r
        <4>1. c \in late' \ late
          BY <1>2, <3>1
        <4>2. QED
          BY <1>7, <1>8, <2>1, <4>1
      <3>2. QED
        BY <3>1
    <2>5. /\ to.created \in 0..to.count /\ to.landed \subseteq 1..to.count
          /\ to.landed \in {1..to.created, 1..(to.created + 1)}
          /\ Truthful(to)
      BY <1>8 DEF RunSound
    <2>6. r \in DOMAIN runs /\ runs' = [runs EXCEPT ![r] = to]
      BY <1>2, <1>8 DEF Becomes
    <2>7. QED
      BY <1>8, <2>2, <2>3, <2>4, <2>5, <2>6, RunChanges
  <1>9. CASE Created(h, r, k) /\ late' = late
    <2>1. PICK answer \in Replies :
             /\ answer = IF k = runs[r].count THEN Reply("all", {k}) ELSE NoReply
             /\ k = runs[r].count => answer.status = "all" /\ answer.told = {k}
             /\ k # runs[r].count => answer.status = "none"
      <3>1. PICK success : success = Reply("all", {k})
        OBVIOUS
      <3>2. success \in Replies /\ success.status = "all" /\ success.told = {k}
        BY <1>4, <3>1, OtherReplies
      <3>3. QED
        BY <3>1, <3>2, NoReplyGiven
    <2> DEFINE to == WithCreated(runs[r], k, 1..k, answer)
    <2>2. /\ to \in Run /\ to.count = runs[r].count /\ to.created = k
          /\ to.landed = 1..k /\ to.answer = answer
      BY <1>3, <1>4, <1>5, EditedRun
    <2> HIDE DEF to
    <2>3. Becomes(r, to)
      <3>1. runs' = [runs EXCEPT ![r] = [runs[r] EXCEPT !.created = k, !.landed = runs[r].landed \union {k},
                         !.answer = IF Last(r, k) THEN Reply("all", {k}) ELSE runs[r].answer]]
        BY <1>9 DEF Created
      <3>2. (IF Last(r, k) THEN Reply("all", {k}) ELSE runs[r].answer) = answer
        BY <1>2, <2>1 DEF Last
      <3>3. QED
        BY <1>4, <3>1, <3>2 DEF Becomes, to, WithCreated
    <2>4. handlers'[h] = Idle \/ k # runs[r].count
      BY <1>9 DEF Created, Last, Done, TypeOK
    <2>5. k <= runs[r].count /\ k \in 0..runs[r].count
      BY <1>3, <1>4
    <2>6. RunSound(to)
      BY <1>4, <2>1, <2>2, <2>5 DEF RunSound, Truthful
    <2>7. \/ handlers'[h] = Idle
          \/ Pending(to) /\ to.landed = 1..to.created /\ to.answer = NoReply
      BY <1>3, <1>4, <2>1, <2>2, <2>4, <2>5, NoReplyGiven DEF Pending
    <2>8. QED
      BY <1>8, <1>9, <2>2, <2>3, <2>6, <2>7
  <1>10. ASSUME NEW answer \in Replies, Answer(r, answer), Done(h), answer.status # "all",
                answer.status = "refused" => answer.told = {runs[r].created} /\ late' = late
         PROVE  RunTypes' /\ RunsInv'
    <2> DEFINE to == WithAnswer(runs[r], answer)
    <2>1. /\ to \in Run /\ to.count = runs[r].count /\ to.created = runs[r].created
          /\ to.landed = runs[r].landed /\ to.answer = answer
      BY <1>5, AnsweredRun
    <2> HIDE DEF to
    <2>2. Becomes(r, to)
      BY <1>2, <1>10 DEF Answer, Becomes, to, WithAnswer
    <2>3. handlers'[h] = Idle
      BY <1>10 DEF Done, TypeOK
    <2>4. RunSound(to)
      BY <1>2, <1>3, <1>10, <2>1 DEF RunKept, RunSound, Truthful
    <2>5. late' = late \/ Pending(to)
      BY <1>3, <1>10, <2>1 DEF Pending
    <2>6. QED
      BY <1>8, <2>1, <2>2, <2>3, <2>4, <2>5
  <1>b. PICK failure : failure = Reply("failed", {runs[r].created})
    OBVIOUS
  <1>c. failure \in Replies /\ failure.status = "failed"
    BY <1>3, <1>b, OtherReplies
  <1>11. CASE runs' = [runs EXCEPT ![r].landed = @ \union {k}, ![r].answer = failure] /\ Done(h) /\ late' = late
    <2> DEFINE to == WithLanded(runs[r], 1..k, failure)
    <2>1. /\ to \in Run /\ to.count = runs[r].count /\ to.created = runs[r].created
          /\ to.landed = 1..k /\ to.answer = failure
      BY <1>4, <1>5, <1>c, EditedRun
    <2> HIDE DEF to
    <2>2. Becomes(r, to)
      BY <1>2, <1>4, <1>11 DEF TypeOK, Becomes, to, WithLanded
    <2>3. handlers'[h] = Idle
      BY <1>11 DEF Done, TypeOK
    <2>4. RunSound(to)
      BY <1>3, <1>4, <1>a, <1>c, <2>1 DEF RunKept, RunSound, Truthful
    <2>5. QED
      BY <1>8, <1>11, <2>1, <2>2, <2>3, <2>4
  <1>12. ASSUME \/ Rejected(h, r, k) /\ late' = late
                \/ Done(h) /\ Answer(r, Reply("expired", {}))
                \/ Done(h) /\ Answer(r, failure)
         PROVE  RunTypes' /\ RunsInv'
    <2>1. PICK refused, expired : /\ refused = Reply("refused", {runs[r].created})
                                  /\ expired = Reply("expired", {})
      OBVIOUS
    <2>2. /\ refused \in Replies /\ refused.status = "refused" /\ refused.told = {runs[r].created}
          /\ expired \in Replies /\ expired.status = "expired"
      BY <1>3, <2>1, OtherReplies
    <2>3. CASE Rejected(h, r, k) /\ late' = late
      BY <1>10, <2>1, <2>2, <2>3 DEF Rejected
    <2>4. CASE Done(h) /\ Answer(r, expired)
      BY <1>10, <2>2, <2>4
    <2>5. CASE Done(h) /\ Answer(r, failure)
      BY <1>10, <1>c, <2>5
    <2>6. QED
      BY <1>12, <2>1, <2>3, <2>4, <2>5
  <1>13. QED
    BY <1>a, <1>b, <1>9, <1>11, <1>12 DEF CreateRow, NextInstallment

\* StockIt gets to an installment that its handler gave up.
LEMMA RunLandsLate ==
    ASSUME TypeOK, RunsInv, NEW c \in late, c.call = "create",
           Land(c.run, NextInstallment(c.run)), handlers' = handlers, late' = late \ {c}
    PROVE  RunTypes' /\ RunsInv'
  <1>1. RunTypes /\ RunsInv
    BY DEF TypeOK, RunTypes
  <1>2. PICK r : r = c.run
    OBVIOUS
  <1>3. /\ Unfinished(r) /\ r \in DOMAIN runs
        /\ \A h \in Handlers : At(h, "create") => handlers[h].run # r
    BY <1>1, <1>2, RunsInvParts DEF Unfinished
  <1>4. /\ RunKept(r) /\ runs[r].count \in Nat /\ runs[r].created \in Nat
        /\ runs[r].created < runs[r].count /\ runs[r] \in Run
        /\ Pending(runs[r])
    BY <1>3, RunFacts DEF Unfinished, Pending, RunKept
  <1>5. /\ runs[r].landed \union {runs[r].created + 1} = 1..(runs[r].created + 1)
        /\ 1..(runs[r].created + 1) \subseteq 1..runs[r].count
        /\ 1..(runs[r].created + 1) \in SUBSET Nat
    <2>1. /\ runs[r].landed \union {runs[r].created + 1} = 1..(runs[r].created + 1)
          /\ 1..(runs[r].created + 1) \subseteq 1..runs[r].count
      BY <1>3, Lands
    <2>2. QED
      BY <1>4, <2>1
  <1> DEFINE to == WithRow(runs[r], 1..(runs[r].created + 1))
  <1>6. /\ to \in Run /\ to.count = runs[r].count /\ to.created = runs[r].created
        /\ to.landed = 1..(runs[r].created + 1) /\ to.answer = runs[r].answer
    BY <1>4, <1>5, LandedRun
  <1>7. runs' = [runs EXCEPT ![r] = to]
    <2>1. runs' = [runs EXCEPT ![r] = [runs[r] EXCEPT !.landed = runs[r].landed \union {runs[r].created + 1}]]
      BY <1>2, <1>3 DEF Land, NextInstallment
    <2>2. QED
      BY <1>5, <2>1 DEF WithRow
  <1> HIDE DEF to
  <1>8. /\ to.created \in 0..to.count /\ to.landed \subseteq 1..to.count
        /\ to.landed \in {1..to.created, 1..(to.created + 1)}
        /\ Truthful(to)
        /\ Pending(to)
    BY <1>4, <1>5, <1>6 DEF RunKept, Pending, Truthful
  <1>9. \A h \in Handlers : handlers'[h].pc = "create" =>
           /\ handlers'[h] = handlers[h] /\ handlers[h].run # r
           /\ handlers[h].run = r =>
                 Pending(to) /\ to.landed = 1..to.created /\ to.answer = NoReply
    BY <1>3 DEF At
  <1>10. /\ \A d \in late' \ late : d.call = "create" => d.run = r
         /\ \A d \in late' : d.call = "create" /\ d.run = r =>
               /\ Pending(to)
               /\ \A h \in Handlers : handlers'[h].pc = "create" => handlers[h].run # r
    BY <1>8, <1>9
  <1>11. QED
    BY <1>3, <1>6, <1>7, <1>8, <1>9, <1>10, RunChanges

\* A restart gives up what every handler was at.
LEMMA RunsRestart ==
    ASSUME TypeOK, RunsInv, AppRestart
    PROVE  RunTypes' /\ RunsInv'
  <1>1. RunTypes /\ RunsInv
    BY DEF TypeOK, RunTypes
  <1>2. /\ runs' = runs /\ \A h \in Handlers : handlers'[h] = Idle
    BY DEF AppRestart
  <1>3. PICK waiting \in SUBSET {h \in Handlers : handlers[h].pc \in Calls} :
           late' = late \union {CallOf(h) : h \in waiting}
    BY DEF AppRestart
  <1>4. \A h \in Handlers : ~At(h, "create")'
    BY <1>2, IdleType DEF At
  <1>5. ASSUME NEW c \in late', c.call = "create" PROVE Unfinished(c.run)
    <2>1. CASE c \in late
      BY <1>1, <1>5, <2>1, RunsInvParts
    <2>2. CASE c \notin late
      <3>1. PICK h \in waiting : c = CallOf(h)
        BY <1>3, <2>2
      <3>2. c.call = handlers[h].pc /\ c.run = handlers[h].run
        BY <3>1 DEF CallOf
      <3>3. Serving(h)
        BY <1>1, <1>5, <3>2, RunsInvParts DEF At
      <3>4. QED
        BY <3>2, <3>3 DEF Serving
    <2>3. QED
      BY <2>1, <2>2
  <1>6. \A r \in DOMAIN runs' : RunKept(r)'
    BY <1>1, <1>2, RunsInvParts DEF RunKept
  <1>7. DOMAIN runs' \in {1..n : n \in 0..MaxRuns}
    BY <1>1, <1>2 DEF RunTypes
  <1>8. \A c \in late' : c.call = "create" => Unfinished(c.run)'
    BY <1>2, <1>5 DEF Unfinished
  <1>9. QED
    BY <1>4, <1>6, <1>7, <1>8 DEF RunTypes, RunsInv, RunKept, Serving

LEMMA RunsStep ==
    ASSUME TypeOK, PagesInv, RunsInv, [Next]_vars
    PROVE  RunTypes' /\ RunsInv'
  <1>1. ASSUME NEW h \in Handlers, NEW t \in held, NEW count \in Counts, StartRecurring(h, t, count)
        PROVE  RunTypes' /\ RunsInv'
    BY <1>1, RunBegins
  <1>2. ASSUME NEW h \in Handlers, CreateRow(h) PROVE RunTypes' /\ RunsInv'
    BY <1>2, RunGoesOn
  <1>3. ASSUME NEW c \in late, c.call = "create", Land(c.run, NextInstallment(c.run)), LateCall(c)
        PROVE  RunTypes' /\ RunsInv'
    <2>1. handlers' = handlers /\ late' = late \ {c}
      BY <1>3 DEF LateCall
    <2>2. QED
      BY <1>3, <2>1, RunLandsLate
  <1>4. CASE AppRestart
    BY <1>4, RunsRestart
  <1>5. ASSUME ~\E h \in Handlers, t \in held, count \in Counts : StartRecurring(h, t, count),
               ~\E h \in Handlers : CreateRow(h),
               ~AppRestart, runs' = runs
        PROVE  RunTypes' /\ RunsInv'
    <2>1. ASSUME NEW h \in Handlers PROVE handlers'[h] = handlers[h] \/ handlers'[h].pc # "create"
      <3>1. CASE \E t \in held : StartReport(h, t)
        <4>1. PICK t \in held : StartReport(h, t)
          BY <3>1
        <4>2. Moves(h, Started("list", t, 0))
          BY <4>1, BeginMoves
        <4>3. handlers'[h].pc = "list"
          BY <4>2 DEF Moves, Started, TypeOK
        <4>4. QED
          BY <4>3
      <3>2. CASE handlers'[h] = Read(h)
        BY <3>2, ReadFields
      <3>3. CASE handlers'[h].pc \in {"idle", "limit", "login", "logout", "forward"}
        BY <3>3
      <3>4. QED
        BY <1>5, <3>1, <3>2, <3>3, HandlerStep
    <2>2. ASSUME NEW c \in late' \ late PROVE c.call # "create"
      <3>1. PICK h \in Handlers : /\ handlers[h].pc \in Calls
                                  /\ c = CallOf(h)
                                  /\ handlers[h].pc = "create" => CreateRow(h) \/ AppRestart
        BY LateStep
      <3>2. c.call = handlers[h].pc
        BY <3>1 DEF CallOf
      <3>3. QED
        BY <1>5, <3>1, <3>2
    <2>3. QED
      BY <1>5, <2>1, <2>2, RunsStay
  <1>6. ASSUME NEW h \in Handlers, Begins(h)
        PROVE  (\E t \in held, count \in Counts : StartRecurring(h, t, count)) \/ runs' = runs
    BY <1>6 DEF Begins, StartLogin, StartLogout, StartForward, StartReport
  <1>7. ASSUME NEW h \in Handlers,
               \/ LoginCall(h) \/ CreateSession(h) \/ LogoutCall(h) \/ Forward(h)
               \/ ListRows(h) \/ Report(h) \/ ListRowsFails(h)
        PROVE  runs' = runs
    BY <1>7 DEF LoginCall, CreateSession, LogoutCall, Forward, ListRows, Report, ListRowsFails
  <1>8. ASSUME NEW c \in late, LateCall(c)
        PROVE  runs' = runs \/ (c.call = "create" /\ Land(c.run, NextInstallment(c.run)))
    BY <1>8 DEF LateCall
  <1>9. ASSUME OtherClient \/ SessionsEnd \/ UNCHANGED vars PROVE runs' = runs
    BY <1>9 DEF OtherClient, SessionsEnd, vars
  <1>10. QED
    BY <1>1, <1>2, <1>3, <1>4, <1>5, <1>6, <1>7, <1>8, <1>9 DEF Next, GoesOn

-----------------------------------------------------------------------------
(* The invariant, and what follows from it.                                *)

LEMMA InvStep == AppsInv /\ [Next]_vars => AppsInv'
  <1> SUFFICES ASSUME AppsInv, [Next]_vars PROVE AppsInv'
    OBVIOUS
  <1>1. TypeOK /\ TokensInv /\ RunsInv /\ PagesInv
    BY DEF AppsInv
  <1>2. RowsInv' /\ SessionTypes' /\ TokensInv' /\ RunTypes' /\ RunsInv'
    BY <1>1, RowsStep, TokensStep, RunsStep
  <1>3. handlers' \in [Handlers -> Handler]
    BY <1>1, HandlersTyped
  <1>4. late' \subseteq LateCalls /\ faults' \in 0..MaxFaults
    <2>1. late \subseteq LateCalls
      BY <1>1 DEF TypeOK, LateCalls
    <2>2. \A c \in late' \ late : c \in LateCalls
      BY <1>1, LateStep, CallOfType
    <2>3. QED
      BY <1>1, <2>1, <2>2, LateStep
  <1>5. TypeOK'
    BY <1>2, <1>3, <1>4 DEF TypeOK, RowsInv, SessionTypes, RunTypes, LateCalls
  <1>6. QED
    BY <1>2, <1>5 DEF AppsInv, RowsInv

LEMMA Invariant == Spec => []AppsInv
  BY InitInv, InvStep, PTL DEF Spec

\* Every variable keeps its type, however many requests there are.
THEOREM TypeCorrect == Spec => []TypeOK
  <1>1. AppsInv => TypeOK
    BY DEF AppsInv
  <1>2. QED
    BY <1>1, Invariant, PTL

\* Unless something fails, every token that is good at StockIt is held by a
\* session of the app or by the login that is about to make one: neither a
\* logout nor a session that is dropped on 401 leaves a place taken.
THEOREM NothingIsLeftBehind == Spec => []NothingLeftBehind
  <1>1. AppsInv => NothingLeftBehind
    BY DEF AppsInv, TokensInv, NothingLeftBehind, LimitTokens
  <1>2. QED
    BY <1>1, Invariant, PTL

\* The rows of a recurring payment are the first installments, exactly as many as
\* an answer says that tells of a success or of a refused row: whatever calls of
\* other runs are lost, come late or are overtaken by a restart.
THEOREM AnswersCountLanded == Spec => []AnswerCountsLanded
  <1>1. AppsInv => AnswerCountsLanded
    <2> SUFFICES ASSUME AppsInv, NEW r \in DOMAIN runs
                 PROVE  LET answer == runs[r].answer IN
                        /\ answer.status = "all" => answer.told = {runs[r].count}
                        /\ answer.status \in {"all", "refused"} =>
                              \E n \in answer.told : runs[r].landed = 1..n
      BY DEF AnswerCountsLanded
    <2>1. /\ RunKept(r) /\ runs[r].count \in Nat /\ runs[r].created \in Nat
      BY RunFacts DEF AppsInv
    <2>2. ASSUME runs[r].answer.status = "all"
          PROVE  runs[r].landed = 1..runs[r].count /\ runs[r].answer.told = {runs[r].count}
      <3>1. runs[r].created = runs[r].count /\ runs[r].landed \subseteq 1..runs[r].count
        BY <2>1, <2>2 DEF RunKept, Truthful
      <3>2. runs[r].count + 1 \in 1..(runs[r].count + 1) /\ runs[r].count + 1 \notin 1..runs[r].count
        BY <2>1
      <3>3. runs[r].landed = 1..runs[r].count
        BY <2>1, <3>1, <3>2 DEF RunKept
      <3>4. QED
        BY <2>1, <2>2, <3>3 DEF RunKept, Truthful
    <2>3. ASSUME runs[r].answer.status = "refused"
          PROVE  runs[r].answer.told = {runs[r].created} /\ runs[r].landed = 1..runs[r].created
      BY <2>1, <2>3 DEF RunKept, Truthful
    <2>4. QED
      BY <2>2, <2>3
  <1>2. QED
    BY <1>1, Invariant, PTL

\* Whatever calls are lost or late, the rows of a recurring payment are the first
\* installments: as many as its handler has counted, or one more.
THEOREM FirstOnesLanded ==
    Spec => [](\A r \in DOMAIN runs :
                  runs[r].landed \in {1..runs[r].created, 1..(runs[r].created + 1)})
  <1> DEFINE Claim == \A r \in DOMAIN runs :
                         runs[r].landed \in {1..runs[r].created, 1..(runs[r].created + 1)}
  <1>1. AppsInv => Claim
    BY DEF AppsInv, RunsInv
  <1>2. QED
    BY <1>1, Invariant, PTL

\* No page of a report repeats a row of an earlier one, whatever other clients
\* insert and delete between the two.
THEOREM NoRowIsReadTwice == Spec => []NoRowTwice
  <1>1. AppsInv => NoRowTwice
    BY PageIsNew, PagesInvIsListing DEF AppsInv, NoRowTwice
  <1>2. QED
    BY <1>1, Invariant, PTL

\* A finished report lacks at most as many of the rows there are as were deleted
\* while it was read; without deletions it has them all.
THEOREM ReportsComplete == Spec => ReportComplete
  <1> DEFINE Complete == \A h \in Handlers : At(h, "list") /\ handlers'[h].pc = "report" =>
                            Cardinality(rows \ handlers'[h].got) <= deletions[h]
  <1>1. AppsInv /\ [Next]_vars => Complete
    <2> SUFFICES ASSUME AppsInv, [Next]_vars, NEW h \in Handlers,
                        At(h, "list"), handlers'[h].pc = "report"
                 PROVE  Cardinality(rows \ handlers'[h].got) <= deletions[h]
      OBVIOUS
    <2>1. TypeOK /\ Listing(h)
      BY PagesInvIsListing DEF AppsInv
    <2>2. handlers'[h] = Read(h)
      <3>1. handlers'[h] # handlers[h]
        BY DEF At
      <3>2. ASSUME NEW t \in held PROVE ~StartReport(h, t)
        BY DEF StartReport, Begin, At
      <3>3. ASSUME NEW t \in held, NEW count \in Counts PROVE ~StartRecurring(h, t, count)
        BY DEF StartRecurring, At
      <3>4. QED
        BY <2>1, <3>1, <3>2, <3>3, HandlerStep
    <2>3. ~HasMore(handlers[h].offset)
      BY <2>1, <2>2, ReadFields
    <2>4. handlers'[h].got = handlers[h].got \union Page(handlers[h].offset)
      BY <2>1, <2>2, ReadFields
    <2>5. QED
      BY <2>1, <2>3, <2>4, LastPageCompletes
  <1>2. Spec => [][Complete]_vars
    BY <1>1, Invariant, PTL DEF Spec
  <1>3. QED
    BY <1>2 DEF ReportComplete

\* Towards the apps StockIt is what SessionLifetimes says of its session manager,
\* calls that come late included: the promise that Accounts is shown to keep.
THEOREM StockItAsPromised == Spec => StockIt!Spec
  <1>1. Init => StockIt!Init
    BY DEF Init
  <1>2. TypeOK /\ [Next]_vars => [StockIt!Next]_(StockIt!vars)
    BY FreshShrinks
  <1>3. QED
    BY <1>1, <1>2, TypeCorrect, PTL DEF Spec, StockIt!Spec

\* Every installment is due in its month, or so many weeks later; and on the day
\* of the first one or on the last day of a month too short for it, unless the
\* first one ends a month shorter than 31 days.  For every payment that
\* recurringDates takes, whatever its first date and its count.
THEOREM PaymentsStayInPlace == Spec => []DueDatesInMonth
  <1>1. ASSUME NEW request \in Requests
        PROVE  LET dates == RecurringDates(request)
               IN  \A k \in DOMAIN dates :
                       InPlace(request.first, MonthsPerPeriod[request.period], k, dates[k])
    <2>1. /\ request.first \in CalendarDates /\ request.count \in Nat
          /\ request.period \in DOMAIN MonthsPerPeriod
      BY AppInputs
    <2>2. PICK months \in Nat : months = MonthsPerPeriod[request.period]
      BY <2>1 DEF MonthsPerPeriod
    <2>3. PICK dates : dates = RecurringDates(request)
      OBVIOUS
    <2>4. PICK first \in CalendarDates : first = request.first
      BY <2>1
    <2>5. \A k \in DOMAIN dates :
            /\ dates[k] \in CalendarDates
            /\ months = 0 => DayNumber(dates[k]) = DayNumber(first) + 7 * (k - 1)
            /\ months # 0 =>
                 /\ MonthNumber(dates[k]) = MonthNumber(first) + months * (k - 1)
                 /\ LET length == DaysIn(dates[k][1], dates[k][2])
                    IN  dates[k][3] = IF first[3] < length THEN first[3] ELSE length
      BY <2>1, <2>2, <2>3, <2>4, RecurringDatesInPlace
    <2>6. first[3] \in 1..31
      BY DateParts
    <2>7. ASSUME NEW k \in DOMAIN dates PROVE InPlace(first, months, k, dates[k])
      <3>1. CASE months = 0
        BY <2>5, <3>1 DEF InPlace
      <3>2. CASE months # 0
        <4>1. dates[k] \in CalendarDates
          BY <2>5
        <4>2. PICK date \in CalendarDates : date = dates[k]
          BY <4>1
        <4>3. date[3] \in 1..31 /\ date[3] <= DaysIn(date[1], date[2])
          BY DateParts
        <4>4. /\ MonthNumber(date) = MonthNumber(first) + months * (k - 1)
              /\ date[3] = IF first[3] < DaysIn(date[1], date[2]) THEN first[3] ELSE DaysIn(date[1], date[2])
          BY <2>5, <3>2, <4>2
        <4>5. DaysIn(date[1], date[2]) \in {28, 29, 30, 31}
          BY DEF DaysIn
        <4>6. \/ date[3] = first[3]
              \/ first[3] > DaysIn(date[1], date[2]) /\ date[3] = DaysIn(date[1], date[2])
          BY <2>6, <4>4, <4>5
        <4>7. QED
          BY <3>2, <4>2, <4>4, <4>6 DEF InPlace, LastDay
      <3>3. QED
        BY <3>1, <3>2
    <2>8. QED
      BY <2>2, <2>3, <2>4, <2>7
  <1>2. DueDatesInMonth
    BY <1>1 DEF DueDatesInMonth, RequestsInPlace
  <1>3. QED
    BY <1>2, PTL

\* The balances of every forecast are right: each row's is what the accounts
\* hold and what is open and due by the row's day, and the last one has all that
\* is due in the period.  For every ledger a report may have read.
THEOREM BalancesAddUp == Spec => []ForecastAddsUp
  <1>1. LedgersAddUp
    BY AppInputs, ForecastsAddUp DEF LedgersAddUp
  <1>2. ForecastAddsUp
    BY <1>1 DEF ForecastAddsUp
  <1>3. QED
    BY <1>2, PTL
=============================================================================
