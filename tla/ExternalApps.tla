---------------------------- MODULE ExternalApps ----------------------------
(***************************************************************************)
(* The backends of the purchasing and the cash flow app: they log in to    *)
(* StockIt for a user, keep its session token beside a cookie of their own *)
(* and make calls over HTTP.  A call may fail with StockIt having done its *)
(* part (the answer is lost), or before it does it (the client gives up    *)
(* and StockIt may do its part later, or never).                           *)
(*                                                                         *)
(* StockIt is what SessionLifetimes says of its tokens, and a table whose  *)
(* ids go up, written to by other clients too.  A session of an app is     *)
(* named by the StockIt token it holds: both are drawn once.               *)
(***************************************************************************)
EXTENDS Naturals, FiniteSets, Recurrence, Forecast

CONSTANTS
    Handlers,       \* requests an app may be serving at a time
    Tokens,         \* StockIt's session tokens
    NoToken,        \* none of them
    MaxSessions,    \* StockIt's cap on them
    PageLimit,      \* rows per page
    Requests,       \* recurring payments that are asked for
    Ledgers,        \* what reports may have read
    MaxRows,        \* bound on the ids of the table
    MaxRuns,        \* bound on the recurring payments asked for
    MaxFaults       \* bound on lost answers, calls given up and restarts

ASSUME AppBounds ==
    /\ {MaxSessions, MaxRows, MaxRuns, MaxFaults} \subseteq Nat
    /\ PageLimit \in Nat \ {0}

ASSUME AppInputs ==
    /\ NoToken \notin Tokens
    /\ \A request \in Requests :
           /\ request.first \in CalendarDates /\ request.period \in DOMAIN MonthsPerPeriod
           /\ request.count \in Nat \ {0}
    /\ \A ledger \in Ledgers : Ledger(ledger)

VARIABLES
    fresh, good,    \* StockIt's tokens: never given out; good for a request
    rows, seq,      \* ids of the rows of financial_obligations; the last one given
    held,           \* sessions of the app, by the token they hold
    handlers,       \* what every handler is doing
    runs,           \* the recurring payments asked for, and what became of them
    deletions,      \* rows deleted since a handler began its report
    late,           \* calls given up that StockIt may still get to
    faults          \* counts the faults, for the bound only

stockit == <<fresh, good, rows, seq>>
vars == <<stockit, held, handlers, runs, deletions, late, faults>>

StockIt == INSTANCE SessionLifetimes

Rows == 1..MaxRows
RunIds == 1..MaxRuns
Steps == {"idle", "login", "limit", "logout", "forward", "list", "report", "create"}
Calls == {"login", "logout", "create"}
Handler == [pc : Steps, token : Tokens \union {NoToken}, run : {0} \union RunIds,
            offset : 0..MaxRows, got : SUBSET Rows]
Idle == [pc |-> "idle", token |-> NoToken, run |-> 0, offset |-> 0, got |-> {}]

\* What a handler answers: all installments, one that StockIt refused, one that
\* no answer came for, or a session that StockIt did not know; and the count it
\* tells, as a set that is empty where it tells none.
Reply(status, told) == [status |-> status, told |-> told]
NoReply == Reply("none", {})
Replies == [status : {"none", "all", "refused", "failed", "expired"}, told : SUBSET Nat]

\* A run: how many installments were asked for, the handler's count of them,
\* those whose rows StockIt has made, and what the handler answered.  The bound
\* on the table leaves out the runs that do not fit in it.
Counts == {request.count : request \in Requests} \intersect Rows
Run == [count : Counts, created : Nat, landed : SUBSET Nat, answer : Replies]

TypeOK ==
    /\ good \union fresh \subseteq Tokens
    /\ rows \subseteq 1..seq /\ seq \in 0..MaxRows
    /\ held \subseteq Tokens \ fresh
    /\ handlers \in [Handlers -> Handler]
    /\ DOMAIN runs \in {1..n : n \in 0..MaxRuns}
    /\ \A r \in DOMAIN runs :
           /\ runs[r] \in Run
           /\ runs[r].created \in 0..runs[r].count
           /\ runs[r].landed \subseteq 1..runs[r].count
    /\ deletions \in [Handlers -> 0..MaxRows]
    /\ late \subseteq [call : Calls, token : Tokens \union {NoToken},
                       run : {0} \union RunIds, fault : 1..MaxFaults]
    /\ faults \in 0..MaxFaults

Init ==
    /\ StockIt!Init
    /\ seq \in 0..MaxRows
    /\ rows = 1..seq
    /\ held = {}
    /\ handlers = [h \in Handlers |-> Idle]
    /\ runs = [r \in {} |-> {}]
    /\ deletions = [h \in Handlers |-> 0]
    /\ late = {}
    /\ faults = 0

-----------------------------------------------------------------------------
At(h, step) == handlers[h].pc = step
Done(h) == handlers' = [handlers EXCEPT ![h] = Idle]

\* sessionFromRequest finds a session; the handler keeps its token.
Begin(h, step, t) ==
    /\ At(h, "idle")
    /\ t \in held
    /\ handlers' = [handlers EXCEPT ![h] = [Idle EXCEPT !.pc = step, !.token = t]]

Fault == faults < MaxFaults /\ faults' = faults + 1
NoFault == faults' = faults

\* The call a handler is waiting for, named by the fault that ends its wait.
CallOf(h) == [call |-> handlers[h].pc, token |-> handlers[h].token,
              run |-> handlers[h].run, fault |-> faults + 1]

\* The handler sees a failure, and StockIt may still get to the call.
GiveUp(h) == Fault /\ late' \in {late, late \union {CallOf(h)}}

\* Mutant: every failure counts as an expired session.
AnyFailure(h) == TRUE

\* StockIt answers 401.
Unauthorized(h) == handlers[h].token \notin good

\* The session is dropped when StockIt did not know its token.
DropIf(h, unauthorized) == held' = IF unauthorized THEN held \ {handlers[h].token} ELSE held

-----------------------------------------------------------------------------
(* What StockIt does for a call, and for everybody else.                   *)

InsertRow ==
    /\ seq < MaxRows
    /\ seq' = seq + 1
    /\ rows' = rows \union {seq + 1}
    /\ UNCHANGED deletions

DeleteRow(x) ==
    /\ rows' = rows \ {x}
    /\ deletions' = [h \in Handlers |-> IF At(h, "list") THEN deletions[h] + 1 ELSE 0]
    /\ UNCHANGED seq

Write == InsertRow \/ \E x \in rows : DeleteRow(x)
NoWrite == UNCHANGED <<rows, seq, deletions>>

\* Another client, or a user at StockIt's own pages.
OtherClient == Write /\ UNCHANGED <<fresh, good, held, handlers, runs, late, faults>>

\* Sessions end: idle for too long, logged out elsewhere, StockIt restarted.
SessionsEnd ==
    /\ good' \in SUBSET good
    /\ UNCHANGED <<fresh, rows, seq, held, handlers, runs, deletions, late, faults>>

-----------------------------------------------------------------------------
(* Login and logout.                                                       *)

StartLogin(h) ==
    /\ At(h, "idle")
    /\ handlers' = [handlers EXCEPT ![h] = [Idle EXCEPT !.pc = "login"]]
    /\ UNCHANGED <<stockit, held, runs, deletions, late, faults>>

LoginCall(h) ==
    /\ At(h, "login")
    /\ \/ \E t \in fresh :
             /\ StockIt!Open(t)
             /\ handlers' = [handlers EXCEPT ![h].pc = "limit", ![h].token = t]
             /\ NoFault /\ UNCHANGED late
       \/ Done(h) /\ NoFault /\ UNCHANGED <<fresh, good, late>>
       \/ (\E t \in fresh : StockIt!Open(t)) /\ Fault /\ Done(h) /\ UNCHANGED late
       \/ GiveUp(h) /\ Done(h) /\ UNCHANGED <<fresh, good>>
    /\ NoWrite
    /\ UNCHANGED <<held, runs>>

\* randomToken, and for purchasing approvalLimit, whose failure is no failure.
CreateSession(h) ==
    /\ At(h, "limit")
    /\ held' = held \union {handlers[h].token}
    /\ Done(h)
    /\ UNCHANGED <<stockit, runs, deletions, late, faults>>

StartLogout(h, t) ==
    /\ Begin(h, "logout", t)
    /\ UNCHANGED <<stockit, held, runs, deletions, late, faults>>

\* The app drops its session whatever comes of the call.
LogoutCall(h) ==
    /\ At(h, "logout")
    /\ held' = held \ {handlers[h].token}
    /\ Done(h)
    /\ \/ good' = good \ {handlers[h].token} /\ NoFault /\ UNCHANGED late
       \/ GiveUp(h) /\ UNCHANGED good
    /\ NoWrite
    /\ UNCHANGED <<fresh, runs>>

-----------------------------------------------------------------------------
(* The proxies of the purchasing app: one call, handed on.                 *)

StartForward(h, t) ==
    /\ Begin(h, "forward", t)
    /\ UNCHANGED <<stockit, held, runs, deletions, late, faults>>

\* A failed call may have been carried out all the same.
Forward(h) ==
    /\ At(h, "forward")
    /\ \/ ~Unauthorized(h) /\ Write /\ NoFault /\ UNCHANGED held
       \/ ~Unauthorized(h) /\ Write /\ Fault /\ UNCHANGED held
       \/ NoWrite /\ NoFault /\ DropIf(h, Unauthorized(h))
       \/ NoWrite /\ Fault /\ UNCHANGED held
    /\ Done(h)
    /\ UNCHANGED <<fresh, good, runs, late>>

-----------------------------------------------------------------------------
(* The report of the cash flow app: listRows, page after page.             *)

StartReport(h, t) ==
    /\ Begin(h, "list", t)
    /\ deletions' = [deletions EXCEPT ![h] = 0]
    /\ UNCHANGED <<stockit, held, runs, late, faults>>

\* Mutant: the newest rows come first.
NewestFirst(x) == Cardinality({y \in rows : y >= x})

\* The place of a row in the order of the primary key.
Rank(x) == Cardinality({y \in rows : y <= x})

Page(offset) == {x \in rows : offset < Rank(x) /\ Rank(x) <= offset + PageLimit}

\* Mutant: a page that is followed by one row counts as the last.
HasMoreThanOne(offset) == Cardinality(rows) > offset + PageLimit + 1

\* One row more than the page was asked for, and came.
HasMore(offset) == Cardinality(rows) > offset + PageLimit

\* Mutant: the offset is forgotten.
SameOffset(offset, page) == offset

NextOffset(offset, page) == offset + Cardinality(page)

ReadPage(h) ==
    LET offset == handlers[h].offset
    IN  handlers' = [handlers EXCEPT
            ![h].pc = IF HasMore(offset) THEN "list" ELSE "report",
            ![h].got = @ \union Page(offset),
            ![h].offset = NextOffset(@, Page(offset))]

ListRows(h) ==
    /\ At(h, "list")
    /\ IF Unauthorized(h) THEN Done(h) ELSE ReadPage(h)
    /\ DropIf(h, Unauthorized(h))
    /\ UNCHANGED <<stockit, runs, deletions, late, faults>>

\* Any other answer than a page, or none, ends the report.
ListRowsFails(h) ==
    /\ At(h, "list")
    /\ Done(h)
    /\ UNCHANGED <<stockit, held, runs, deletions, late, faults>>

Report(h) ==
    /\ At(h, "report")
    /\ Done(h)
    /\ UNCHANGED <<stockit, held, runs, deletions, late, faults>>

-----------------------------------------------------------------------------
(* Recurring payments of the cash flow app: one row after the other.       *)

StartRecurring(h, t, count) ==
    /\ Cardinality(DOMAIN runs) < MaxRuns
    /\ At(h, "idle")
    /\ t \in held
    /\ LET r == Cardinality(DOMAIN runs) + 1 IN
           /\ runs' = [n \in 1..r |->
                  IF n < r THEN runs[n]
                  ELSE [count |-> count, created |-> 0, landed |-> {}, answer |-> NoReply]]
           /\ handlers' = [handlers EXCEPT ![h] =
                  [Idle EXCEPT !.pc = "create", !.token = t, !.run = r]]
    /\ UNCHANGED <<stockit, held, deletions, late, faults>>

NextInstallment(r) == runs[r].created + 1

\* Mutant: one installment too many.
PastLast(r, k) == k > runs[r].count

Last(r, k) == k = runs[r].count

Land(r, k) == InsertRow /\ runs' = [runs EXCEPT ![r].landed = @ \union {k}]

Answer(r, answer) == runs' = [runs EXCEPT ![r].answer = answer]

Created(h, r, k) ==
    /\ ~Unauthorized(h)
    /\ InsertRow
    /\ runs' = [runs EXCEPT ![r].created = k,
                            ![r].landed = @ \union {k},
                            ![r].answer = IF Last(r, k) THEN Reply("all", {k}) ELSE @]
    /\ IF Last(r, k) THEN Done(h) ELSE UNCHANGED handlers

\* Mutant: an installment that is refused is skipped.
SkipRejected(h, r, k) ==
    /\ NoWrite
    /\ IF Last(r, k)
       THEN Done(h) /\ Answer(r, Reply("all", {k}))
       ELSE runs' = [runs EXCEPT ![r].created = k] /\ UNCHANGED handlers

\* StockIt refuses the row.
Rejected(h, r, k) ==
    /\ NoWrite
    /\ Done(h)
    /\ Answer(r, Reply("refused", {runs[r].created}))

\* Only the answer to a 401 has no count; one that is made up for an answer that
\* was lost or given up has the count that the handler has.
CreateRow(h) ==
    /\ At(h, "create")
    /\ LET r == handlers[h].run
           k == NextInstallment(r)
           failure == Reply("failed", {runs[r].created})
       IN  \/ Created(h, r, k) /\ NoFault /\ UNCHANGED <<held, late>>
           \/ Rejected(h, r, k) /\ NoFault /\ UNCHANGED <<held, late>>
           \/ /\ Unauthorized(h)
              /\ NoWrite /\ NoFault /\ UNCHANGED late
              /\ DropIf(h, TRUE)
              /\ Done(h)
              /\ Answer(r, Reply("expired", {}))
           \/ /\ ~Unauthorized(h)
              /\ InsertRow
              /\ runs' = [runs EXCEPT ![r].landed = @ \union {k}, ![r].answer = failure]
              /\ Fault /\ Done(h) /\ UNCHANGED <<held, late>>
           \/ GiveUp(h) /\ NoWrite /\ Done(h) /\ Answer(r, failure) /\ UNCHANGED held
    /\ UNCHANGED <<fresh, good>>

-----------------------------------------------------------------------------
(* Faults.                                                                 *)

\* StockIt gets to a call its caller has given up.
LateCall(c) ==
    /\ late' = late \ {c}
    /\ \/ c.call = "login" /\ (\E t \in fresh : StockIt!Open(t)) /\ NoWrite /\ UNCHANGED runs
       \/ c.call = "logout" /\ good' = good \ {c.token} /\ NoWrite /\ UNCHANGED <<fresh, runs>>
       \/ /\ c.call = "create" /\ c.token \in good
          /\ Land(c.run, NextInstallment(c.run))
          /\ UNCHANGED <<fresh, good>>
       \/ NoWrite /\ UNCHANGED <<fresh, good, runs>>
    /\ UNCHANGED <<held, handlers, faults>>

\* The app restarts: its sessions are in memory, its calls are on their way.
AppRestart ==
    /\ Fault
    /\ held' = {}
    /\ handlers' = [h \in Handlers |-> Idle]
    /\ late' \in {late \union {CallOf(h) : h \in waiting} :
                   waiting \in SUBSET {h \in Handlers : handlers[h].pc \in Calls}}
    /\ UNCHANGED <<stockit, runs, deletions>>

-----------------------------------------------------------------------------
Begins(h) ==
    \/ StartLogin(h)
    \/ \E t \in held :
          \/ StartLogout(h, t) \/ StartForward(h, t) \/ StartReport(h, t)
          \/ \E count \in Counts : StartRecurring(h, t, count)

GoesOn(h) ==
    \/ LoginCall(h) \/ CreateSession(h) \/ LogoutCall(h) \/ Forward(h)
    \/ ListRows(h) \/ Report(h) \/ CreateRow(h)

Next ==
    \/ \E h \in Handlers : Begins(h) \/ GoesOn(h) \/ ListRowsFails(h)
    \/ OtherClient \/ SessionsEnd
    \/ \E c \in late : LateCall(c)
    \/ AppRestart

\* Every call of a handler comes to an end: the client has a timeout.  A page
\* may fail to come, but no report counts on that.
Fairness == \A h \in Handlers : WF_vars(GoesOn(h))

Spec == Init /\ [][Next]_vars
FairSpec == Spec /\ Fairness

-----------------------------------------------------------------------------
(* Properties.                                                             *)

\* Unless something fails, StockIt keeps no session that no app session holds:
\* neither a logout nor a dropped session leaves one of the few places taken.
NothingLeftBehind ==
    faults = 0 => good \subseteq held \union {handlers[h].token : h \in Handlers}

\* "so offset paging cannot duplicate ... rows": no page has a row that an
\* earlier page had, whatever is inserted and deleted between the two.
NoRowTwice == \A h \in Handlers : At(h, "list") => Page(handlers[h].offset) \intersect handlers[h].got = {}

\* A report has all the rows there are, but for as many as were deleted while
\* it was read.
ReportComplete ==
    [][\A h \in Handlers : At(h, "list") /\ handlers'[h].pc = "report" =>
          Cardinality(rows \ handlers'[h].got) <= deletions[h]]_vars

\* "the response reports how many landed if StockIt rejects one mid-run": the
\* installments that exist are the first ones, exactly as many as the answer
\* says, and all of them when it is a success; and so it stays, whatever calls
\* of other runs are lost or late.  Of the other answers nothing is claimed: a
\* 401 on the way is answered without a count, and the count is one short when
\* the row was made and the answer to it was lost.
AnswerCountsLanded ==
    \A r \in DOMAIN runs :
        LET answer == runs[r].answer IN
        /\ answer.status = "all" => answer.told = {runs[r].count}
        /\ answer.status \in {"all", "refused"} => \E n \in answer.told : runs[r].landed = 1..n

LastDay(date) == DaysIn(date[1], date[2])

\* A date in its month, weekly dates seven days apart; and on the first one's
\* day, or on the last of a month too short for it, unless the first one was
\* itself the last of a month shorter than 31 days.
InPlace(first, months, k, date) ==
    IF months = 0
    THEN DayNumber(date) = DayNumber(first) + 7 * (k - 1)
    ELSE /\ MonthNumber(date) = MonthNumber(first) + months * (k - 1)
         /\ first[3] < LastDay(first) \/ first[3] = 31 =>
               \/ date[3] = first[3]
               \/ first[3] > LastDay(date) /\ date[3] = LastDay(date)

RequestsInPlace ==
    {request \in Requests :
        LET dates == RecurringDates(request)
        IN  \A k \in DOMAIN dates :
                InPlace(request.first, MonthsPerPeriod[request.period], k, dates[k])}

\* "so a payment due on the 31st stays month-end instead of rolling into the
\* next month": whatever recurring payment is being created, every due date is
\* in its place.  Of a first date at the end of a shorter month only the month
\* is claimed here; MonthEndStays is about its day.
DueDatesInMonth == DOMAIN runs # {} => RequestsInPlace = Requests

\* "A month-end start date stays at month end": after a first date on the last
\* day of a month every due date is on the last day of its month.  addMonths
\* keeps the day of the first date, so that 28 February is followed by 28 March.
MonthEndStays ==
    DOMAIN runs # {} =>
        \A request \in Requests :
            request.period # "weekly" /\ request.first[3] = LastDay(request.first) =>
                LET dates == RecurringDates(request)
                IN  \A k \in DOMAIN dates : dates[k][3] = LastDay(dates[k])

LedgersAddUp == \A ledger \in Ledgers : AddsUp(ledger)

\* The forecast a report makes of what it has read adds up, whatever that is:
\* every projected balance is the money there is and what is due by then.
ForecastAddsUp == (\E h \in Handlers : At(h, "report")) => LedgersAddUp

\* Every request to an app is answered, while StockIt's table does not grow
\* without end.
HandlersFinish == \A h \in Handlers : ~At(h, "idle") ~> At(h, "idle")
=============================================================================
