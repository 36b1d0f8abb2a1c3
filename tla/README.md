# StockIt: verification project

StockIt is a small ERP server in Go: one process, one SQLite database, a web UI,
a REST API and an MCP endpoint over the same store, and two helper applications
(purchasing, cash flow) that talk to it over HTTP. This directory holds TLA+
models of its core logic, the TLC configurations that check them, and proofs of
the most important theorems.

## 1. Inventory

| Component | State it keeps | Operations | Hard behaviours | What makes it correct |
|---|---|---|---|---|
| Purchase orders, lines, history (`internal/store/sqlite.go`, `po_status.go`) | tables `purchase_orders`, `po_components`, `po_status_history` | `Insert`, `Update`, `Delete`, `SetPOStatus`, `recordPOStatusChange`, `syncPOReceiptStatus` | several statements per operation without a transaction; foreign keys; cancelled requests | the history tells every change; receipts move only orders in fulfilment, and to the right status |
| Signing control (`approvals.go`) | `users.usr_approval_limit_minor`, `por_total_minor` | `ApprovalLimit`, `SubmitPurchaseOrder`, `DecidePurchaseOrder` | limit read outside the transaction; float to integer conversion; five other paths that write a status | approved and rejected only by a decision within a limit; one decision, one row |
| Startup (`sqlite.go` `init`) | schema, seeds | create, rebuild, migrate, seed | a stop between two statements; runs again on every start | idempotent; loses no order, line or history row |
| Sessions and login (`internal/auth`, `app/auth_api.go`, `app.go`) | session map, login limiter map | `Create`, `Get`, `Delete`, `Count`, `allowLoginAttempt` | idle expiry against use; a cap over all users that is documented per user; clock | a session never outlives its idle time; the cap holds, and the expired take no place of it; the attempt window |
| Users and the last admin (`api_service.go`, `app.go`) | table `users` | create, update, delete with guard | the guard reads in one statement and deletes in another; sessions outlive roles | there is always an admin |
| Generic tables (`api_service.go`, `metadata.go`) | about thirty tables | list, get, create, update, delete, CSV import, business rules | partial updates; imports that fail half-way; two clients that change one row | no row comes to break a rule (partial updates do break one); a row names its creator; a change touches what it was sent |
| Connection (`Open`: `SetMaxOpenConns(1)`) | the one connection | statement, begin, commit, rollback | everyone waits for one connection | no request waits for itself; transactions are atomic |
| Lifecycle, TLS (`app.go` `Run`, `tls.go`, `cmd/stockit`) | listeners, requests in flight, certificate files | start, stop, generate | one listener fails; a stop between two files; requests longer than the grace period | Run returns, waits for its requests, and says truly how it ended; the pair fits unless its writing was cut short |
| Purchasing backend (`apps/purchasing`) | its own sessions, holding a StockIt token | login, logout, proxy | the backend and StockIt disagree about a session | no session is left behind |
| Cash flow backend (`apps/cashflow`) | its own sessions | paging, recurring obligations, forecast | offset paging over changing rows; half-made series | every row once; answers that tell what landed; month ends |
| REST, MCP, HTML (`approval_api.go`, `mcp.go`, `app.go`) | none | decode, authorize, call the store, render | - | they call the operations above |

Inside StockIt the components interact through the database and the session map:
every handler of every surface looks up its session and calls the store, and the
store hands its one connection to one statement or one transaction at a time. What a request read before it lost the connection
may be stale when it gets it back. That is where most hard behaviours of this
program come from, and what the first model is about. The two backends are
clients over HTTP: what they know of a session or a row may be out of date, and a
call that failed may have been carried out.

## 2. Plan

Done:

1. **PurchaseOrders**, its abstract **SigningControl** and **PurchaseOrdersProofs**:
   requests interleaved statement by statement.
2. **Accounts**, its abstract **SessionLifetimes** and **AccountsProofs**: users,
   sessions and the last-admin guard; **LoginLimiter**, the login throttle;
   **MCLogin** puts the throttle in front of them.
3. **StoreInit** and **StoreInitProofs**: a start, cut off and repeated; with
   Records in **MCStore**.
4. **ExternalApps**, composed with `SessionLifetimes`, **Recurrence** and
   **Forecast**: the two app backends over calls that fail, the due dates of
   recurring payments, and the balances of the report.
5. **Records** and **RecordsProofs**: the generic tables, from the decoding of a
   payload, a form or a file to the statement that writes it.
6. **Server** and **ServerProofs**: `main` and `Run`, the certificate pair, and the
   requests on the one connection, composed because each is about how the
   process ends.
7. **LoginLimiterProofs**, **CashflowProofs** (of Recurrence and Forecast) and
   **ExternalAppsProofs**; and in PurchaseOrdersProofs and AccountsProofs what holds
   of one request at a time.
8. In StoreInitProofs what a completed start leaves behind, wherever starts before
   it were cut off.
9. The sentences of the repository that the code does not keep, each as a property
   of its own that a run shows violated (section 4).

Left, most important first:

* the transactions of PurchaseOrders as sequences of statements on the connection
  of Server, as a refinement of the atomic ones;
* Records with UNIQUE columns and the listing with its filters and pages.

## 3. What is modelled

### PurchaseOrders

A request in flight is a record: where it stands (`pc` names the SQL statement it
will run next) and the locals the handler keeps between statements. A statement
is one atomic step, and so is a transaction, because the store opens a single
connection; between two statements of one request any other request may run.

| State | Code |
|---|---|
| `orders`, `lines`, `history`, `users` | the four tables; `live` says that the row exists; ids are AUTOINCREMENT and never reused |
| `porSeq`, `pocSeq` | the last ids given out |
| `req[r]` | a handler between two statements: order, line, columns to write, the snapshot `before`, the snapshot `after`, the limit it read |
| `decisions[o]` | the `ApprovalDecision` values answered for order `o` (a history variable: the code answers and forgets them) |
| `started`, `faults` | counters of the bounds only |

| Operation | Steps |
|---|---|
| `Store.Insert` on orders | `InsertOrder`, `RecordPOStatusChange`, `AppendHistory` |
| `Store.Update` on orders | `StartUpdateOrder` (guard and snapshot), `UpdateOrder`, `RecordPOStatusChange`, `AppendHistory` |
| `Store.Delete` on orders | `DeleteOrder` with the cascade to lines and history |
| `SetPOStatus` | `StartSetPOStatus` (validation and snapshot), `SetPOStatus`, `RecordPOStatusChange`, `AppendHistory` |
| `Insert`, `Update` on lines | `InsertLine` or `UpdateLine`, `ReadLineParent`, `SyncSnapshot`, `SyncSum`, `SyncDerive`, `RecordPOStatusChange`, `AppendHistory` |
| `Delete` on lines | `StartDeleteLine` (reads the parent), `DeleteLine`, then as above from `SyncSnapshot` |
| `SubmitPurchaseOrder` | one transaction, one step |
| `DecidePurchaseOrder` | `StartDecidePurchaseOrder` (reads the limit), then `DecidePurchaseOrder` or `RefuseDecision` (the transaction) |
| administrator | `SetApprovalLimit`, `DeleteUser` (refused while rows point to the user) |
| faults | `Abort` (a request ends between two statements: cancelled context or failed statement), `Restart` (all requests lost, then `migratePOStatuses`) |

Data is abstracted to what the properties tell apart. NULL and the empty string
read alike in the code and are one value. Prices are in mills and totals in minor
units, so `math.Round(total * 100)` is exact rounding half away from zero; the
conversion to int64 is exact in range and, out of range, one of the two values
the Go implementations produce. Quantities are integers where the code sums
floats: rounding errors of the sum are not modelled. Notes, currencies, dates and
document numbers are left out, and so are the stock moves that may refer to an
order: a deletion that their reference refuses changes nothing. The users here are not admins, so `Restart` leaves out the
backfill of an admin's limit; StoreInit has it.

### SigningControl

What the signing control promises, without requests or statements: an order is
open, approved or rejected; only a decision within a positive limit takes it out
of "open". `PurchaseOrders!Standing` is the refinement mapping.

### Accounts

Every call of the session manager runs under one lock and is one step; every SQL
statement is one step; between two steps of a request other requests, the clock
and a restart come in.

| State | Code |
|---|---|
| `sessions` | `Manager.sessions`: token to user, role and the ticks since `LastActive` |
| `issued` | tokens drawn so far: 32 random bytes, taken to be distinct |
| `users`, `usrSeq` | the roles in table `users`; a missing row has `NoRole` |
| `req[r]` | a request: where it stands and the token, user, role and target it holds |

| Operation | Actions |
|---|---|
| login (`auth_api.go`, the login form) | `AuthenticateCredentials`, then `Create` or `RefuseSession` |
| `sessionFromRequest`: bearer header, then cookie | `SessionFromRequest`, `CookieAfterBearer` over `GetHit` and `GetMiss` (look up, renew or drop) |
| logout | `Logout` |
| create, change, delete users from REST, MCP and form | `InsertUser`, `UpdateUser`, and `StartDeleteUser`, `CountAdmins`, `DeleteUser`: the guard and the delete are separate statements |
| the rest | `OtherHandler`, `Abort`, `Tick`, `Restart` |

Time is counted in ticks of which `IdleTimeout` make up the fifteen minutes;
ages past the timeout are one value. Password checks are left out: a login names
a user and the right password, or leaves no trace. The cap counts the sessions of
all users, as `Create` does.

### SessionLifetimes

What the session manager promises, without maps, clocks or users: a token is
given out once, a bounded number is good, and a token that went bad stays bad.
Accounts implements it with `fresh <- Tokens \ issued, good <- Unexpired`;
ExternalApps uses it as its StockIt.

### LoginLimiter

`limitLogin`, `allowLoginAttempt`, `pruneLimitersLocked`: one counter per
address, each attempt one step. `allowed` is a history variable, the logins let
through per tick of the last window, against which the code's resetting counter
is compared; `RecentLogins` has a pair for each, so that they can be counted. Counts
above `CountCap` are one value. `MCLogin` has the throttle and Accounts side by
side, one after the other: the attempts come before the first login. They share no
state, and a login that the throttle or the password turns away leaves nothing in
Accounts, so that no behaviour of either is lost by that.

### StoreInit

`store.Open` and `init` as a program of statements (`pc`, `index`) over a database
of an older version; `Stop` cuts it off before any statement in `Stops`, `Start`
runs it from the top. Of the schema it keeps the table `purchase_orders`, its
column `prq_id`, the table of the rebuild, the tables that point at it (`lines`),
the retired tables, late columns and seeds; of an order, status and payment tag.
`old` remembers the database that was opened. `DropOrders` cascades to the lines
when foreign keys are on, which is why `ForeignKeysOff` exists. Its variables,
`OpenInit`, `OpenNext` and `OpenSpec` have names of their own because `MCStore`
composes it with Records: requests come when the database is ready. The tables of
Records are none of those an older version had otherwise, so what a start made of
the orders makes no difference to them, and the requests are checked after the
shortest start only.

### ExternalApps and Recurrence

Both backends keep StockIt tokens behind cookies of their own. A handler
(`handlers[h]`) makes one call after the other; StockIt's side of a call
is `SessionLifetimes` for tokens and a table of AUTOINCREMENT ids for rows. A
call may be answered, fail without effect, take effect with its answer
lost, or be given up and take effect later (`late`, `LateCall`) or never.

| Operation | Actions |
|---|---|
| `handleLogin` | `StartLogin`, `LoginCall`, `CreateSession` (for purchasing after `approvalLimit`, whose failure is none) |
| `handleLogout` | `StartLogout`, `LogoutCall`: the app session goes whatever comes of the call |
| `handleProxy`, `handleWorkflowProxy`, `handleUserNames`, `forward` | `StartForward`, `Forward` |
| `handleCashflow`, `listRows` | `StartReport`, `ListRows` (a page each) or `ListRowsFails`, `Report`; one table stands for the four |
| `handleRecurring`, `createRow` | `StartRecurring`, `CreateRow` (a row each) |
| outside | `OtherClient` writes rows, `SessionsEnd`, `AppRestart` |

An app session is named by the StockIt token it holds: both are drawn once.
What a handler answers to a recurring payment is a status and the count it tells,
if it tells one: `Reply("all", ...)`, `"refused"` when StockIt refused a row,
`"failed"` when no answer came or the call was given up, both with the handler's
count, and `"expired"` for a 401 from StockIt, which is answered without.
`Recurrence` has the calendar: Go's `AddDate` with its normalisation, and
`AddMonths`, which clamps. `deletions` and `runs` are history variables. The
call that follows is decided by `Counts` only, so the dates are compared with
their definition for every request of the instance at once.

### Forecast

`buildCashflow` as operators over a ledger: balances, what is overdue, the events
by day and currency, and the balance each leaves. ExternalApps compares it with a
reference definition (`AddsUp`) that knows due dates only, over every ledger of
its instance; as with the dates, the rows are data and not state. `Ledger` says
what a report can have read: finitely many rows, whole numbers, obligations not
below zero, a period that does not end before it begins. The events come in the
order `Sorted` chooses: the code sorts the keys of a map, which are distinct.
Amounts and sums are integers of any size, where the code has `int64`, decoded
from JSON numbers through `float64`: amounts that do not fit, sums that wrap and
digits past 2^53 are not modelled, and what is checked and proved of the forecast
holds of the code while they do fit.

### Records

Six of the tables of `metadata.go`: those with business rules, a subtable with
its parent, and what they refer to. Of their columns the model has the required
ones, the references, those a rule is about, and the creator. A value is one of a
few texts or numbers, `Null`, `Blank` (empty text, empty cell or input) or `Bad`
(what does not parse). A request goes through

| Operation | Steps |
|---|---|
| REST, MCP and form create and update (`apiCreateRecord`, `apiUpdateRecord`, `handleTableSave`) | `Begin` (role, decoding, rules), `ResolveParentContext` for a form below a parent, `Insert` or `Update`, `ReadBack` for the API |
| delete (`apiDeleteRecord`; the form's does the same) | `Begin`, `Delete` with the cascade to the subtable |
| `ImportCSV` from any surface | `Begin`, `ImportLine` for each line |
| the client goes away | `Abort`, between any two statements |

The three decoders differ and are kept apart: `parseAPIValues` refuses unknown
columns and tells an explicit null from no value, `parseFormValues` gets every
column and takes an empty one for no change, `ImportCSV` asks for nothing to be
there and takes the creator from the file. `story` is a history variable: who made
a row, and whether it came from a file. Of the references of a stock move the
model has the two locations, the adjustment and the user; a deletion that a row
refers to is refused.

### Server

One process and its next lives. `proc` is where `main` is, from `Open` over the
certificate (`Certify`, `WritePair`: `os.WriteFile` truncates and then writes, the
certificate first) to `Return` and `CloseStore`. While it runs there are the listener goroutines
(`lst`: `Listen`, `ListenerFails`, `ServeReturns`), the goroutine that shuts them
down (`sd`, `closing`, `expired`: `Shutdown`, `Deadline`), the loop over `errCh`
(`Hear`, `CancelRun`), and requests: `Accept` picks one of two programs of
statements, `Acquire` takes the connection, `Execute` runs a statement on it,
`GiveUp` ends a request at any of them. `Signal`, `Kill`, `Age` (of the
certificate) and `Remove` (of a file) come from outside. `failed`
and `cut` are history variables; `exit` is what the operator sees of the last
life. A request is any with the shape of `apiCreateRecord` (two statements) or
`DecidePurchaseOrder` (a statement, then a transaction).

## 4. What is checked

| Run | Shows | Bounds |
|---|---|---|
| `purchase_orders_serial` | One request at a time, no faults: the history is complete and chained (`HistoryComplete`), every decision has its row and no other row claims one (`OneDecisionOneRow`), receipts move only orders in fulfilment (`DerivationSparesOthers`) and to the status the lines call for (`ReceiptStatusFresh`), no order whose cost exceeds the limit is decided (`CostWithinLimit`) | 2 orders, 2 lines, 3 requests, 1 user |
| `purchase_orders_concurrent` | Two requests interleaved, one fault, a user deleted: only a decision within a limit approves or rejects (`SignedWithinLimit`), an answered decision stays in the history (`DecisionsAreRecorded`), the store implements `SigningControl`, every request ends (`RequestsFinish`) | 1 order, 1 line, 3 requests, 2 in flight, 1 fault |
| `history_race` | Two writes side by side leave a gap in the history | violation of `HistoryComplete` |
| `login` | Logins, lookups and restarts side by side: the cap (`SessionCap`), served only while active and as the user of the login (`ServedWhileActive`), expired sessions take no room (`ExpiredTakeNoRoom`), the manager implements `SessionLifetimes` (`ImplementsSessionLifetimes`), an unused set of sessions makes room again and again (`LockoutEnds`). The throttle: no window lets more than the limit through (`RateBound`), a pause is enough (`WaitingHelps`), quiet addresses are forgotten (`IdleAddressesForgotten`) | 2 requests, 2 tokens, 1 session, 2 users, 1 restart; 2 addresses, window 2, idle 4, limit 2 |
| `accounts_last_admin` | Two admins who delete each other both succeed | violation of `LastAdminNotDeleted`, 2 requests |
| `accounts_cap_per_user` | One user takes both places, another who has none is refused | violation of `RefusedForOwnSessions`, 1 request at a time, 3 tokens, 2 sessions |
| `store` | Starts cut off twice: no order or line is lost (`OrdersSurvive`, `LinesSurvive`), a paid order stays paid (`PaidStaysPaid`), a seeded database has an admin (`SeededWithAdmin`), and the end is what one uninterrupted start makes (`MigrationCompletes`). Then creates, changes, deletions and imports side by side: amounts and required values keep their rules (`AmountsKeepRules`), new rows keep them all (`CreationsKeepRules`), rows name their creator (`AttributedToCreator`), an import leaves a prefix of its lines (`ImportLandsPrefix`), a change touches what it was sent (`UntouchedColumnsStay`) | 2 orders, 1 line, 2 stops anywhere but inside the rebuild; 5 rows to begin with, 3 requests, 2 in flight, 1 client that goes away, files of up to 3 lines |
| `store_init_stopped` | A stop between the drop and the rename of the rebuild leaves the orders in a table nothing reads | violation of `OrdersCarriedOver` |
| `records_partial_update` | A change that sends one location of a stock move leaves it from a location to itself | violation of `RowsKeepRules`, the calls of `store` |
| `external_apps` | Two requests of one app session, other writers, a fault: without faults no StockIt session is left behind (`NothingLeftBehind`), no row comes twice (`NoRowTwice`), a report misses no more rows than were deleted while it was read (`ReportComplete`), the answer to a recurring payment that went through or was refused tells how many installments landed, and they are the first ones (`AnswerCountsLanded`), due dates are in their month and on their day (`DueDatesInMonth`), forecasts add up (`ForecastAddsUp`), every request ends (`HandlersFinish`) | 2 handlers, 1 token, 3 rows in pages of 1, 1 run, 1 fault; dates of 2023 and 2024 on the 1st, the 28th and around month ends, up to 13 installments |
| `recurring_month_end` | A payment that begins on 28 February 2023 is due on 28 March | violation of `MonthEndStays`, the dates of `external_apps` |
| `server` | The pair fits unless its writing was cut short (`PairMatches`), the exit status is true (`ExitIsTruthful`), requests get their grace (`GraceKept`), the process stops when asked or when a listener fails (`StopsWhenAsked`), every request ends (`RequestsEnd`) | both listeners, 2 starts, 1 kill or failure, 2 requests |

Why the bounds are enough: an anomaly of interleaved
statements needs two requests; a third lets an operation set the scene before the
race (issue the order, receive goods). Two orders let a line change its order and
two lines let sums differ from single quantities. Two requests that both want the
one place, and a second token for it, are what the cap, the pruning and the reuse
of a place need; two sessions let one user hold them both. The ages of a session
tell "just used", "at the limit" and "expired" apart. Two stops let a start be cut off
while it repairs what the first cut left. A third page shows what a row inserted
or deleted after the first page does to the offset of the second. In
`purchase_orders_concurrent` the largest order total is cut down to a few units, so
that one price times a quantity is within the limit and the other goes past it. Deadlock checking is on everywhere: where a component may come to rest it has
an action for it (`AwaitRequest`, `Serve`), and what cannot go on is reported.

In Records three requests let one set the scene (delete the row, give one location
of a move) for two that meet. In Server the second start meets what a kill in the
middle of the first left in the files, and two requests are enough to wait for
each other. A type invariant that is proved is not repeated as a property of a run.

Six runs fail, each on a property that says what the repository says of the
program. Findings in PROJECT.json quote the sentences.

* `history_race` and `accounts_last_admin`: `HistoryComplete` and
  `LastAdminNotDeleted` hold for one request at a time (the first is checked so in
  `purchase_orders_serial`, both are proved so) and fail for two, which puts the
  cause at the missing transactions and not at the logic of the operations.
  `HistoryComplete` fails in other ways too, not kept as runs of their own: a
  request cut off after its UPDATE, and a user deleted while their session lives on
  (the foreign key of the history row). `DerivationSparesOthers` and
  `ReceiptStatusFresh` likewise hold for one request at a time only: the serial run
  says that the operations are right by themselves, and nothing of the races.
* `store_init_stopped`: `OrdersCarriedOver` fails for the one cut `store` leaves out.
* `accounts_cap_per_user`: README.md:44 and StokIt_Specification.md:46 have five
  sessions for a user, `Create` has five for all of them.
* `records_partial_update`: the rules are to hold whatever the surface, and a write
  is compared with itself only. `AmountsKeepRules` and `CreationsKeepRules` say
  which part of them holds: the rules on one column always, the one on two columns
  for new rows.
* `recurring_month_end`: a start at the month end is to stay there; `addMonths` keeps
  the day of the first date. `DueDatesInMonth` therefore claims the day only for
  starts that are not the last of a month shorter than 31 days; in the month every
  date is.

One more sentence is not kept, and has no run of its own: by a comment of the cash
flow app (`main.go:304`) the response to a recurring payment that fails on the way
says how many rows landed. A 401 on the way is answered without a count, and a
row whose answer was lost is missing from it. `AnswerCountsLanded` reads the
answers and claims the count where it is right, of a success and of a refusal.

Fairness:

* PurchaseOrders: the next statement of every started request. Statements finish,
  none waits for a client, and the requests of an instance are finitely many, so
  one that waits for the connection gets it whichever the pool picks first.
* Accounts, in `MCLogin`: `Tick`, and the answer to a login that has been checked; both happen
  without anybody's help. Nothing obliges a client to come back.
* StoreInit, in `MCStore`: `InitStep`, with the restart of a server that stopped. `MaxStops`
  bounds the stops, without which no start need complete.
* ExternalApps: every handler goes on, since the HTTP client gives up after 15
  seconds. A page may fail but need not, and `MaxRows` bounds the table: paging
  through a table that grows faster than it is read does not end.
* Server: `main` and the goroutines of `Run` go on, the deadline of the shutdown
  passes, and every request is served its statements (again finitely many; the
  pool may pick any that waits). Neither a signal nor a start need ever come, and
  nothing obliges a request to give up.
* Records and LoginLimiter need none: what is checked of them is safety.

## 5. What is proved

`PurchaseOrdersProofs` proves, for every value of the constants that satisfies
`BoundsAssumption` and `InputAssumption` (any number of requests in flight, orders, lines and
faults, any width of the integer):

* `TypeCorrect`: `Spec => []TypeOK`. `TypeOK` is not inductive: the statement a
  request is about to run uses its locals as ids of rows. `TypeInv` adds
  `RequestsWellFormed` (what a program counter says of the locals) and
  `LinesHaveOrders`. One lemma per action, `...Type`.
* `SigningCorrect`: `Spec => []SignedWithinLimit`. The guards of `Insert`,
  `Update` and `SetPOStatus` run when a request arrives, the write they guard
  happens statements later; `PendingWritesUndecided` carries the guard across: no
  request in flight is about to write a decided status. `OnlyDecisionsSign` is
  the heart: every step but `DecidePurchaseOrder` leaves decided orders as they are,
  total included, except at most one that it takes out of the decided statuses.
* `RefinementCorrect`: `Spec => ImplementsSigningControl`, from the same lemma.
* `DecisionsCorrect`: `Spec => []DecisionsAreRecorded`, however requests interleave.
  It needs `UnusedIds`: an id that was not given out yet has no decisions to account
  for, and a row exists only under an id that was. Every step is one of four: it
  adds at most a row (`KeepsRecords`), inserts an order, deletes one with its rows,
  or decides, which adds a decision and its row together. What a log holds of a
  user and an outcome grows by `ByAppend`.

* `CostCorrect`: `Spec /\ []CostsFit => CostWithinLimit`, also however requests
  interleave: the transaction prices the lines itself (`DecidedCost`), and nothing
  else answers a decision. `CostsFit` says that the cost of every order fits an
  int64. Without it the theorem is false: on amd64 the conversion of a cost that
  does not fit gives the smallest integer, which every limit covers. The orders of
  the run that checks it fit.

Four properties are false as soon as two requests interleave (`history_race` keeps
the counterexample to `HistoryComplete`). They are proved from `OneAtATime`
(`MaxInFlight = 1`), as `OneAtATime => (Spec => ...)`: the operations are right when
nothing comes between their statements, which is what a transaction around each
would give. `SerialInv` carries the proofs: whoever is at work is alone (`Alone`),
and what it has read is still so (`Sound`: at each step, how the locals relate to
the tables).

* `DerivationCorrect` and `ReceiptsCorrect`: receipts move only orders in fulfilment,
  and to the status their lines call for. Requests may be cut off and the server
  restarted at any step; `ReceiptStatusFresh` is about writes of a line that end by
  themselves.
* `OneRowCorrect`: `RowsInv` adds the records of decisions and that an id not given
  out has no history (`UnusedHistories`). `SerialHistory` sorts the steps, faults
  included: they add no row, or one that says nothing of a decision (`Notes`), or
  are one of three operations.
* `HistoryCorrect` also assumes `MaxFaults = 0` and `DeletableUsers = {}`: a request
  that is cut off after its write, and one whose user is deleted, leave no history
  row (section 4). `StoryInv` says of each order that its rows are a chain that
  ends in the order as it is or, while the row of a change is still to be written,
  in the snapshot taken before the change.

Assumed of the constants: the bounds are natural numbers and zero is a total;
`Keep` is not a status; limits are natural numbers (the code reads a negative
limit as none); and the database that is opened holds no decided order (its
decisions were answered before the model starts).

`AccountsProofs`, under `AccountBounds` and `AccountInputs` (any number of requests,
tokens, users and restarts):

* `TypeCorrect`. `TypeOK` needs `RequestsWellFormed`: what a request holds at each
  of its steps, since `Create` turns it into a session and `DeleteUser` into an id.
* `SessionCapCorrect`: `Spec => []SessionCap`. The cap is inductive together with
  the finiteness of the map (`Capped`): only `Create` adds an entry, one, after it
  has pruned and compared under the same lock.
* `LifetimesCorrect`: `Spec => ImplementsSessionLifetimes`. Every step but `Create`
  shrinks the set of unexpired tokens (`OthersClose`); `Create` adds one that was
  never issued while fewer than `MaxSessions` were good.
* `ServedCorrect`: `Spec => ServedWhileActive`. Only the lookup of a token starts to
  serve a request (`OnlyGetHitServes`), and it hands on the user and the role of
  the entry it found unexpired under the lock.
* `RefusalCorrect`: `Spec => ExpiredTakeNoRoom`. Needs `Unanswered`, a request
  under way has given no answer yet, and the finiteness of the map from `Capped`.
* `LastAdminStays`: `OneRequest => (Spec => LastAdminNotDeleted)`; with two requests
  it is false (`accounts_last_admin`). `DeletionSpares`: a deletion that has been let
  through leaves an admin, since nothing comes between the count and the DELETE.

`StoreInitProofs`, under `StoreInputs` (any database, any stops, stops inside the
rebuild included):

* `TypeCorrect`, with `InList`: the index is inside the list its step goes through.
* `OrdersSurviveCorrect`: `OrdersSurvive` says of every cut that an old order is in
  `purchase_orders` or in the table of the rebuild. Inductive with `Absent` (a table
  that is not there has no rows), `Rebuildable` (past the copy, the copy is complete)
  and `Somewhere`. Together with the run `store_init_stopped` it says what that cut
  costs: the rows are on disk and the program no longer sees them.
* `LinesSurviveCorrect`: the drop finds the foreign keys off (`LinesInv`).
* `PaidStaysPaidCorrect`: `PaidInv` says, by step, which of status and tag carries
  "paid", through a stop and the repetition from the top.
* `SeededCorrect`: `AdminInv` ties the step of the seeding to the users table: past
  the insertion of its first user there is an admin, and a stop loses none.
* `CompletedStartCorrect`: what a start that completes has done, after any number of
  stops at any steps: the schema is current and an admin can sign, and either every
  old order is there, with its status migrated, or `purchase_orders` is empty and
  all the orders are untouched in the table of the rebuild. This is the safety part
  of `MigrationCompletes`. Its invariant `StartInv` has a part for each thing a step
  relies on: which parts of the schema the steps so far have made (`SchemaInv`),
  whose limit is filled in (`LimitsInv`), which of the two tables holds the orders
  (`PlaceInv`: the rebuilt table is left behind exactly when it exists and the other
  one was created anew), and how far each row has been migrated (`RowsInv`).
* `ReadyIsCurrentCorrect`: if no start is stopped just before the rename, every start
  that completes is current and `OrdersCarriedOver` holds, wherever else starts
  were stopped. So the cut of `store_init_stopped` is the only one that costs the
  orders; a stop earlier in the rebuild only makes the starts after it fail, and a
  failed start is not a completed one.

`RecordsProofs`, under `RecordInputs` (any calls of the declared shapes) and
`LoadedRows` (the database that is opened was written by the program):

* `TypeCorrect`, `RulesCorrect` (`AmountsKeepRules`), `CreationsCorrect`
  (`CreationsKeepRules`), `CreatorCorrect`. The invariant `IInv` says what
  the rows keep (`RowsOK`) and what a request in flight carries (`RequestsOK`): the
  decoding and the rules run when it arrives, or when its parent has been read,
  and the statement that relies on them comes later. The lemmas on `ValuesOf` say
  of every surface which columns a line comes to and what they can hold; an
  update needs the row as it is by then, not as it was when it was checked.
* `ImportsCorrect`: `LandedOK` counts the lines that landed at every step, and ids
  grow because `IdsOK` keeps every one at most the last given out.
* `UntouchedCorrect`: only `Update` changes a row that stays (`OnlyTouched`), and
  only in the columns its values have.

`ServerProofs`, under `ServerInputs` (any number of requests, starts and kills; one
listener or both):

* `TypeCorrect`; `PairCorrect`, for which `PairOK` says what is on the disk at each
  step of the writing; `ExitCorrect`: `LifeOK` follows a failure from the listener
  to `runErr` and the exit; `GraceCorrect`: `GraceOK` says that the shutdown
  goroutine is past a listener only when no request is left on it, which stays so
  because it closed the listener first.

`LoginLimiterProofs`, under `LimiterConstants`: `TypeCorrect`, `IdleForgotten`,
`WaitingIsEnough` (a pause longer than the window is enough, whatever the map
forgot meanwhile), and

* `RateIsBounded`: `Spec => []RateBound`. The bound is inductive once the counter is
  known to be at least the number of recent logins (`CounterCovers`) and nothing to
  have been let through since the entry was last seen (`SilentSince`), so that a
  count that starts anew, or an entry that is forgotten, starts from none. What a
  tick leaves of the window maps one to one into what was there before
  (`WindowMoves`), which spares a sum over a window of any length.

`CashflowProofs` has the two calculations, and assumes nothing of the constants. The
calendar is integer arithmetic:

* `AddDateCounts`: `AddDate` with days, which normalises over any number of months, is
  so many days later. `AddMonthsClamps`: `AddMonths`, which clamps, is in the month
  so many months later, on the same day or the last one. `First(m)`, the day
  number of the first of a month, grows by the length of the month, across leap
  years and centuries too.
* `RecurringDatesInPlace` puts them together for every request the code accepts.

The forecast is folds over finite sets and a sequence that is sorted:

* Sums: a fold of the library is a recursive function of the subsets of a set, so
  the lemmas first show that there is one (`SumExists`, subsets of one more element
  at a time) and that any two agree (`SumsAgree`); then that the order does not
  matter (`SumCommutes`), and how sums go with unions, zeros and sums of sums. The
  induction is over a set of subsets (`SubsetInduction`) and of numbers (`UpTo`), from
  the well-foundedness of strict inclusion, since the library's own rules take an
  operator the provers cannot instantiate.
* Order: the place of a key is the number of keys before it, and no two have the
  same; so a sorted sequence exists, and `Sorted` is one with every key
  (`SortedKeys`).
* `ForecastsAddUp`: `Ledger(ledger)` implies `AddsUp(ledger)`. The balance after i
  events is the opening balance and the signed amounts of the obligations entered
  under the first i keys (`NextEvent`, `ProjectedIs`); an obligation is due by the
  day of an event exactly when its key is not after the event's (`EventsAreDue`),
  and those the code leaves out add nothing (`DueByDay`).

`ExternalAppsProofs`, under `AppBounds` and `AppInputs` (any number of handlers, tokens,
rows, runs and faults, any page size). Its invariant `AppsInv` is the type
invariant with three parts, kept by every step together because calls that come
late concern all of them:

* `TokensInv`, for `NothingIsLeftBehind`: without a fault a good token is held by a
  session of the app or by a login that asks for the limit. A token a handler holds
  was given out before, so no later login gets it.
* `RunsInv`, for `AnswersCountLanded`: a run has one handler, or one call that is late,
  or nobody who goes on with it. Hence at most one row more than was counted
  (`FirstOnesLanded`), and none more once an answer told of a refusal: no call of
  that run is late then, nor will be.
* `PagesInv`, for `NoRowIsReadTwice` and `ReportsComplete`: the rows read so far that
  are still there are among the first `offset` of the table, and those that are not
  are no more than were deleted since. Ids only grow, so an insertion comes after
  everything that was read, and a deletion moves rows down, never up.
* `StockItAsPromised`: `Spec => StockIt!Spec`, the part of StockIt in it keeps to
  `SessionLifetimes`, which `LifetimesCorrect` shows of Accounts.
* `PaymentsStayInPlace`: `DueDatesInMonth`, from `RecurringDatesInPlace`, which says of
  every start what the code computes: after 30 April comes 30 May.
* `BalancesAddUp`: `ForecastAddsUp`, from `ForecastsAddUp`.

Only model-checked:

* `RequestsFinish`, `LockoutEnds`, `MigrationCompletes`, `HandlersFinish`, `StopsWhenAsked`
  and `RequestsEnd`: liveness under fairness is outside what the prover handles. Of
  the third, `CompletedStartCorrect` proves all but that a start does complete.

Every other property of a passing run is proved for all values of the constants, those
of `purchase_orders_serial`, `CostWithinLimit` apart, for one request at a time; and
`LastAdminNotDeleted`, which no passing run checks, is proved for one request too.

## 6. What is not modelled, and why

Password hashing, templates, static assets, number and date formatting: pure
functions or output. Listing, sorting and searching read only; the one reader
that depends on their pages is the cash flow app, and ExternalApps has it. REST,
MCP and HTML handlers decode a request and call the operations modelled here with
the principal as the acting user; how they word an answer (`classifyStoreError`,
status codes, pages) is no part of the state.

Of the generic tables Records leaves out the ones that differ from its six in
names only, blobs and passwords (users are in Accounts), and UNIQUE columns, whose
refusal is one more error of the same statement. `PurchaseOrders` has the tables with a workflow, and rows a
CSV import writes there are inserts of the same kind, with `usr_id` taken from
the file.

Server has no idle connections kept alive: `Shutdown` closes them at once. The two
apps end only with their process, which ExternalApps has as `AppRestart`. SQLite itself
is trusted: a statement is atomic and durable, foreign keys are enforced.
