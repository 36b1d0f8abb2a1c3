--------------------------- MODULE PurchaseOrders ---------------------------
(***************************************************************************)
(* Purchase orders, their lines, their status history and the signing      *)
(* control (internal/store/po_status.go, approvals.go and the generic      *)
(* table writes of sqlite.go).                                             *)
(*                                                                         *)
(* The store keeps ONE database connection (SetMaxOpenConns(1)), so a      *)
(* single SQL statement, or a whole transaction, is one atomic step.  An   *)
(* operation made of several statements outside a transaction is one step  *)
(* per statement, and any other request may run in between.                *)
(*                                                                         *)
(* NULL and '' read alike in the code (sql.NullString.String): both are    *)
(* the empty string here.  Prices are integers in mills (thousandths of    *)
(* the currency unit), totals are in minor units (hundredths).             *)
(***************************************************************************)
EXTENDS Integers, Sequences, FiniteSets, FiniteSetsExt

CONSTANTS
  Requests,         \* slots for requests in flight
  Users,            \* the users that send requests
  NoUser,           \* not a user
  MaxOrders,        \* bound: purchase orders ever inserted
  MaxLines,         \* bound: lines ever inserted
  MaxRequests,      \* bound: requests ever started
  MaxInFlight,      \* bound: requests in flight together (1 = serial)
  MaxFaults,        \* bound: cancelled requests and restarts
  MinMinor,         \* smallest int64 (a smaller one for TLC)
  MaxMinor,         \* largest int64
  DeletableUsers,   \* bound: users an admin may delete
  Limits,           \* signing limits an admin may set; 0 = none
  Statuses,         \* por_status values sent through the table API
  Payments,         \* por_payment_status values sent through the table API
  StatusRequests,   \* statuses sent to SetPOStatus; "" = leave alone
  PaymentRequests,  \* payment tags sent to SetPOStatus; "" = leave alone
  Quantities,       \* poc_qty values
  Prices,           \* poc_price values, in mills
  Receipts,         \* poc_received_qty values
  LoadedOrders,     \* orders in the database when the program opens it
  LoadedStatuses,   \* the statuses those orders may have
  LoadedLines       \* lines of order 1 in that database

POStatusOptions ==
  {"draft", "pending_approval", "approved", "rejected", "issued", "confirmed",
   "partially_received", "received", "invoiced", "closed", "on_hold",
   "pending_revision", "cancelled"}

PaymentStatusOptions == {"unpaid", "partially_paid", "paid", "refunded"}

\* The statuses only DecidePurchaseOrder may set.
DecidedStatuses == {"approved", "rejected"}

\* The statuses a goods receipt may move on its own.
POReceiptStatuses == {"issued", "confirmed", "partially_received", "received"}

\* The argument of a write that leaves the column alone.
Keep == "(keep)"

\* The table API does not check an enumerated column against its options, so
\* a stored status is one of the lifecycle or whatever a client wrote.
Status  == POStatusOptions \cup Statuses \cup LoadedStatuses \cup {""}
Payment == PaymentStatusOptions \cup Payments \cup {""}

ASSUME BoundsAssumption ==
  /\ MaxOrders \in Nat /\ MaxLines \in Nat
  /\ LoadedOrders \in 0..MaxOrders /\ LoadedLines \in 0..MaxLines
  /\ LoadedLines > 0 => LoadedOrders > 0
  /\ MinMinor \in Int /\ MaxMinor \in Int
  /\ MinMinor <= 0 /\ 0 <= MaxMinor

ASSUME InputAssumption ==
  /\ NoUser \notin Users /\ DeletableUsers \subseteq Users
  /\ Keep \notin Statuses \cup Payments \cup LoadedStatuses
  /\ StatusRequests \subseteq STRING /\ PaymentRequests \subseteq STRING
  /\ Limits \subseteq Nat
  /\ Quantities \subseteq Int /\ Prices \subseteq Int /\ Receipts \subseteq Int
  /\ LoadedStatuses \cap DecidedStatuses = {}

Orders == 1..MaxOrders
Lines  == 1..MaxLines
Totals == MinMinor..MaxMinor

VARIABLES
  orders,     \* the purchase_orders rows
  lines,      \* the po_components rows
  history,    \* the po_status_history rows of each order, oldest first
  users,      \* the users rows: the signing limit
  porSeq,     \* last por_id given out (AUTOINCREMENT: ids are not reused)
  pocSeq,     \* last poc_id given out
  req,        \* the requests in flight: where each one stands, and its locals
  decisions,  \* the ApprovalDecision answers given for each order so far
  started,    \* requests started so far
  faults      \* cancelled requests and restarts so far

dbVars == <<orders, lines, history, users, porSeq, pocSeq>>
vars   == <<orders, lines, history, users, porSeq, pocSeq, req, decisions,
            started, faults>>

-----------------------------------------------------------------------------
(* Rows and snapshots.                                                     *)

Order == [live: BOOLEAN, status: Status, payment: Payment,
          total: Totals, user: Users \cup {NoUser}]

Line == [live: BOOLEAN, por: 0..MaxOrders, qty: Int, price: Int, recv: Int]

HistoryRow == [previous: Status, status: Status, payment: Payment, user: Users]

Snapshot == [status: Status, payment: Payment]

Decision == [user: Users, status: DecidedStatuses,
             total: Totals, limit: Limits]

NoOrder == [live |-> FALSE, status |-> "", payment |-> "", total |-> 0,
            user |-> NoUser]

NoLine == [live |-> FALSE, por |-> 0, qty |-> 0, price |-> 0, recv |-> 0]

NoSnapshot == [status |-> "", payment |-> ""]

\* What purchaseOrderSnapshot reads of an order; nothing of a missing one.
PurchaseOrderSnapshot(o) ==
  IF orders[o].live
  THEN [status |-> orders[o].status, payment |-> orders[o].payment]
  ELSE NoSnapshot

LinesOf(o) == {l \in Lines : lines[l].live /\ lines[l].por = o}

\* round(x * 100) of an amount of x mills / 1000: half away from zero.
RoundToMinor(mills) ==
  IF mills >= 0 THEN (mills + 5) \div 10 ELSE -((5 - mills) \div 10)

\* The conversion to int64.  Out of range, its result depends on the machine:
\* the smallest value (amd64) or the nearest one (arm64).
Int64(x) == IF x \in Totals THEN {x} ELSE {MinMinor, MaxMinor}

OrderCost(o) ==
  RoundToMinor(MapThenSumSet(LAMBDA l : lines[l].qty * lines[l].price, LinesOf(o)))

\* Mutant: the total stored at the last submission is taken as the price.
StoredPrice(o) == IF LinesOf(o) = {} THEN {} ELSE {orders[o].total}

\* priceOrder: what an order costs by its lines; it needs at least one.
PriceOrder(o) == IF LinesOf(o) = {} THEN {} ELSE Int64(OrderCost(o))

OrderedQty(o)  == MapThenSumSet(LAMBDA l : lines[l].qty, LinesOf(o))
ReceivedQty(o) == MapThenSumSet(LAMBDA l : lines[l].recv, LinesOf(o))

\* The status the receipts of an order call for.
DerivedStatus(o) ==
  IF OrderedQty(o) > 0 /\ ReceivedQty(o) >= OrderedQty(o)
  THEN "received" ELSE "partially_received"

-----------------------------------------------------------------------------
(* Requests in flight.  A request is idle, or about to run the statement    *)
(* its pc names.                                                           *)

PCs == {"idle", "update", "setStatus", "record", "append", "parent", "lineDelete",
        "sync", "sum", "derive", "decide"}

Request == [pc: PCs, user: Users \cup {NoUser}, por: 0..MaxOrders,
            poc: 0..MaxLines, status: Status \cup {Keep},
            payment: Payment \cup {Keep}, before: Snapshot, after: Snapshot,
            limit: Limits \cup {0}]

Idle == [pc |-> "idle", user |-> NoUser, por |-> 0, poc |-> 0, status |-> Keep,
         payment |-> Keep, before |-> NoSnapshot, after |-> NoSnapshot,
         limit |-> 0]

AllIdle == \A r \in Requests : req[r] = Idle

\* A request arrives.  The two bounds are the model's, not the code's.
Begin(r) ==
  /\ req[r] = Idle
  /\ started < MaxRequests
  /\ Cardinality({q \in Requests : req[q] # Idle}) < MaxInFlight
  /\ started' = started + 1

Goto(r, pc) == req' = [req EXCEPT ![r].pc = pc]
Finish(r)   == req' = [req EXCEPT ![r] = Idle]

-----------------------------------------------------------------------------
(* The database the program opens: empty, or holding orders that Insert     *)
(* and its history row left behind.                                        *)

LoadedOrder(s, u) ==
  [live |-> TRUE, status |-> s, payment |-> "unpaid", total |-> 0, user |-> u]

Init ==
  /\ users \in [Users -> [live: {TRUE}, limit: Limits]]
  /\ \E st \in [1..LoadedOrders -> LoadedStatuses], u \in Users :
       /\ orders = [o \in Orders |->
            IF o <= LoadedOrders THEN LoadedOrder(st[o], u) ELSE NoOrder]
       /\ history = [o \in Orders |->
            IF o <= LoadedOrders
            THEN << [previous |-> "", status |-> st[o], payment |-> "unpaid",
                     user |-> u] >>
            ELSE << >>]
  /\ \E q \in [1..LoadedLines -> Quantities], p \in [1..LoadedLines -> Prices] :
       lines = [l \in Lines |->
         IF l <= LoadedLines
         THEN [live |-> TRUE, por |-> 1, qty |-> q[l], price |-> p[l], recv |-> 0]
         ELSE NoLine]
  /\ porSeq = LoadedOrders
  /\ pocSeq = LoadedLines
  /\ req = [r \in Requests |-> Idle]
  /\ decisions = [o \in Orders |-> << >>]
  /\ started = 0
  /\ faults = 0

-----------------------------------------------------------------------------
(* Generic table writes of purchase_orders: Insert, Update and Delete.      *)

\* Mutant: the guard is forgotten.
NoGuard(s) == TRUE

\* guardDecidedStatus: approved and rejected are not written as a column.
GuardDecidedStatus(s) == s \notin DecidedStatuses

\* Insert: the row; usr_id is the sender and must exist (foreign key).  The
\* snapshot before an insert is empty.
InsertOrder(r) ==
  \E u \in Users, s \in Statuses \cup {""}, p \in Payments \cup {""} :
    /\ Begin(r)
    /\ porSeq < MaxOrders
    /\ users[u].live
    /\ GuardDecidedStatus(s)
    /\ porSeq' = porSeq + 1
    /\ orders' = [orders EXCEPT ![porSeq + 1] =
         [live |-> TRUE, status |-> s, payment |-> p, total |-> 0, user |-> u]]
    /\ req' = [req EXCEPT ![r] =
         [Idle EXCEPT !.pc = "record", !.user = u, !.por = porSeq + 1]]
    /\ UNCHANGED <<lines, history, users, pocSeq, decisions, faults>>

\* Update, first statement: the snapshot before the write.
StartUpdateOrder(r) ==
  \E u \in Users, o \in 1..porSeq, s \in Statuses \cup {"", Keep},
     p \in Payments \cup {"", Keep} :
    /\ Begin(r)
    /\ GuardDecidedStatus(s)
    /\ req' = [req EXCEPT ![r] =
         [Idle EXCEPT !.pc = "update", !.user = u, !.por = o, !.status = s,
                      !.payment = p, !.before = PurchaseOrderSnapshot(o)]]
    /\ UNCHANGED <<dbVars, decisions, faults>>

Written(old, new) == IF new = Keep THEN old ELSE new

\* The rows after UPDATE purchase_orders SET the columns of r that are given.
OrdersWrittenBy(r) ==
  LET o == req[r].por IN
  IF orders[o].live
  THEN [orders EXCEPT
         ![o].status  = Written(orders[o].status, req[r].status),
         ![o].payment = Written(orders[o].payment, req[r].payment)]
  ELSE orders

\* Update, second statement: no row means ErrNoRows and no history.
UpdateOrder(r) ==
  /\ req[r].pc = "update"
  /\ orders' = OrdersWrittenBy(r)
  /\ IF orders[req[r].por].live THEN Goto(r, "record") ELSE Finish(r)
  /\ UNCHANGED <<lines, history, users, porSeq, pocSeq, decisions, started, faults>>

\* Delete: the lines and the history rows go with the order (ON DELETE CASCADE).
\* A deletion that a stock move's reference to the order refuses changes nothing.
DeleteOrder(r) ==
  \E u \in Users, o \in 1..porSeq :
    /\ Begin(r)
    /\ orders[o].live
    /\ orders' = [orders EXCEPT ![o] = NoOrder]
    /\ lines' = [l \in Lines |->
         IF lines[l].live /\ lines[l].por = o THEN NoLine ELSE lines[l]]
    /\ history' = [history EXCEPT ![o] = << >>]
    /\ UNCHANGED <<users, porSeq, pocSeq, req, decisions, faults>>

-----------------------------------------------------------------------------
(* SetPOStatus: a status change, a payment tag change, or both.             *)

\* Mutant: any status of the lifecycle is accepted, a decided one too.
SetPOStatusUnchecked(s, p) ==
  /\ s # "" \/ p # ""
  /\ s # "" => s \in POStatusOptions
  /\ p # "" => p \in PaymentStatusOptions

SetPOStatusValid(s, p) ==
  /\ s # "" \/ p # ""
  /\ s # "" => s \in POStatusOptions
  /\ s \notin DecidedStatuses
  /\ p # "" => p \in PaymentStatusOptions

KeepIfEmpty(x) == IF x = "" THEN Keep ELSE x

StartSetPOStatus(r) ==
  \E u \in Users, o \in 1..porSeq, s \in StatusRequests, p \in PaymentRequests :
    /\ Begin(r)
    /\ SetPOStatusValid(s, p)
    /\ orders[o].live
    /\ req' = [req EXCEPT ![r] =
         [Idle EXCEPT !.pc = "setStatus", !.user = u, !.por = o,
                      !.status = KeepIfEmpty(s), !.payment = KeepIfEmpty(p),
                      !.before = PurchaseOrderSnapshot(o)]]
    /\ UNCHANGED <<dbVars, decisions, faults>>

\* The number of rows written is not looked at here.
SetPOStatus(r) ==
  /\ req[r].pc = "setStatus"
  /\ orders' = OrdersWrittenBy(r)
  /\ Goto(r, "record")
  /\ UNCHANGED <<lines, history, users, porSeq, pocSeq, decisions, started, faults>>

-----------------------------------------------------------------------------
(* recordPOStatusChange: read the order again, append a row if it moved.    *)

\* Mutant: one row per status, the latest.
UpsertHistoryRow(o, row) ==
  [history EXCEPT ![o] = Append(SelectSeq(@, LAMBDA h : h.status # row.status), row)]

AddHistoryRow(o, row) == [history EXCEPT ![o] = Append(@, row)]

\* Mutant: only the status is compared.
StatusMoved(before, after) == after.status # before.status

Moved(before, after) ==
  \/ after.status # before.status
  \/ after.payment # before.payment

RecordPOStatusChange(r) ==
  /\ req[r].pc = "record"
  /\ LET o == req[r].por
         after == PurchaseOrderSnapshot(o)
     IN IF orders[o].live /\ Moved(req[r].before, after)
        THEN req' = [req EXCEPT ![r].pc = "append", ![r].after = after]
        ELSE Finish(r)
  /\ UNCHANGED <<dbVars, decisions, started, faults>>

\* The history row of request r; it fails when the order or the acting user
\* is gone (foreign keys), and the write before it stays.
AppendHistory(r) ==
  /\ req[r].pc = "append"
  /\ LET o == req[r].por IN
     history' = IF orders[o].live /\ users[req[r].user].live
                THEN AddHistoryRow(o, [previous |-> req[r].before.status,
                                       status   |-> req[r].after.status,
                                       payment  |-> req[r].after.payment,
                                       user     |-> req[r].user])
                ELSE history
  /\ Finish(r)
  /\ UNCHANGED <<orders, lines, users, porSeq, pocSeq, decisions, started, faults>>

-----------------------------------------------------------------------------
(* Generic table writes of po_components, and the receipt status they        *)
(* derive: Insert, Update and Delete of a line, then syncPOReceiptStatus.   *)

LineRequest(u, l, pc) == [Idle EXCEPT !.pc = pc, !.user = u, !.poc = l]

InsertLine(r) ==
  \E u \in Users, o \in 1..porSeq, q \in Quantities, p \in Prices, n \in Receipts :
    /\ Begin(r)
    /\ pocSeq < MaxLines
    /\ orders[o].live
    /\ pocSeq' = pocSeq + 1
    /\ lines' = [lines EXCEPT ![pocSeq + 1] =
         [live |-> TRUE, por |-> o, qty |-> q, price |-> p, recv |-> n]]
    /\ req' = [req EXCEPT ![r] = LineRequest(u, pocSeq + 1, "parent")]
    /\ UNCHANGED <<orders, history, users, porSeq, decisions, faults>>

\* Any of the columns may be given, por_id too: a line can change its order.
UpdateLine(r) ==
  \E u \in Users, l \in 1..pocSeq, o \in 1..porSeq, q \in Quantities,
     p \in Prices, n \in Receipts :
    /\ Begin(r)
    /\ lines[l].live
    /\ orders[o].live
    /\ lines' = [lines EXCEPT ![l] =
         [live |-> TRUE, por |-> o, qty |-> q, price |-> p, recv |-> n]]
    /\ req' = [req EXCEPT ![r] = LineRequest(u, l, "parent")]
    /\ UNCHANGED <<orders, history, users, porSeq, pocSeq, decisions, faults>>

\* Mutant: a line that is gone is read again and again.
RereadLineParent(r) ==
  /\ req[r].pc = "parent"
  /\ LET l == req[r].poc IN
     IF lines[l].live
     THEN req' = [req EXCEPT ![r].pc = "sync", ![r].por = lines[l].por]
     ELSE UNCHANGED req
  /\ UNCHANGED <<dbVars, decisions, started, faults>>

\* afterWrite: the order of the line, read after the line was written.
ReadLineParent(r) ==
  /\ req[r].pc = "parent"
  /\ LET l == req[r].poc IN
     IF lines[l].live
     THEN req' = [req EXCEPT ![r].pc = "sync", ![r].por = lines[l].por]
     ELSE Finish(r)
  /\ UNCHANGED <<dbVars, decisions, started, faults>>

\* Delete, first statement: the order of the line, read before it is deleted.
StartDeleteLine(r) ==
  \E u \in Users, l \in 1..pocSeq :
    /\ Begin(r)
    /\ lines[l].live
    /\ req' = [req EXCEPT ![r] =
         [LineRequest(u, l, "lineDelete") EXCEPT !.por = lines[l].por]]
    /\ UNCHANGED <<dbVars, decisions, faults>>

\* Mutant: the order's receipt status is not derived again.
DeleteLineOnly(r) ==
  /\ req[r].pc = "lineDelete"
  /\ lines' = [lines EXCEPT ![req[r].poc] = NoLine]
  /\ Finish(r)
  /\ UNCHANGED <<orders, history, users, porSeq, pocSeq, decisions, started, faults>>

\* Delete, second statement; a line already gone ends with ErrNoRows.
DeleteLine(r) ==
  /\ req[r].pc = "lineDelete"
  /\ lines' = [lines EXCEPT ![req[r].poc] = NoLine]
  /\ IF lines[req[r].poc].live THEN Goto(r, "sync") ELSE Finish(r)
  /\ UNCHANGED <<orders, history, users, porSeq, pocSeq, decisions, started, faults>>

\* Mutant: any order that is not closed.
MovedUnlessClosed(status) == status \notin {"closed", "cancelled"}

MovedByReceipts(status) == status \in POReceiptStatuses

\* syncPOReceiptStatus, first statement: the order's status.
SyncSnapshot(r) ==
  /\ req[r].pc = "sync"
  /\ LET o == req[r].por IN
     IF orders[o].live /\ MovedByReceipts(orders[o].status)
     THEN req' = [req EXCEPT ![r].pc = "sum", ![r].before = PurchaseOrderSnapshot(o)]
     ELSE Finish(r)
  /\ UNCHANGED <<dbVars, decisions, started, faults>>

\* syncPOReceiptStatus, second statement: the quantities of the lines.
SyncSum(r) ==
  /\ req[r].pc = "sum"
  /\ LET o == req[r].por IN
     IF ReceivedQty(o) > 0 /\ DerivedStatus(o) # req[r].before.status
     THEN req' = [req EXCEPT ![r].pc = "derive", ![r].status = DerivedStatus(o)]
     ELSE Finish(r)
  /\ UNCHANGED <<dbVars, decisions, started, faults>>

\* syncPOReceiptStatus, third statement: the status it decided on, whatever
\* the order's status is by now.
SyncDerive(r) ==
  /\ req[r].pc = "derive"
  /\ orders' = OrdersWrittenBy(r)
  /\ Goto(r, "record")
  /\ UNCHANGED <<lines, history, users, porSeq, pocSeq, decisions, started, faults>>

-----------------------------------------------------------------------------
(* The signing workflow.                                                   *)

\* SubmitPurchaseOrder, one transaction: a draft is priced and parked.
SubmitPurchaseOrder(r) ==
  \E u \in Users, o \in 1..porSeq :
    /\ Begin(r)
    /\ orders[o].live
    /\ orders[o].status \in {"", "draft"}
    /\ users[u].live
    /\ \E total \in PriceOrder(o) :
         orders' = [orders EXCEPT ![o].status = "pending_approval", ![o].total = total]
    /\ history' = AddHistoryRow(o,
         [previous |-> orders[o].status, status |-> "pending_approval",
          payment |-> orders[o].payment, user |-> u])
    /\ UNCHANGED <<lines, users, porSeq, pocSeq, req, decisions, faults>>

\* ApprovalLimit: no row, no limit and a negative limit are no authority.
ApprovalLimit(u) == IF users[u].live THEN users[u].limit ELSE 0

\* DecidePurchaseOrder reads the limit before its transaction begins.
StartDecidePurchaseOrder(r) ==
  \E u \in Users, o \in 1..porSeq :
    /\ Begin(r)
    /\ req' = [req EXCEPT ![r] =
         [Idle EXCEPT !.pc = "decide", !.user = u, !.por = o,
                      !.limit = ApprovalLimit(u)]]
    /\ UNCHANGED <<dbVars, decisions, faults>>

\* What the transaction requires of the order, its cost and the limit.
\* Mutant: only a rejected order is out of reach.
DecidableUnlessRejected(status) == status # "rejected"

Decidable(status) == status \in {"", "draft", "pending_approval"}
WithinLimit(total, limit) == limit > 0 /\ total <= limit

\* The transaction: price the order, check the limit, write status and total,
\* append the history row and commit; the answer carries total and limit.
DecidePurchaseOrder(r) ==
  LET o == req[r].por
      u == req[r].user
      limit == req[r].limit
  IN
  /\ req[r].pc = "decide"
  /\ orders[o].live
  /\ Decidable(orders[o].status)
  /\ users[u].live
  /\ \E total \in PriceOrder(o), decided \in DecidedStatuses :
       /\ WithinLimit(total, limit)
       /\ orders' = [orders EXCEPT ![o].status = decided, ![o].total = total]
       /\ history' = AddHistoryRow(o,
            [previous |-> orders[o].status, status |-> decided,
             payment |-> orders[o].payment, user |-> u])
       /\ decisions' = [decisions EXCEPT ![o] = Append(@,
            [user |-> u, status |-> decided, total |-> total, limit |-> limit])]
  /\ Finish(r)
  /\ UNCHANGED <<lines, users, porSeq, pocSeq, started, faults>>

\* The transaction rolled back: one of its checks, or the history row, failed.
RefuseDecision(r) ==
  LET o == req[r].por IN
  /\ req[r].pc = "decide"
  /\ \/ ~orders[o].live
     \/ ~Decidable(orders[o].status)
     \/ ~users[req[r].user].live
     \/ PriceOrder(o) = {}
     \/ \E total \in PriceOrder(o) : ~WithinLimit(total, req[r].limit)
  /\ Finish(r)
  /\ UNCHANGED <<dbVars, decisions, started, faults>>

-----------------------------------------------------------------------------
(* What an administrator does to the users table, a single statement each.  *)

SetApprovalLimit(r) ==
  \E u \in Users, limit \in Limits :
    /\ Begin(r)
    /\ users[u].live
    /\ users' = [users EXCEPT ![u].limit = limit]
    /\ UNCHANGED <<orders, lines, history, porSeq, pocSeq, req, decisions, faults>>

\* A user no row points to can be deleted; its sessions live on.
DeleteUser(r) ==
  \E u \in DeletableUsers :
    /\ Begin(r)
    /\ users[u].live
    /\ \A o \in Orders :
         /\ orders[o].user # u
         /\ \A i \in DOMAIN history[o] : history[o][i].user # u
    /\ users' = [users EXCEPT ![u] = [live |-> FALSE, limit |-> 0]]
    /\ UNCHANGED <<orders, lines, history, porSeq, pocSeq, req, decisions, faults>>

-----------------------------------------------------------------------------
(* Faults.                                                                 *)

\* A request that stops between two statements: its context is cancelled (the
\* client hung up) or a statement fails.  What it wrote stays.
Abort(r) ==
  /\ req[r] # Idle
  /\ faults < MaxFaults
  /\ faults' = faults + 1
  /\ Finish(r)
  /\ UNCHANGED <<dbVars, decisions, started>>

\* migratePOStatuses: the statuses older versions wrote.
MigratedStatus(s) ==
  CASE s = "sent" -> "issued"
    [] s \in {"prepared", "shipped"} -> "confirmed"
    [] s = "delivered" -> "received"
    [] s \in {"paid", "complete"} -> "closed"
    [] s = "inactive" -> "cancelled"
    [] OTHER -> s

MigratedPayment(s, p) ==
  CASE s = "paid" -> "paid"
    [] s # "paid" /\ p = "" -> "unpaid"
    [] OTHER -> p

\* The program stops (requests are lost where they stand) and starts again on
\* the same database, which it migrates before it serves.
Restart ==
  /\ faults < MaxFaults
  /\ faults' = faults + 1
  /\ req' = [r \in Requests |-> Idle]
  /\ orders' = [o \in Orders |->
       IF orders[o].live
       THEN [orders[o] EXCEPT
              !.status  = MigratedStatus(orders[o].status),
              !.payment = MigratedPayment(orders[o].status, orders[o].payment)]
       ELSE orders[o]]
  /\ UNCHANGED <<lines, history, users, porSeq, pocSeq, decisions, started>>

-----------------------------------------------------------------------------
(* A request of a started operation goes on to its next statement.          *)
Continue(r) ==
  \/ UpdateOrder(r) \/ SetPOStatus(r)
  \/ RecordPOStatusChange(r) \/ AppendHistory(r)
  \/ ReadLineParent(r) \/ DeleteLine(r)
  \/ SyncSnapshot(r) \/ SyncSum(r) \/ SyncDerive(r)
  \/ DecidePurchaseOrder(r) \/ RefuseDecision(r)

Start(r) ==
  \/ InsertOrder(r) \/ StartUpdateOrder(r) \/ DeleteOrder(r)
  \/ StartSetPOStatus(r)
  \/ InsertLine(r) \/ UpdateLine(r) \/ StartDeleteLine(r)
  \/ SubmitPurchaseOrder(r) \/ StartDecidePurchaseOrder(r)
  \/ SetApprovalLimit(r) \/ DeleteUser(r)

\* With no request in flight the server waits for the next one.
AwaitRequest == AllIdle /\ UNCHANGED vars

Next ==
  \/ \E r \in Requests : Start(r) \/ Continue(r) \/ Abort(r)
  \/ Restart
  \/ AwaitRequest

Spec == Init /\ [][Next]_vars

\* A request that was started runs on: database/sql hands the connection out
\* in the order of the requests for it, and no statement waits for a client.
Fairness == \A r \in Requests : WF_vars(Continue(r))

FairSpec == Spec /\ Fairness

-----------------------------------------------------------------------------
(* Correctness.                                                            *)

TypeOK ==
  /\ orders \in [Orders -> Order]
  /\ lines \in [Lines -> Line]
  /\ history \in [Orders -> Seq(HistoryRow)]
  /\ users \in [Users -> [live: BOOLEAN, limit: Limits \cup {0}]]
  /\ porSeq \in 0..MaxOrders
  /\ pocSeq \in 0..MaxLines
  /\ req \in [Requests -> Request]
  /\ decisions \in [Orders -> Seq(Decision)]

\* An order is approved or rejected only on the strength of a decision: the
\* last decision answered for it set that status, priced the order at the total
\* it still carries, and had authority for that total.  Every other path to the
\* two statuses (insert, update, SetPOStatus, receipts, the status migration)
\* has to be closed for this, at every interleaving and after every fault.
SignedWithinLimit ==
  \A o \in Orders : orders[o].status \in DecidedStatuses =>
    LET n == Len(decisions[o]) IN
    /\ n > 0
    /\ decisions[o][n].status = orders[o].status
    /\ decisions[o][n].total = orders[o].total
    /\ WithinLimit(decisions[o][n].total, decisions[o][n].limit)

\* Every decision that was answered is in the history of its order, as often as
\* it was made (nothing another request or a crash does can lose or overwrite
\* one): per user and outcome, no fewer rows than decisions.
DecisionsAreRecorded ==
  \A o \in Orders : orders[o].live =>
    \A u \in Users, s \in DecidedStatuses :
      Cardinality({i \in DOMAIN decisions[o] :
                     decisions[o][i].user = u /\ decisions[o][i].status = s})
      <= Cardinality({i \in DOMAIN history[o] :
                        history[o][i].user = u /\ history[o][i].status = s})

\* The signing control as a whole: seen through the standing of each order and
\* the decisions answered, the store does what SigningControl says and no more.
Standing == [o \in Orders |->
  IF orders[o].status \in DecidedStatuses THEN orders[o].status ELSE "open"]

Signing == INSTANCE SigningControl WITH standing <- Standing

ImplementsSigningControl == Signing!Spec

\* The rows of an order that say it became approved or rejected.
DecidedRows(o) ==
  {i \in DOMAIN history[o] : /\ history[o][i].status \in DecidedStatuses
                             /\ history[o][i].previous # history[o][i].status}

\* One decision, one row: no row says an order became approved or rejected
\* but the row of a decision, and its user is the one who decided.
OneDecisionOneRow ==
  \A o \in Orders : orders[o].live =>
    /\ Cardinality(DecidedRows(o)) = Len(decisions[o])
    /\ \A i \in DecidedRows(o) : \E j \in DOMAIN decisions[o] :
         /\ decisions[o][j].status = history[o][i].status
         /\ decisions[o][j].user = history[o][i].user

\* Whenever no request is under way, the history of an order tells its whole
\* story: each row starts from the status the row before it left, and the last
\* row is the order's status and payment tag of now.
HistoryComplete ==
  AllIdle => \A o \in Orders : orders[o].live =>
    LET rows == history[o] IN
    /\ \A i \in 1..Len(rows) - 1 : rows[i + 1].previous = rows[i].status
    /\ rows # << >> =>
         /\ rows[1].previous = ""
         /\ rows[Len(rows)].status = orders[o].status
         /\ rows[Len(rows)].payment = orders[o].payment
    /\ rows = << >> => PurchaseOrderSnapshot(o) = NoSnapshot

\* Deriving a status from receipts only moves an order that is in the
\* fulfilment part of the lifecycle at that moment.
DerivationSparesOthers ==
  [][\A r \in Requests :
       /\ req[r].pc = "derive" /\ req'[r].pc = "record"
       /\ orders' # orders
       => orders[req[r].por].status \in POReceiptStatuses]_vars

\* When the write of a line is over and nothing else is under way, its order,
\* if it is in the fulfilment part of the lifecycle and something was received,
\* has the status its lines call for.
ReceiptStatusFresh ==
  [][\A r \in Requests, o \in Orders :
       /\ req[r].poc # 0 /\ req[r].por = o
       /\ AllIdle' /\ faults' = faults
       /\ orders'[o].live
       /\ orders'[o].status \in POReceiptStatuses
       /\ ReceivedQty(o)' > 0
       => orders'[o].status = DerivedStatus(o)']_vars

\* An order whose cost exceeds the limit of the one who decides is not decided.
CostWithinLimit ==
  [][\A o \in Orders : decisions'[o] # decisions[o] =>
       OrderCost(o) <= decisions'[o][Len(decisions'[o])].limit]_vars

\* Every request that is started ends.
RequestsFinish == \A r \in Requests : req[r] # Idle ~> req[r] = Idle
=============================================================================
