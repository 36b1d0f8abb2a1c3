------------------------ MODULE PurchaseOrdersProofs ------------------------
(***************************************************************************)
(* Theorems about PurchaseOrders, for every value of its constants: first   *)
(* what holds of requests that interleave, then what needs one at a time.   *)
(***************************************************************************)
EXTENDS PurchaseOrders, FiniteSetTheorems, TLAPS

\* What a request's program counter says of its locals: the ids it is about to
\* use are ids of rows, and somebody sent it.  A line in the table has an order.
WellFormed(q) ==
  /\ q.pc # "idle" => q.user \in Users
  /\ q.pc \notin {"idle", "parent"} => q.por \in Orders
  /\ q.pc \in {"parent", "lineDelete"} => q.poc \in Lines

RequestsWellFormed == \A r \in Requests : WellFormed(req[r])

LinesHaveOrders == \A l \in Lines : lines[l].live => lines[l].por \in Orders

TypeInv == TypeOK /\ RequestsWellFormed /\ LinesHaveOrders

-----------------------------------------------------------------------------
(* Constants and records have their types.                                  *)

LEMMA ZeroTotal == 0 \in Totals
BY BoundsAssumption DEF Totals

LEMMA Texts ==
  /\ "" \in Status /\ "pending_approval" \in Status
  /\ "partially_received" \in Status /\ "received" \in Status
  /\ POStatusOptions \subseteq Status /\ DecidedStatuses \subseteq Status
  /\ LoadedStatuses \subseteq Status /\ Statuses \subseteq Status
  /\ "" \in Payment /\ "unpaid" \in Payment /\ "paid" \in Payment
  /\ PaymentStatusOptions \subseteq Payment /\ Payments \subseteq Payment
BY DEF Status, Payment, POStatusOptions, PaymentStatusOptions, DecidedStatuses

LEMMA NoOrderType == NoOrder \in Order
BY ZeroTotal, Texts DEF NoOrder, Order

LEMMA NoLineType == NoLine \in Line /\ ~NoLine.live
BY BoundsAssumption DEF NoLine, Line

LEMMA IdleType == Idle \in Request
<1>1. NoSnapshot \in Snapshot
  BY Texts DEF NoSnapshot, Snapshot
<1>2. "idle" \in PCs /\ 0 \in 0..MaxOrders /\ 0 \in 0..MaxLines
  BY BoundsAssumption DEF PCs
<1>3. QED
  BY <1>1, <1>2 DEF Idle, Request

LEMMA SnapshotType ==
  ASSUME TypeOK, NEW o \in Orders
  PROVE  PurchaseOrderSnapshot(o) \in Snapshot
BY Texts DEF TypeOK, PurchaseOrderSnapshot, Snapshot, NoSnapshot, Order

LEMMA PriceType == ASSUME NEW o PROVE PriceOrder(o) \subseteq Totals
BY BoundsAssumption DEF PriceOrder, Int64, Totals

LEMMA RowType ==
  ASSUME TypeOK, NEW o \in Orders, NEW row \in HistoryRow
  PROVE  AddHistoryRow(o, row) \in [Orders -> Seq(HistoryRow)]
BY DEF TypeOK, AddHistoryRow

LEMMA SingletonSeq == ASSUME NEW S, NEW x \in S PROVE << x >> \in Seq(S)
OBVIOUS

LEMMA ColumnsType ==
  ASSUME NEW table \in [Orders -> Order], NEW o \in Orders,
         NEW s \in Status, NEW p \in Payment
  PROVE  [table EXCEPT ![o].status = s, ![o].payment = p] \in [Orders -> Order]
BY DEF Order

LEMMA WrittenType ==
  ASSUME TypeOK, NEW r \in Requests
  PROVE  OrdersWrittenBy(r) \in [Orders -> Order]
<1>1. ASSUME NEW o \in Orders, NEW s \in Status \cup {Keep}, NEW p \in Payment \cup {Keep}
      PROVE  /\ Written(orders[o].status, s) \in Status
             /\ Written(orders[o].payment, p) \in Payment
  BY DEF TypeOK, Order, Written
<1>2. req[r].status \in Status \cup {Keep} /\ req[r].payment \in Payment \cup {Keep}
  BY DEF TypeOK, Request
<1>3. CASE req[r].por \in Orders
  <2> DEFINE o == req[r].por
             s == Written(orders[o].status, req[r].status)
             p == Written(orders[o].payment, req[r].payment)
  <2>1. o \in Orders /\ s \in Status /\ p \in Payment /\ orders \in [Orders -> Order]
    BY <1>1, <1>2, <1>3 DEF TypeOK
  <2>2. OrdersWrittenBy(r) = IF orders[o].live
                             THEN [orders EXCEPT ![o].status = s, ![o].payment = p]
                             ELSE orders
    BY DEF OrdersWrittenBy
  <2> HIDE DEF o, s, p
  <2>3. [orders EXCEPT ![o].status = s, ![o].payment = p] \in [Orders -> Order]
    BY <2>1, ColumnsType
  <2>4. QED
    BY <2>1, <2>2, <2>3, Zenon
<1>4. CASE req[r].por \notin Orders
  BY <1>4 DEF TypeOK, OrdersWrittenBy
<1>5. QED
  BY <1>3, <1>4

-----------------------------------------------------------------------------
(* The initial state.                                                      *)

LEMMA InitType == Init => TypeInv
<1> SUFFICES ASSUME Init PROVE TypeInv
  OBVIOUS
<1>1. PICK st \in [1..LoadedOrders -> LoadedStatuses], u \in Users :
        /\ orders = [o \in Orders |->
             IF o <= LoadedOrders THEN LoadedOrder(st[o], u) ELSE NoOrder]
        /\ history = [o \in Orders |->
             IF o <= LoadedOrders
             THEN << [previous |-> "", status |-> st[o], payment |-> "unpaid",
                      user |-> u] >>
             ELSE << >>]
  BY DEF Init
<1>2. PICK q \in [1..LoadedLines -> Quantities], p \in [1..LoadedLines -> Prices] :
        lines = [l \in Lines |->
          IF l <= LoadedLines
          THEN [live |-> TRUE, por |-> 1, qty |-> q[l], price |-> p[l], recv |-> 0]
          ELSE NoLine]
  BY DEF Init
<1>3. ASSUME NEW o \in Orders, o <= LoadedOrders
      PROVE  o \in 1..LoadedOrders /\ st[o] \in LoadedStatuses
  BY <1>3, BoundsAssumption DEF Orders
<1>4. orders \in [Orders -> Order]
  <2>1. ASSUME NEW s \in LoadedStatuses PROVE LoadedOrder(s, u) \in Order
    BY ZeroTotal, Texts DEF LoadedOrder, Order
  <2>2. QED
    BY <1>1, <1>3, <2>1, NoOrderType
<1>5. history \in [Orders -> Seq(HistoryRow)]
  <2>1. ASSUME NEW s \in LoadedStatuses
        PROVE  [previous |-> "", status |-> s, payment |-> "unpaid", user |-> u] \in HistoryRow
    BY Texts DEF HistoryRow
  <2>2. ASSUME NEW o \in Orders PROVE history[o] \in Seq(HistoryRow)
    <3>1. CASE o <= LoadedOrders
      <4>1. history[o] = << [previous |-> "", status |-> st[o], payment |-> "unpaid",
                             user |-> u] >>
        BY <1>1, <3>1
      <4>2. [previous |-> "", status |-> st[o], payment |-> "unpaid",
             user |-> u] \in HistoryRow
        BY <1>3, <2>1, <3>1
      <4>3. QED
        BY <4>1, <4>2, SingletonSeq, Zenon
    <3>2. CASE ~(o <= LoadedOrders)
      <4>1. history[o] = << >>
        BY <1>1, <3>2
      <4>2. QED
        BY <4>1
    <3>3. QED
      BY <3>1, <3>2
  <2>3. QED
    BY <1>1, <2>2
<1>6. ASSUME NEW l \in Lines
      PROVE  lines[l] \in Line /\ (lines[l].live => lines[l].por \in Orders)
  <2>1. CASE l <= LoadedLines
    <3>1. l \in 1..LoadedLines /\ 1 \in Orders
      BY <2>1, BoundsAssumption DEF Lines, Orders
    <3>2. q[l] \in Int /\ p[l] \in Int
      BY <3>1, InputAssumption
    <3>3. QED
      BY <1>2, <2>1, <3>1, <3>2 DEF Line, Orders
  <2>2. CASE ~(l <= LoadedLines)
    BY <1>2, <2>2, NoLineType
  <2>3. QED
    BY <2>1, <2>2
<1>7. lines \in [Lines -> Line]
  BY <1>2, <1>6
<1>8. users \in [Users -> [live: BOOLEAN, limit: Limits \cup {0}]]
  <2>1. users \in [Users -> [live: {TRUE}, limit: Limits]]
    BY DEF Init
  <2>2. QED
    BY <2>1
<1>9. porSeq \in 0..MaxOrders /\ pocSeq \in 0..MaxLines
  BY BoundsAssumption DEF Init
<1>10. req = [r \in Requests |-> Idle] /\ decisions = [o \in Orders |-> << >>]
  BY DEF Init
<1>11. req \in [Requests -> Request] /\ decisions \in [Orders -> Seq(Decision)]
  BY <1>10, IdleType
<1>12. \A r \in Requests : req[r].pc = "idle"
  BY <1>10 DEF Idle
<1>13. QED
  BY <1>4, <1>5, <1>6, <1>7, <1>8, <1>9, <1>11, <1>12
  DEF TypeInv, TypeOK, RequestsWellFormed, WellFormed, LinesHaveOrders

-----------------------------------------------------------------------------
(* Steps that only move one request: its new locals q must be in order.     *)

LEMMA RequestStep ==
  ASSUME TypeInv, NEW r \in Requests, NEW q \in Request, WellFormed(q),
         req' = [req EXCEPT ![r] = q]
  PROVE  req' \in [Requests -> Request] /\ RequestsWellFormed'
<1>1. req \in [Requests -> Request] /\ \A x \in Requests : WellFormed(req[x])
  BY DEF TypeInv, TypeOK, RequestsWellFormed
<1>2. ASSUME NEW x \in Requests PROVE req'[x] \in Request /\ WellFormed(req'[x])
  BY <1>1
<1>3. req' \in [Requests -> Request]
  BY <1>1, <1>2
<1>4. QED
  BY <1>2, <1>3 DEF RequestsWellFormed, WellFormed

LEMMA OnlyRequestStep ==
  ASSUME TypeInv, NEW r \in Requests, NEW q \in Request, WellFormed(q),
         req' = [req EXCEPT ![r] = q], UNCHANGED <<dbVars, decisions>>
  PROVE  TypeInv'
BY RequestStep DEF TypeInv, TypeOK, LinesHaveOrders, dbVars

\* A request that is in order stays so when its pc moves among pcs whose
\* locals it has; it always does when it ends.
LEMMA IdleWellFormed == WellFormed(Idle)
BY DEF WellFormed, Idle

LEMMA GotoWellFormed ==
  ASSUME TypeInv, NEW r \in Requests, req[r].pc \notin {"idle", "parent"},
         NEW pc \in PCs \ {"parent", "lineDelete"}
  PROVE  /\ [req[r] EXCEPT !.pc = pc] \in Request
         /\ WellFormed([req[r] EXCEPT !.pc = pc])
BY ZenonT(30) DEF TypeInv, TypeOK, RequestsWellFormed, WellFormed, Request

\* The request of a new operation on order o: user u, the columns to write.
LEMMA OrderRequestType ==
  ASSUME NEW u \in Users, NEW o \in Orders, NEW pc \in PCs \ {"parent", "lineDelete"},
         NEW s \in Status \cup {Keep}, NEW p \in Payment \cup {Keep},
         NEW before \in Snapshot, NEW limit \in Limits \cup {0}, NEW q,
         q = [pc |-> pc, user |-> u, por |-> o, poc |-> 0, status |-> s, payment |-> p,
              before |-> before, after |-> NoSnapshot, limit |-> limit]
  PROVE  q \in Request /\ WellFormed(q)
<1>1. NoSnapshot \in Snapshot
  BY Texts DEF NoSnapshot, Snapshot
<1>2. o \in 0..MaxOrders /\ 0 \in 0..MaxLines
  BY BoundsAssumption DEF Orders
<1>3. q \in Request
  BY <1>1, <1>2 DEF Request
<1>4. WellFormed(q)
  BY DEF WellFormed
<1>5. QED
  BY <1>3, <1>4

\* The requests of new operations on line l: of order o when it is known.
LEMMA DeleteRequestType ==
  ASSUME NEW u \in Users, NEW l \in Lines, NEW o \in Orders, NEW q,
         q = [LineRequest(u, l, "lineDelete") EXCEPT !.por = o]
  PROVE  q \in Request /\ WellFormed(q)
<1>1. q = [pc |-> "lineDelete", user |-> u, por |-> o, poc |-> l, status |-> Keep,
           payment |-> Keep, before |-> NoSnapshot, after |-> NoSnapshot, limit |-> 0]
  BY DEF LineRequest, Idle
<1>2. NoSnapshot \in Snapshot
  BY Texts DEF NoSnapshot, Snapshot
<1>3. l \in 0..MaxLines /\ o \in 0..MaxOrders /\ "lineDelete" \in PCs
  BY BoundsAssumption DEF Lines, Orders, PCs
<1>4. q \in Request
  BY <1>1, <1>2, <1>3 DEF Request
<1>5. WellFormed(q)
  BY <1>1 DEF WellFormed
<1>6. QED
  BY <1>4, <1>5

LEMMA ParentRequestType ==
  ASSUME NEW u \in Users, NEW l \in Lines, NEW q, q = LineRequest(u, l, "parent")
  PROVE  q \in Request /\ WellFormed(q)
<1>1. q = [pc |-> "parent", user |-> u, por |-> 0, poc |-> l, status |-> Keep,
           payment |-> Keep, before |-> NoSnapshot, after |-> NoSnapshot, limit |-> 0]
  BY DEF LineRequest, Idle
<1>2. NoSnapshot \in Snapshot
  BY Texts DEF NoSnapshot, Snapshot
<1>3. l \in 0..MaxLines /\ 0 \in 0..MaxOrders /\ "parent" \in PCs
  BY BoundsAssumption DEF Lines, PCs
<1>4. q \in Request
  BY <1>1, <1>2, <1>3 DEF Request
<1>5. WellFormed(q)
  BY <1>1 DEF WellFormed
<1>6. QED
  BY <1>4, <1>5

LEMMA InsertedOrders ==
  ASSUME TypeInv
  PROVE  /\ \A o \in 1..porSeq : o \in Orders
         /\ \A l \in 1..pocSeq : l \in Lines
         /\ porSeq < MaxOrders => porSeq + 1 \in Orders /\ porSeq + 1 \in 0..MaxOrders
         /\ pocSeq < MaxLines => pocSeq + 1 \in Lines /\ pocSeq + 1 \in 0..MaxLines
BY BoundsAssumption DEF TypeInv, TypeOK, Orders, Lines

\* A step that moves one request and writes rows, and one that only writes.
LEMMA WriteStep ==
  ASSUME TypeInv, NEW r \in Requests, NEW q \in Request, WellFormed(q),
         req' = [req EXCEPT ![r] = q], orders' \in [Orders -> Order],
         UNCHANGED <<lines, history, users, pocSeq, decisions>>, porSeq' \in 0..MaxOrders
  PROVE  TypeInv'
BY RequestStep DEF TypeInv, TypeOK, LinesHaveOrders

LEMMA LineStep ==
  ASSUME TypeInv, NEW r \in Requests, NEW q \in Request, WellFormed(q),
         req' = [req EXCEPT ![r] = q], lines' \in [Lines -> Line],
         pocSeq' \in 0..MaxLines, LinesHaveOrders',
         UNCHANGED <<orders, history, users, porSeq, decisions>>
  PROVE  TypeInv'
BY RequestStep DEF TypeInv, TypeOK

-----------------------------------------------------------------------------
(* Every action keeps the type invariant.                                  *)

LEMMA InsertOrderType ==
  ASSUME TypeInv, NEW r \in Requests, InsertOrder(r) PROVE TypeInv'
<1>1. PICK u \in Users, s \in Statuses \cup {""}, p \in Payments \cup {""} :
        /\ porSeq < MaxOrders
        /\ porSeq' = porSeq + 1
        /\ orders' = [orders EXCEPT ![porSeq + 1] =
             [live |-> TRUE, status |-> s, payment |-> p, total |-> 0, user |-> u]]
        /\ req' = [req EXCEPT ![r] =
             [Idle EXCEPT !.pc = "record", !.user = u, !.por = porSeq + 1]]
        /\ UNCHANGED <<lines, history, users, pocSeq, decisions>>
  BY DEF InsertOrder
<1>1a. PICK q : /\ q = [Idle EXCEPT !.pc = "record", !.user = u, !.por = porSeq + 1]
              /\ req' = [req EXCEPT ![r] = q]
  BY <1>1
<1>2. porSeq + 1 \in Orders /\ porSeq' \in 0..MaxOrders
  BY <1>1, InsertedOrders
<1>3. [live |-> TRUE, status |-> s, payment |-> p, total |-> 0, user |-> u] \in Order
  BY ZeroTotal, Texts DEF Order
<1>4. orders' \in [Orders -> Order]
  BY <1>1, <1>3 DEF TypeInv, TypeOK
<1>5. q = [pc |-> "record", user |-> u, por |-> porSeq + 1, poc |-> 0, status |-> Keep,
           payment |-> Keep, before |-> NoSnapshot, after |-> NoSnapshot, limit |-> 0]
  BY <1>1a DEF Idle
<1>6. NoSnapshot \in Snapshot /\ "record" \in PCs \ {"parent", "lineDelete"}
  BY Texts DEF NoSnapshot, Snapshot, PCs
<1>7. q \in Request /\ WellFormed(q)
  BY <1>2, <1>5, <1>6, OrderRequestType
<1>8. QED
  BY <1>1, <1>1a, <1>2, <1>4, <1>7, WriteStep

LEMMA StartUpdateOrderType ==
  ASSUME TypeInv, NEW r \in Requests, StartUpdateOrder(r) PROVE TypeInv'
<1>1. PICK u \in Users, o \in 1..porSeq, s \in Statuses \cup {"", Keep},
           p \in Payments \cup {"", Keep} :
        /\ GuardDecidedStatus(s)
        /\ req' = [req EXCEPT ![r] =
             [Idle EXCEPT !.pc = "update", !.user = u, !.por = o, !.status = s,
                !.payment = p, !.before = PurchaseOrderSnapshot(o)]]
        /\ UNCHANGED <<dbVars, decisions>>
  BY DEF StartUpdateOrder
<1>1a. PICK q : /\ q = [Idle EXCEPT !.pc = "update", !.user = u, !.por = o, !.status = s,
                      !.payment = p, !.before = PurchaseOrderSnapshot(o)]
              /\ req' = [req EXCEPT ![r] = q]
  BY <1>1
<1>2. o \in Orders
  BY InsertedOrders
<1>3. PurchaseOrderSnapshot(o) \in Snapshot
  BY <1>2, SnapshotType DEF TypeInv
<1>4. q = [pc |-> "update", user |-> u, por |-> o, poc |-> 0, status |-> s, payment |-> p,
           before |-> PurchaseOrderSnapshot(o), after |-> NoSnapshot, limit |-> 0]
  BY <1>1a DEF Idle
<1>5. "update" \in PCs \ {"parent", "lineDelete"}
  BY DEF PCs
<1>6. s \in Status \cup {Keep} /\ p \in Payment \cup {Keep}
  BY Texts
<1>7. q \in Request /\ WellFormed(q)
  BY <1>2, <1>3, <1>4, <1>5, <1>6, OrderRequestType
<1>8. QED
  BY <1>1, <1>1a, <1>7, OnlyRequestStep

LEMMA StartSetPOStatusType ==
  ASSUME TypeInv, NEW r \in Requests, StartSetPOStatus(r) PROVE TypeInv'
<1>1. PICK u \in Users, o \in 1..porSeq, s \in StatusRequests, p \in PaymentRequests :
        /\ SetPOStatusValid(s, p)
        /\ req' = [req EXCEPT ![r] =
             [Idle EXCEPT !.pc = "setStatus", !.user = u, !.por = o,
                !.status = KeepIfEmpty(s), !.payment = KeepIfEmpty(p),
                !.before = PurchaseOrderSnapshot(o)]]
        /\ UNCHANGED <<dbVars, decisions>>
  BY DEF StartSetPOStatus
<1>1a. PICK q : /\ q = [Idle EXCEPT !.pc = "setStatus", !.user = u, !.por = o,
                      !.status = KeepIfEmpty(s), !.payment = KeepIfEmpty(p),
                      !.before = PurchaseOrderSnapshot(o)]
              /\ req' = [req EXCEPT ![r] = q]
  BY <1>1
<1>2. o \in Orders
  BY InsertedOrders
<1>3. PurchaseOrderSnapshot(o) \in Snapshot
  BY <1>2, SnapshotType DEF TypeInv
<1>4. KeepIfEmpty(s) \in Status \cup {Keep} /\ KeepIfEmpty(p) \in Payment \cup {Keep}
  BY <1>1, Texts DEF KeepIfEmpty, SetPOStatusValid
<1>5. q = [pc |-> "setStatus", user |-> u, por |-> o, poc |-> 0, status |-> KeepIfEmpty(s),
           payment |-> KeepIfEmpty(p), before |-> PurchaseOrderSnapshot(o),
           after |-> NoSnapshot, limit |-> 0]
  BY <1>1a DEF Idle
<1>6. "setStatus" \in PCs \ {"parent", "lineDelete"}
  BY DEF PCs
<1>7. q \in Request /\ WellFormed(q)
  BY <1>2, <1>3, <1>4, <1>5, <1>6, OrderRequestType
<1>8. QED
  BY <1>1, <1>1a, <1>7, OnlyRequestStep

LEMMA StartDecideType ==
  ASSUME TypeInv, NEW r \in Requests, StartDecidePurchaseOrder(r) PROVE TypeInv'
<1>1. PICK u \in Users, o \in 1..porSeq :
        /\ req' = [req EXCEPT ![r] =
             [Idle EXCEPT !.pc = "decide", !.user = u, !.por = o, !.limit = ApprovalLimit(u)]]
        /\ UNCHANGED <<dbVars, decisions>>
  BY DEF StartDecidePurchaseOrder
<1>1a. PICK q : /\ q = [Idle EXCEPT !.pc = "decide", !.user = u, !.por = o, !.limit = ApprovalLimit(u)]
              /\ req' = [req EXCEPT ![r] = q]
  BY <1>1
<1>2. o \in Orders
  BY InsertedOrders
<1>3. ApprovalLimit(u) \in Limits \cup {0}
  BY DEF TypeInv, TypeOK, ApprovalLimit
<1>4. q = [pc |-> "decide", user |-> u, por |-> o, poc |-> 0, status |-> Keep,
           payment |-> Keep, before |-> NoSnapshot, after |-> NoSnapshot,
           limit |-> ApprovalLimit(u)]
  BY <1>1a DEF Idle
<1>5. NoSnapshot \in Snapshot /\ "decide" \in PCs \ {"parent", "lineDelete"}
  BY Texts DEF NoSnapshot, Snapshot, PCs
<1>6. q \in Request /\ WellFormed(q)
  BY <1>2, <1>3, <1>4, <1>5, OrderRequestType
<1>7. QED
  BY <1>1, <1>1a, <1>6, OnlyRequestStep

\* The column writes of a request: UpdateOrder, SetPOStatus and SyncDerive.
LEMMA ColumnWriteType ==
  ASSUME TypeInv, NEW r \in Requests,
         UpdateOrder(r) \/ SetPOStatus(r) \/ SyncDerive(r)
  PROVE  TypeInv'
<1>1. /\ req[r].pc \in {"update", "setStatus", "derive"}
      /\ orders' = OrdersWrittenBy(r)
      /\ Goto(r, "record") \/ Finish(r)
      /\ UNCHANGED <<lines, history, users, porSeq, pocSeq, decisions>>
  BY DEF UpdateOrder, SetPOStatus, SyncDerive
<1>2. orders' \in [Orders -> Order]
  BY <1>1, WrittenType DEF TypeInv
<1>3. porSeq' \in 0..MaxOrders
  BY <1>1 DEF TypeInv, TypeOK
<1>4. CASE Finish(r)
  BY <1>1, <1>2, <1>3, <1>4, IdleType, IdleWellFormed, WriteStep DEF Finish
<1>5. CASE Goto(r, "record")
  <2>1. PICK q : q = [req[r] EXCEPT !.pc = "record"]
    OBVIOUS
  <2>2. "record" \in PCs \ {"parent", "lineDelete"} /\ req[r].pc \notin {"idle", "parent"}
    BY <1>1 DEF PCs
  <2>3. q \in Request /\ WellFormed(q)
    BY <2>1, <2>2, GotoWellFormed
  <2>4. req' = [req EXCEPT ![r] = q]
    BY <1>5, <2>1 DEF Goto, TypeInv, TypeOK
  <2>5. QED
    BY <1>1, <1>2, <1>3, <2>3, <2>4, WriteStep
<1>6. QED
  BY <1>1, <1>4, <1>5

LEMMA DeleteOrderType ==
  ASSUME TypeInv, NEW r \in Requests, DeleteOrder(r) PROVE TypeInv'
<1>1. PICK o \in 1..porSeq :
        /\ orders' = [orders EXCEPT ![o] = NoOrder]
        /\ lines' = [l \in Lines |->
             IF lines[l].live /\ lines[l].por = o THEN NoLine ELSE lines[l]]
        /\ history' = [history EXCEPT ![o] = << >>]
        /\ UNCHANGED <<users, porSeq, pocSeq, req, decisions>>
  BY DEF DeleteOrder
<1>2. orders' \in [Orders -> Order] /\ history' \in [Orders -> Seq(HistoryRow)]
  <2>1. << >> \in Seq(HistoryRow)
    OBVIOUS
  <2>2. orders \in [Orders -> Order] /\ history \in [Orders -> Seq(HistoryRow)]
    BY DEF TypeInv, TypeOK
  <2>3. QED
    BY <1>1, <2>1, <2>2, NoOrderType
<1>3. lines' \in [Lines -> Line] /\ LinesHaveOrders'
  BY <1>1, NoLineType DEF TypeInv, TypeOK, LinesHaveOrders
<1>4. QED
  BY <1>1, <1>2, <1>3 DEF TypeInv, TypeOK, RequestsWellFormed, WellFormed

\* A request that ends and leaves the tables alone.
LEMMA FinishStep ==
  ASSUME TypeInv, NEW r \in Requests, Finish(r), UNCHANGED <<dbVars, decisions>>
  PROVE  TypeInv'
BY IdleType, IdleWellFormed, OnlyRequestStep DEF Finish

LEMMA RecordType ==
  ASSUME TypeInv, NEW r \in Requests, RecordPOStatusChange(r) PROVE TypeInv'
<1> DEFINE o == req[r].por
           after == PurchaseOrderSnapshot(o)
<1>1. req[r].pc = "record" /\ UNCHANGED <<dbVars, decisions>>
  BY DEF RecordPOStatusChange
<1>2. CASE Finish(r)
  BY <1>1, <1>2, FinishStep
<1>3. CASE req' = [req EXCEPT ![r].pc = "append", ![r].after = after]
  <2>1. PICK q : q = [req[r] EXCEPT !.pc = "append", !.after = after]
    OBVIOUS
  <2>2. o \in Orders /\ req[r].user \in Users
    BY <1>1 DEF TypeInv, RequestsWellFormed, WellFormed
  <2>3. after \in Snapshot
    BY <2>2, SnapshotType DEF TypeInv
  <2>4. req[r] \in Request /\ "append" \in PCs
    BY DEF TypeInv, TypeOK, PCs
  <2> HIDE DEF after
  <2>5. q \in Request
    BY <2>1, <2>3, <2>4 DEF Request
  <2>6. q.pc = "append" /\ q.user = req[r].user /\ q.por = o
    BY <2>1, <2>4 DEF Request
  <2>7. WellFormed(q)
    BY <2>2, <2>6 DEF WellFormed
  <2>8. req' = [req EXCEPT ![r] = q]
    BY <1>3, <2>1 DEF TypeInv, TypeOK
  <2>9. QED
    BY <1>1, <2>5, <2>7, <2>8, OnlyRequestStep
<1>4. QED
  BY <1>2, <1>3 DEF RecordPOStatusChange

\* Steps that append to the history of an order.
LEMMA HistoryStep ==
  ASSUME TypeInv, history' \in [Orders -> Seq(HistoryRow)],
         orders' \in [Orders -> Order],
         req' \in [Requests -> Request], RequestsWellFormed',
         decisions' \in [Orders -> Seq(Decision)],
         UNCHANGED <<lines, users, porSeq, pocSeq>>
  PROVE  TypeInv'
BY DEF TypeInv, TypeOK, LinesHaveOrders

LEMMA FinishType ==
  ASSUME TypeInv, NEW r \in Requests, Finish(r)
  PROVE  req' \in [Requests -> Request] /\ RequestsWellFormed'
BY IdleType, IdleWellFormed, RequestStep DEF Finish

LEMMA AppendHistoryType ==
  ASSUME TypeInv, NEW r \in Requests, AppendHistory(r) PROVE TypeInv'
<1> DEFINE row == [previous |-> req[r].before.status, status |-> req[r].after.status,
                   payment |-> req[r].after.payment, user |-> req[r].user]
<1>1. req[r].pc = "append" /\ Finish(r)
      /\ UNCHANGED <<orders, lines, users, porSeq, pocSeq, decisions>>
  BY DEF AppendHistory
<1>2. history' = AddHistoryRow(req[r].por, row) \/ history' = history
  BY DEF AppendHistory
<1>3. row \in HistoryRow
  <2>1. req[r] \in Request /\ req[r].user \in Users
    BY <1>1 DEF TypeInv, TypeOK, RequestsWellFormed, WellFormed
  <2>2. QED
    BY <2>1 DEF Request, Snapshot, HistoryRow
<1>4. req[r].por \in Orders
  BY <1>1 DEF TypeInv, RequestsWellFormed, WellFormed
<1>5. AddHistoryRow(req[r].por, row) \in [Orders -> Seq(HistoryRow)]
  BY <1>3, <1>4, RowType DEF TypeInv
<1>6. history' \in [Orders -> Seq(HistoryRow)]
  BY <1>2, <1>5 DEF TypeInv, TypeOK
<1>7. QED
  BY <1>1, <1>6, FinishType, HistoryStep DEF TypeInv, TypeOK

LEMMA InsertLineType ==
  ASSUME TypeInv, NEW r \in Requests, InsertLine(r) PROVE TypeInv'
<1>1. PICK u \in Users, o \in 1..porSeq, qty \in Quantities, p \in Prices,
           n \in Receipts :
        /\ pocSeq < MaxLines
        /\ pocSeq' = pocSeq + 1
        /\ lines' = [lines EXCEPT ![pocSeq + 1] =
             [live |-> TRUE, por |-> o, qty |-> qty, price |-> p, recv |-> n]]
        /\ req' = [req EXCEPT ![r] = LineRequest(u, pocSeq + 1, "parent")]
        /\ UNCHANGED <<orders, history, users, porSeq, decisions>>
  BY DEF InsertLine
<1>1a. PICK q : /\ q = LineRequest(u, pocSeq + 1, "parent")
              /\ req' = [req EXCEPT ![r] = q]
  BY <1>1
<1>2. o \in Orders /\ pocSeq + 1 \in Lines /\ pocSeq' \in 0..MaxLines
  BY <1>1, InsertedOrders
<1>3. [live |-> TRUE, por |-> o, qty |-> qty, price |-> p, recv |-> n] \in Line
  BY <1>2, InputAssumption DEF Line, Orders
<1>4. lines' \in [Lines -> Line] /\ LinesHaveOrders'
  BY <1>1, <1>2, <1>3 DEF TypeInv, TypeOK, LinesHaveOrders
<1>5. q \in Request /\ WellFormed(q)
  BY <1>1a, <1>2, ParentRequestType
<1>6. QED
  BY <1>1, <1>1a, <1>2, <1>4, <1>5, LineStep

LEMMA UpdateLineType ==
  ASSUME TypeInv, NEW r \in Requests, UpdateLine(r) PROVE TypeInv'
<1>1. PICK u \in Users, l \in 1..pocSeq, o \in 1..porSeq, qty \in Quantities,
           p \in Prices, n \in Receipts :
        /\ lines[l].live
        /\ lines' = [lines EXCEPT ![l] =
             [live |-> TRUE, por |-> o, qty |-> qty, price |-> p, recv |-> n]]
        /\ req' = [req EXCEPT ![r] = LineRequest(u, l, "parent")]
        /\ UNCHANGED <<orders, history, users, porSeq, pocSeq, decisions>>
  BY DEF UpdateLine
<1>1a. PICK q : /\ q = LineRequest(u, l, "parent")
              /\ req' = [req EXCEPT ![r] = q]
  BY <1>1
<1>2. o \in Orders /\ l \in Lines /\ pocSeq' \in 0..MaxLines
  BY <1>1, InsertedOrders DEF TypeInv, TypeOK
<1>3. [live |-> TRUE, por |-> o, qty |-> qty, price |-> p, recv |-> n] \in Line
  BY <1>2, InputAssumption DEF Line, Orders
<1>4. lines' \in [Lines -> Line] /\ LinesHaveOrders'
  BY <1>1, <1>2, <1>3 DEF TypeInv, TypeOK, LinesHaveOrders
<1>5. q \in Request /\ WellFormed(q)
  BY <1>1a, <1>2, ParentRequestType
<1>6. QED
  BY <1>1, <1>1a, <1>2, <1>4, <1>5, LineStep

LEMMA StartDeleteLineType ==
  ASSUME TypeInv, NEW r \in Requests, StartDeleteLine(r) PROVE TypeInv'
<1>1. PICK u \in Users, l \in 1..pocSeq :
        /\ lines[l].live
        /\ req' = [req EXCEPT ![r] =
             [LineRequest(u, l, "lineDelete") EXCEPT !.por = lines[l].por]]
        /\ UNCHANGED <<dbVars, decisions>>
  BY DEF StartDeleteLine
<1>1a. PICK q : /\ q = [LineRequest(u, l, "lineDelete") EXCEPT !.por = lines[l].por]
              /\ req' = [req EXCEPT ![r] = q]
  BY <1>1
<1>2. l \in Lines /\ lines[l].por \in Orders
  BY <1>1, InsertedOrders DEF TypeInv, LinesHaveOrders
<1>3. q \in Request /\ WellFormed(q)
  BY <1>1a, <1>2, DeleteRequestType
<1>4. QED
  BY <1>1, <1>1a, <1>3, OnlyRequestStep

LEMMA ReadLineParentType ==
  ASSUME TypeInv, NEW r \in Requests, ReadLineParent(r) PROVE TypeInv'
<1> DEFINE l == req[r].poc
<1>1. req[r].pc = "parent" /\ UNCHANGED <<dbVars, decisions>>
  BY DEF ReadLineParent
<1>2. CASE Finish(r)
  BY <1>1, <1>2, FinishStep
<1>3. CASE lines[l].live /\ req' = [req EXCEPT ![r].pc = "sync", ![r].por = lines[l].por]
  <2>1. PICK q : q = [req[r] EXCEPT !.pc = "sync", !.por = lines[l].por]
    OBVIOUS
  <2>2. l \in Lines /\ lines[l].por \in Orders /\ req[r].user \in Users
    BY <1>1, <1>3 DEF TypeInv, RequestsWellFormed, WellFormed, LinesHaveOrders
  <2>3. req[r] \in Request /\ "sync" \in PCs /\ lines[l].por \in 0..MaxOrders
    BY <2>2 DEF TypeInv, TypeOK, PCs, Orders
  <2>4. q \in Request
    BY <2>1, <2>3 DEF Request
  <2>5. q.pc = "sync" /\ q.user = req[r].user /\ q.por = lines[l].por
    BY <2>1, <2>3 DEF Request
  <2>6. WellFormed(q)
    BY <2>2, <2>5 DEF WellFormed
  <2>7. req' = [req EXCEPT ![r] = q]
    BY <1>3, <2>1 DEF TypeInv, TypeOK
  <2>8. QED
    BY <1>1, <2>4, <2>6, <2>7, OnlyRequestStep
<1>4. QED
  BY <1>2, <1>3 DEF ReadLineParent

LEMMA DeleteLineType ==
  ASSUME TypeInv, NEW r \in Requests, DeleteLine(r) PROVE TypeInv'
<1>1. /\ req[r].pc = "lineDelete"
      /\ lines' = [lines EXCEPT ![req[r].poc] = NoLine]
      /\ Goto(r, "sync") \/ Finish(r)
      /\ UNCHANGED <<orders, history, users, porSeq, pocSeq, decisions>>
  BY DEF DeleteLine
<1>2. lines' \in [Lines -> Line] /\ LinesHaveOrders' /\ pocSeq' \in 0..MaxLines
  BY <1>1, NoLineType DEF TypeInv, TypeOK, LinesHaveOrders
<1>3. CASE Finish(r)
  BY <1>1, <1>2, <1>3, IdleType, IdleWellFormed, LineStep DEF Finish
<1>4. CASE Goto(r, "sync")
  <2>1. PICK q : q = [req[r] EXCEPT !.pc = "sync"]
    OBVIOUS
  <2>2. "sync" \in PCs \ {"parent", "lineDelete"} /\ req[r].pc \notin {"idle", "parent"}
    BY <1>1 DEF PCs
  <2>3. q \in Request /\ WellFormed(q)
    BY <2>1, <2>2, GotoWellFormed
  <2>4. req' = [req EXCEPT ![r] = q]
    BY <1>4, <2>1 DEF Goto, TypeInv, TypeOK
  <2>5. QED
    BY <1>1, <1>2, <2>3, <2>4, LineStep
<1>5. QED
  BY <1>1, <1>3, <1>4

LEMMA SyncSnapshotType ==
  ASSUME TypeInv, NEW r \in Requests, SyncSnapshot(r) PROVE TypeInv'
<1> DEFINE o == req[r].por
           before == PurchaseOrderSnapshot(o)
<1>1. req[r].pc = "sync" /\ UNCHANGED <<dbVars, decisions>>
  BY DEF SyncSnapshot
<1>2. CASE Finish(r)
  BY <1>1, <1>2, FinishStep
<1>3. CASE req' = [req EXCEPT ![r].pc = "sum", ![r].before = before]
  <2>1. PICK q : q = [req[r] EXCEPT !.pc = "sum", !.before = before]
    OBVIOUS
  <2>2. o \in Orders /\ req[r].user \in Users
    BY <1>1 DEF TypeInv, RequestsWellFormed, WellFormed
  <2>3. before \in Snapshot
    BY <2>2, SnapshotType DEF TypeInv
  <2>4. req[r] \in Request /\ "sum" \in PCs
    BY DEF TypeInv, TypeOK, PCs
  <2> HIDE DEF before
  <2>5. q \in Request
    BY <2>1, <2>3, <2>4 DEF Request
  <2>6. q.pc = "sum" /\ q.user = req[r].user /\ q.por = o
    BY <2>1, <2>4 DEF Request
  <2>7. WellFormed(q)
    BY <2>2, <2>6 DEF WellFormed
  <2>8. req' = [req EXCEPT ![r] = q]
    BY <1>3, <2>1 DEF TypeInv, TypeOK
  <2>9. QED
    BY <1>1, <2>5, <2>7, <2>8, OnlyRequestStep
<1>4. QED
  BY <1>2, <1>3 DEF SyncSnapshot

LEMMA SyncSumType ==
  ASSUME TypeInv, NEW r \in Requests, SyncSum(r) PROVE TypeInv'
<1> DEFINE next == DerivedStatus(req[r].por)
<1>1. req[r].pc = "sum" /\ UNCHANGED <<dbVars, decisions>>
  BY DEF SyncSum
<1>2. CASE Finish(r)
  BY <1>1, <1>2, FinishStep
<1>3. CASE req' = [req EXCEPT ![r].pc = "derive", ![r].status = next]
  <2>1. PICK q : q = [req[r] EXCEPT !.pc = "derive", !.status = next]
    OBVIOUS
  <2>2. req[r].por \in Orders /\ req[r].user \in Users
    BY <1>1 DEF TypeInv, RequestsWellFormed, WellFormed
  <2>3. next \in Status
    BY Texts DEF DerivedStatus
  <2>4. req[r] \in Request /\ "derive" \in PCs
    BY DEF TypeInv, TypeOK, PCs
  <2> HIDE DEF next
  <2>5. q \in Request
    BY <2>1, <2>3, <2>4 DEF Request
  <2>6. q.pc = "derive" /\ q.user = req[r].user /\ q.por = req[r].por
    BY <2>1, <2>4 DEF Request
  <2>7. WellFormed(q)
    BY <2>2, <2>6 DEF WellFormed
  <2>8. req' = [req EXCEPT ![r] = q]
    BY <1>3, <2>1 DEF TypeInv, TypeOK
  <2>9. QED
    BY <1>1, <2>5, <2>7, <2>8, OnlyRequestStep
<1>4. QED
  BY <1>2, <1>3 DEF SyncSum

\* A status and a total written together: the signing workflow.
LEMMA SignedOrderType ==
  ASSUME NEW table \in [Orders -> Order], NEW o \in Orders, NEW s \in Status,
         NEW total \in Totals
  PROVE  [table EXCEPT ![o].status = s, ![o].total = total] \in [Orders -> Order]
BY DEF Order

LEMMA SubmitType ==
  ASSUME TypeInv, NEW r \in Requests, SubmitPurchaseOrder(r) PROVE TypeInv'
<1>1. PICK u \in Users, o \in 1..porSeq :
        /\ \E total \in PriceOrder(o) :
             orders' = [orders EXCEPT ![o].status = "pending_approval", ![o].total = total]
        /\ history' = AddHistoryRow(o,
             [previous |-> orders[o].status, status |-> "pending_approval",
              payment |-> orders[o].payment, user |-> u])
        /\ UNCHANGED <<lines, users, porSeq, pocSeq, req, decisions>>
  BY DEF SubmitPurchaseOrder
<1>2. o \in Orders /\ orders \in [Orders -> Order]
  BY InsertedOrders DEF TypeInv, TypeOK
<1>3. PICK total \in Totals :
        orders' = [orders EXCEPT ![o].status = "pending_approval", ![o].total = total]
  BY <1>1, PriceType
<1>4. orders' \in [Orders -> Order]
  BY <1>2, <1>3, Texts, SignedOrderType
<1>5. [previous |-> orders[o].status, status |-> "pending_approval",
       payment |-> orders[o].payment, user |-> u] \in HistoryRow
  BY <1>2, Texts DEF Order, HistoryRow
<1>6. history' \in [Orders -> Seq(HistoryRow)]
  BY <1>1, <1>2, <1>5, RowType DEF TypeInv
<1>7. req' \in [Requests -> Request] /\ RequestsWellFormed'
  BY <1>1 DEF TypeInv, TypeOK, RequestsWellFormed, WellFormed
<1>8. QED
  BY <1>1, <1>4, <1>6, <1>7, HistoryStep DEF TypeInv, TypeOK

\* The decision of request r, as DecidePurchaseOrder commits it.
LEMMA DecisionPicked ==
  ASSUME TypeInv, NEW r \in Requests, DecidePurchaseOrder(r)
  PROVE  \E total \in Totals, decided \in DecidedStatuses, d \in Decision :
           /\ req[r].por \in Orders /\ req[r].user \in Users
           /\ Decidable(orders[req[r].por].status)
           /\ WithinLimit(total, req[r].limit)
           /\ d = [user |-> req[r].user, status |-> decided, total |-> total,
                   limit |-> req[r].limit]
           /\ orders' = [orders EXCEPT ![req[r].por].status = decided,
                                       ![req[r].por].total = total]
           /\ decisions' = [decisions EXCEPT ![req[r].por] = Append(@, d)]
           /\ history' = AddHistoryRow(req[r].por,
                [previous |-> orders[req[r].por].status, status |-> decided,
                 payment |-> orders[req[r].por].payment, user |-> req[r].user])
<1>1. req[r].pc = "decide" /\ req[r] \in Request
  BY DEF DecidePurchaseOrder, TypeInv, TypeOK
<1>2. req[r].por \in Orders /\ req[r].user \in Users
  BY SMTT(30), <1>1 DEF TypeInv, RequestsWellFormed, WellFormed
<1>3. PICK total \in PriceOrder(req[r].por), decided \in DecidedStatuses :
        /\ WithinLimit(total, req[r].limit)
        /\ orders' = [orders EXCEPT ![req[r].por].status = decided,
                                    ![req[r].por].total = total]
        /\ decisions' = [decisions EXCEPT ![req[r].por] = Append(@,
             [user |-> req[r].user, status |-> decided, total |-> total,
              limit |-> req[r].limit])]
        /\ history' = AddHistoryRow(req[r].por,
             [previous |-> orders[req[r].por].status, status |-> decided,
              payment |-> orders[req[r].por].payment, user |-> req[r].user])
  BY DEF DecidePurchaseOrder
<1>4. total \in Totals
  BY PriceType
\* An order is decided under an authority: the limit is one of Limits.
<1>5. req[r].limit \in Limits
  <2>1. req[r].limit \in Limits \cup {0}
    BY <1>1 DEF Request
  <2>2. req[r].limit # 0
    BY <1>3 DEF WithinLimit
  <2>3. QED
    BY <2>1, <2>2
<1>6. PICK d : d = [user |-> req[r].user, status |-> decided, total |-> total,
                    limit |-> req[r].limit]
  OBVIOUS
<1>6a. d \in Decision
  BY <1>2, <1>4, <1>5, <1>6 DEF Decision
<1>6b. decisions' = [decisions EXCEPT ![req[r].por] = Append(@, d)]
  BY <1>3, <1>6
<1>7. Decidable(orders[req[r].por].status)
  BY DEF DecidePurchaseOrder
<1>8. QED
  BY <1>2, <1>3, <1>4, <1>6, <1>6a, <1>6b, <1>7, Zenon

LEMMA DecideType ==
  ASSUME TypeInv, NEW r \in Requests, DecidePurchaseOrder(r) PROVE TypeInv'
<1> DEFINE o == req[r].por
<1>1. PICK total \in Totals, decided \in DecidedStatuses, d \in Decision :
        /\ o \in Orders /\ req[r].user \in Users
        /\ orders' = [orders EXCEPT ![o].status = decided, ![o].total = total]
        /\ decisions' = [decisions EXCEPT ![o] = Append(@, d)]
        /\ history' = AddHistoryRow(o,
             [previous |-> orders[o].status, status |-> decided,
              payment |-> orders[o].payment, user |-> req[r].user])
  BY DecisionPicked, Zenon
<1>2. Finish(r) /\ UNCHANGED <<lines, users, porSeq, pocSeq>>
  BY DEF DecidePurchaseOrder
<1>3. orders \in [Orders -> Order] /\ decisions \in [Orders -> Seq(Decision)]
  BY DEF TypeInv, TypeOK
<1>4. decided \in Status
  BY Texts
<1> HIDE DEF o
<1>5. orders' \in [Orders -> Order]
  BY <1>1, <1>3, <1>4, SignedOrderType
<1>6. decisions' \in [Orders -> Seq(Decision)]
  BY <1>1, <1>3
<1>7. [previous |-> orders[o].status, status |-> decided,
       payment |-> orders[o].payment, user |-> req[r].user] \in HistoryRow
  BY <1>1, <1>3, <1>4 DEF Order, HistoryRow
<1>8. history' \in [Orders -> Seq(HistoryRow)]
  BY <1>1, <1>7, RowType DEF TypeInv
<1>9. QED
  BY <1>2, <1>5, <1>6, <1>8, FinishType, HistoryStep

LEMMA UsersStep ==
  ASSUME TypeInv, users' \in [Users -> [live: BOOLEAN, limit: Limits \cup {0}]],
         UNCHANGED <<orders, lines, history, porSeq, pocSeq, req, decisions>>
  PROVE  TypeInv'
BY DEF TypeInv, TypeOK, RequestsWellFormed, WellFormed, LinesHaveOrders

LEMMA AdministrationType ==
  ASSUME TypeInv, NEW r \in Requests, SetApprovalLimit(r) \/ DeleteUser(r)
  PROVE  TypeInv'
<1>1. users \in [Users -> [live: BOOLEAN, limit: Limits \cup {0}]]
  BY DEF TypeInv, TypeOK
<1>2. CASE SetApprovalLimit(r)
  BY <1>1, <1>2, UsersStep DEF SetApprovalLimit
<1>3. CASE DeleteUser(r)
  BY <1>1, <1>3, UsersStep, InputAssumption DEF DeleteUser
<1>4. QED
  BY <1>2, <1>3

LEMMA MigratedType ==
  /\ \A s \in Status : MigratedStatus(s) \in Status
  /\ \A s \in Status, p \in Payment : MigratedPayment(s, p) \in Payment
BY Texts DEF MigratedStatus, MigratedPayment, POStatusOptions

LEMMA RestartType == ASSUME TypeInv, Restart PROVE TypeInv'
<1>1. /\ req' = [r \in Requests |-> Idle]
      /\ orders' = [o \in Orders |->
           IF orders[o].live
           THEN [orders[o] EXCEPT
                  !.status  = MigratedStatus(orders[o].status),
                  !.payment = MigratedPayment(orders[o].status, orders[o].payment)]
           ELSE orders[o]]
      /\ UNCHANGED <<lines, history, users, porSeq, pocSeq, decisions>>
  BY DEF Restart
<1>2. orders' \in [Orders -> Order]
  <2>1. ASSUME NEW o \in Orders
        PROVE  [orders[o] EXCEPT
                 !.status  = MigratedStatus(orders[o].status),
                 !.payment = MigratedPayment(orders[o].status, orders[o].payment)] \in Order
    <3>1. orders[o] \in Order
      BY DEF TypeInv, TypeOK
    <3>2. /\ MigratedStatus(orders[o].status) \in Status
          /\ MigratedPayment(orders[o].status, orders[o].payment) \in Payment
      BY <3>1, MigratedType DEF Order
    <3>3. QED
      BY <3>1, <3>2 DEF Order
  <2>2. QED
    BY <1>1, <2>1 DEF TypeInv, TypeOK
<1>3. req' \in [Requests -> Request] /\ RequestsWellFormed'
  BY <1>1, IdleType, IdleWellFormed DEF RequestsWellFormed, WellFormed
<1>4. QED
  BY <1>1, <1>2, <1>3 DEF TypeInv, TypeOK, LinesHaveOrders

LEMMA StutterType == ASSUME TypeInv, UNCHANGED vars PROVE TypeInv'
BY DEF TypeInv, TypeOK, RequestsWellFormed, WellFormed, LinesHaveOrders, vars

LEMMA NextType == TypeInv /\ [Next]_vars => TypeInv'
<1> SUFFICES ASSUME TypeInv, [Next]_vars PROVE TypeInv'
  OBVIOUS
<1>1. ASSUME NEW r \in Requests, Start(r) PROVE TypeInv'
  BY <1>1, InsertOrderType, StartUpdateOrderType, DeleteOrderType, StartSetPOStatusType,
     InsertLineType, UpdateLineType, StartDeleteLineType, SubmitType, StartDecideType,
     AdministrationType DEF Start
<1>2. ASSUME NEW r \in Requests, Continue(r) PROVE TypeInv'
  <2>1. CASE RefuseDecision(r)
    BY <2>1, FinishStep DEF RefuseDecision
  <2>2. QED
    BY <1>2, <2>1, ColumnWriteType, RecordType, AppendHistoryType, ReadLineParentType,
       DeleteLineType, SyncSnapshotType, SyncSumType, DecideType DEF Continue
<1>3. ASSUME NEW r \in Requests, Abort(r) PROVE TypeInv'
  BY <1>3, FinishStep DEF Abort
<1>4. QED
  BY <1>1, <1>2, <1>3, RestartType, StutterType DEF Next, AwaitRequest

\* Type correctness: at every step of every instance, whatever requests run
\* side by side and wherever they are cut off, the tables hold orders, lines,
\* history rows and users of their types, and so do the requests' locals.
THEOREM TypeCorrect == Spec => []TypeOK
<1>1. Spec => []TypeInv
  BY InitType, NextType, PTL DEF Spec
<1>2. TypeInv => TypeOK
  BY DEF TypeInv
<1>3. QED
  BY <1>1, <1>2, PTL

-----------------------------------------------------------------------------
(* The signing control.  No request in flight is about to write a decided   *)
(* status as a column: the guards of Update and SetPOStatus saw to it when  *)
(* the request arrived, and receipts derive another one.                   *)

PendingWritesUndecided == \A r \in Requests : req[r].status \notin DecidedStatuses

SigningInv == TypeInv /\ SignedWithinLimit /\ PendingWritesUndecided

\* Order x keeps its decision, total included, or has none before and after.
SameSigning(x) ==
  orders[x].status \in DecidedStatuses \/ orders'[x].status \in DecidedStatuses
  => orders'[x].status = orders[x].status /\ orders'[x].total = orders[x].total

\* A step that decides nothing: one order at most loses its decision.
NoSigning ==
  /\ decisions' = decisions
  /\ \/ \A x \in Orders : SameSigning(x)
     \/ \E o \in Orders : /\ orders'[o].status \notin DecidedStatuses
                          /\ \A x \in Orders \ {o} : SameSigning(x)

LEMMA Undecided ==
  /\ "" \notin DecidedStatuses /\ "pending_approval" \notin DecidedStatuses
  /\ "received" \notin DecidedStatuses /\ "partially_received" \notin DecidedStatuses
  /\ Keep \notin DecidedStatuses
  /\ \A s : Decidable(s) => s \notin DecidedStatuses
  /\ \A s : MigratedStatus(s) \in DecidedStatuses \/ s \in DecidedStatuses
            => MigratedStatus(s) = s
BY DEF DecidedStatuses, Keep, Decidable, MigratedStatus

LEMMA SameOrders == ASSUME UNCHANGED <<orders, decisions>> PROVE NoSigning
BY DEF NoSigning, SameSigning

LEMMA OneRow ==
  ASSUME TypeInv, NEW o \in Orders, NEW row, row.status \notin DecidedStatuses,
         orders' = [orders EXCEPT ![o] = row], decisions' = decisions
  PROVE  NoSigning
BY DEF TypeInv, TypeOK, NoSigning, SameSigning

LEMMA InsertNoSigning ==
  ASSUME TypeInv, NEW r \in Requests, InsertOrder(r) PROVE NoSigning
<1>1. PICK u \in Users, s \in Statuses \cup {""}, p \in Payments \cup {""} :
        /\ porSeq < MaxOrders
        /\ GuardDecidedStatus(s)
        /\ orders' = [orders EXCEPT ![porSeq + 1] =
             [live |-> TRUE, status |-> s, payment |-> p, total |-> 0, user |-> u]]
        /\ decisions' = decisions
  BY DEF InsertOrder
<1>2. PICK row :
        /\ row = [live |-> TRUE, status |-> s, payment |-> p, total |-> 0, user |-> u]
        /\ orders' = [orders EXCEPT ![porSeq + 1] = row]
  BY <1>1
<1>3. porSeq + 1 \in Orders /\ row.status \notin DecidedStatuses
  BY <1>1, <1>2, InsertedOrders DEF GuardDecidedStatus
<1>4. QED
  BY <1>1, <1>2, <1>3, OneRow

LEMMA DeleteNoSigning ==
  ASSUME TypeInv, NEW r \in Requests, DeleteOrder(r) PROVE NoSigning
<1>1. PICK o \in 1..porSeq : orders' = [orders EXCEPT ![o] = NoOrder] /\ decisions' = decisions
  BY DEF DeleteOrder
<1>2. o \in Orders /\ NoOrder.status \notin DecidedStatuses
  BY InsertedOrders, Undecided DEF NoOrder
<1>3. QED
  BY <1>1, <1>2, OneRow

LEMMA SubmitNoSigning ==
  ASSUME TypeInv, NEW r \in Requests, SubmitPurchaseOrder(r) PROVE NoSigning
<1>1. PICK o \in 1..porSeq :
        /\ \E total \in PriceOrder(o) :
             orders' = [orders EXCEPT ![o].status = "pending_approval", ![o].total = total]
        /\ decisions' = decisions
  BY DEF SubmitPurchaseOrder
<1>2. o \in Orders /\ orders \in [Orders -> Order]
  BY InsertedOrders DEF TypeInv, TypeOK
<1>3. orders'[o].status = "pending_approval" /\ \A x \in Orders \ {o} : orders'[x] = orders[x]
  BY <1>1, <1>2 DEF Order
<1>4. QED
  BY <1>1, <1>2, <1>3, Undecided DEF NoSigning, SameSigning

LEMMA WriteNoSigning ==
  ASSUME TypeInv, PendingWritesUndecided, NEW r \in Requests,
         UpdateOrder(r) \/ SetPOStatus(r) \/ SyncDerive(r)
  PROVE  NoSigning
<1> DEFINE o == req[r].por
           s == Written(orders[o].status, req[r].status)
           p == Written(orders[o].payment, req[r].payment)
<1>1. orders' = OrdersWrittenBy(r) /\ decisions' = decisions
  BY DEF UpdateOrder, SetPOStatus, SyncDerive
<1>2. o \in Orders
  BY DEF UpdateOrder, SetPOStatus, SyncDerive, TypeInv, RequestsWellFormed, WellFormed
<1>3. orders \in [Orders -> Order]
  BY DEF TypeInv, TypeOK
<1>4. s = orders[o].status \/ s \notin DecidedStatuses
  BY DEF PendingWritesUndecided, Written
<1>5. CASE orders' = [orders EXCEPT ![o].status = s, ![o].payment = p]
  <2> HIDE DEF o, s, p
  <2>1. /\ orders'[o].status = s /\ orders'[o].total = orders[o].total
        /\ \A x \in Orders \ {o} : orders'[x] = orders[x]
    BY <1>2, <1>3, <1>5 DEF Order
  <2>2. QED
    BY <1>1, <1>2, <1>4, <2>1 DEF NoSigning, SameSigning
<1>6. CASE orders' = orders
  BY <1>1, <1>6, SameOrders
<1>7. QED
  BY <1>1, <1>5, <1>6 DEF OrdersWrittenBy

LEMMA RestartNoSigning == ASSUME TypeInv, Restart PROVE NoSigning
<1>1. decisions' = decisions
  BY DEF Restart
<1>2. ASSUME NEW x \in Orders PROVE SameSigning(x)
  <2>1. orders[x] \in Order
    BY DEF TypeInv, TypeOK
  <2>2. orders'[x] = IF orders[x].live
          THEN [orders[x] EXCEPT
                 !.status  = MigratedStatus(orders[x].status),
                 !.payment = MigratedPayment(orders[x].status, orders[x].payment)]
          ELSE orders[x]
    BY DEF Restart
  <2>3. /\ orders'[x].total = orders[x].total
        /\ orders'[x].status \in {orders[x].status, MigratedStatus(orders[x].status)}
    BY <2>1, <2>2 DEF Order
  <2>4. QED
    BY <2>3, Undecided DEF SameSigning
<1>3. QED
  BY <1>1, <1>2 DEF NoSigning

\* Only DecidePurchaseOrder decides.
LEMMA OnlyDecisionsSign ==
  ASSUME TypeInv, PendingWritesUndecided, [Next]_vars
  PROVE  NoSigning \/ \E r \in Requests : DecidePurchaseOrder(r)
<1>1. ASSUME NEW r \in Requests, Start(r) PROVE NoSigning
  <2>1. CASE StartUpdateOrder(r) \/ StartSetPOStatus(r) \/ StartDecidePurchaseOrder(r)
             \/ StartDeleteLine(r)
    BY <2>1, SameOrders
    DEF StartUpdateOrder, StartSetPOStatus, StartDecidePurchaseOrder, StartDeleteLine, dbVars
  <2>2. CASE InsertLine(r) \/ UpdateLine(r) \/ SetApprovalLimit(r) \/ DeleteUser(r)
    BY <2>2, SameOrders DEF InsertLine, UpdateLine, SetApprovalLimit, DeleteUser
  <2>3. QED
    BY <1>1, <2>1, <2>2, InsertNoSigning, DeleteNoSigning, SubmitNoSigning DEF Start
<1>2. ASSUME NEW r \in Requests, Continue(r)
      PROVE  NoSigning \/ DecidePurchaseOrder(r)
  <2>1. CASE RecordPOStatusChange(r) \/ ReadLineParent(r) \/ SyncSnapshot(r) \/ SyncSum(r)
             \/ RefuseDecision(r)
    BY <2>1, SameOrders
    DEF RecordPOStatusChange, ReadLineParent, SyncSnapshot, SyncSum, RefuseDecision, dbVars
  <2>2. CASE AppendHistory(r) \/ DeleteLine(r)
    BY <2>2, SameOrders DEF AppendHistory, DeleteLine
  <2>3. QED
    BY <1>2, <2>1, <2>2, WriteNoSigning DEF Continue
<1>3. ASSUME NEW r \in Requests, Abort(r) PROVE NoSigning
  BY <1>3, SameOrders DEF Abort, dbVars
<1>4. CASE UNCHANGED vars
  BY <1>4, SameOrders DEF vars
<1>5. QED
  BY <1>1, <1>2, <1>3, <1>4, RestartNoSigning DEF Next, AwaitRequest

\* No step leaves a request about to write a decided status.
LEMMA PendingStep ==
  ASSUME TypeInv, PendingWritesUndecided, [Next]_vars PROVE PendingWritesUndecided'
<1>1. Idle.status \notin DecidedStatuses
  BY Undecided DEF Idle
<1>2. ASSUME NEW r \in Requests, NEW q, q.status \notin DecidedStatuses,
             req' = [req EXCEPT ![r] = q]
      PROVE  PendingWritesUndecided'
  BY <1>2 DEF TypeInv, TypeOK, PendingWritesUndecided
<1>3. ASSUME NEW r \in Requests, Finish(r) PROVE PendingWritesUndecided'
  BY <1>1, <1>2, <1>3 DEF Finish
<1>4. ASSUME UNCHANGED req PROVE PendingWritesUndecided'
  BY <1>4 DEF PendingWritesUndecided
<1>5. ASSUME NEW r \in Requests, NEW pc, Goto(r, pc) PROVE PendingWritesUndecided'
  <2>1. PICK q : q = [req[r] EXCEPT !.pc = pc]
    OBVIOUS
  <2>2. req' = [req EXCEPT ![r] = q] /\ q.status = req[r].status
    BY <1>5, <2>1 DEF Goto, TypeInv, TypeOK, Request
  <2>3. QED
    BY <1>2, <2>2 DEF PendingWritesUndecided
<1>6. ASSUME NEW r \in Requests, Start(r) PROVE PendingWritesUndecided'
  <2>1. CASE InsertOrder(r)
    <3>1. PICK u \in Users :
            /\ req' = [req EXCEPT ![r] =
                 [Idle EXCEPT !.pc = "record", !.user = u, !.por = porSeq + 1]]
      BY <2>1 DEF InsertOrder
    <3>1a. PICK q : /\ q = [Idle EXCEPT !.pc = "record", !.user = u, !.por = porSeq + 1]
                  /\ req' = [req EXCEPT ![r] = q]
      BY <3>1
    <3>2. q.status = Keep
      BY <3>1a DEF Idle
    <3>3. QED
      BY <1>2, <3>1a, <3>2, Undecided
  <2>2. CASE StartUpdateOrder(r)
    <3>1. PICK u \in Users, o \in 1..porSeq, s \in Statuses \cup {"", Keep},
               p \in Payments \cup {"", Keep} :
            /\ GuardDecidedStatus(s)
            /\ req' = [req EXCEPT ![r] =
                 [Idle EXCEPT !.pc = "update", !.user = u, !.por = o, !.status = s,
                    !.payment = p, !.before = PurchaseOrderSnapshot(o)]]
      BY <2>2 DEF StartUpdateOrder
    <3>1a. PICK q : /\ q = [Idle EXCEPT !.pc = "update", !.user = u, !.por = o, !.status = s,
                          !.payment = p, !.before = PurchaseOrderSnapshot(o)]
                  /\ req' = [req EXCEPT ![r] = q]
      BY <3>1
    <3>2. q.status = s
      BY <3>1a DEF Idle
    <3>3. q.status \notin DecidedStatuses
      BY <3>1, <3>2 DEF GuardDecidedStatus
    <3>4. QED
      BY <1>2, <3>1a, <3>3
  <2>3. CASE StartSetPOStatus(r)
    <3>1. PICK u \in Users, o \in 1..porSeq, s \in StatusRequests, p \in PaymentRequests :
            /\ SetPOStatusValid(s, p)
            /\ req' = [req EXCEPT ![r] =
                 [Idle EXCEPT !.pc = "setStatus", !.user = u, !.por = o,
                    !.status = KeepIfEmpty(s), !.payment = KeepIfEmpty(p),
                    !.before = PurchaseOrderSnapshot(o)]]
      BY <2>3 DEF StartSetPOStatus
    <3>1a. PICK q : /\ q = [Idle EXCEPT !.pc = "setStatus", !.user = u, !.por = o,
                          !.status = KeepIfEmpty(s), !.payment = KeepIfEmpty(p),
                          !.before = PurchaseOrderSnapshot(o)]
                  /\ req' = [req EXCEPT ![r] = q]
      BY <3>1
    <3>2. q.status = KeepIfEmpty(s)
      BY <3>1a DEF Idle
    <3>3. KeepIfEmpty(s) \notin DecidedStatuses
      BY <3>1, Undecided DEF SetPOStatusValid, KeepIfEmpty
    <3>4. QED
      BY <1>2, <3>1a, <3>2, <3>3
  <2>4. CASE InsertLine(r) \/ UpdateLine(r)
    <3>1. PICK u, l :
            req' = [req EXCEPT ![r] = LineRequest(u, l, "parent")]
      BY <2>4 DEF InsertLine, UpdateLine
    <3>1a. PICK q : /\ q = LineRequest(u, l, "parent")
                  /\ req' = [req EXCEPT ![r] = q]
      BY <3>1
    <3>2. q.status = Keep
      BY <3>1a DEF LineRequest, Idle
    <3>3. QED
      BY <1>2, <3>1a, <3>2, Undecided
  <2>5. CASE StartDeleteLine(r)
    <3>1. PICK u \in Users, l \in 1..pocSeq :
            /\ req' = [req EXCEPT ![r] =
                 [LineRequest(u, l, "lineDelete") EXCEPT !.por = lines[l].por]]
      BY <2>5 DEF StartDeleteLine
    <3>1a. PICK q : /\ q = [LineRequest(u, l, "lineDelete") EXCEPT !.por = lines[l].por]
                  /\ req' = [req EXCEPT ![r] = q]
      BY <3>1
    <3>2. q.status = Keep
      BY <3>1a DEF LineRequest, Idle
    <3>3. QED
      BY <1>2, <3>1a, <3>2, Undecided
  <2>6. CASE StartDecidePurchaseOrder(r)
    <3>1. PICK u \in Users, o \in 1..porSeq :
            /\ req' = [req EXCEPT ![r] =
                 [Idle EXCEPT !.pc = "decide", !.user = u, !.por = o,
                    !.limit = ApprovalLimit(u)]]
      BY <2>6 DEF StartDecidePurchaseOrder
    <3>1a. PICK q : /\ q = [Idle EXCEPT !.pc = "decide", !.user = u, !.por = o,
                          !.limit = ApprovalLimit(u)]
                  /\ req' = [req EXCEPT ![r] = q]
      BY <3>1
    <3>2. q.status = Keep
      BY <3>1a DEF Idle
    <3>3. QED
      BY <1>2, <3>1a, <3>2, Undecided
  <2>7. CASE DeleteOrder(r) \/ SubmitPurchaseOrder(r) \/ SetApprovalLimit(r) \/ DeleteUser(r)
    BY <1>4, <2>7 DEF DeleteOrder, SubmitPurchaseOrder, SetApprovalLimit, DeleteUser
  <2>8. QED
    BY <1>6, <2>1, <2>2, <2>3, <2>4, <2>5, <2>6, <2>7 DEF Start
<1>7. ASSUME NEW r \in Requests, Continue(r) PROVE PendingWritesUndecided'
  <2>1. req[r] \in Request
    BY SMTT(30) DEF TypeInv, TypeOK
  <2>2. CASE UpdateOrder(r) \/ SetPOStatus(r) \/ SyncDerive(r) \/ DeleteLine(r)
             \/ AppendHistory(r) \/ DecidePurchaseOrder(r) \/ RefuseDecision(r)
    BY <1>3, <1>5, <2>2 DEF UpdateOrder, SetPOStatus, SyncDerive, DeleteLine,
                            AppendHistory, DecidePurchaseOrder, RefuseDecision
  <2>3. CASE RecordPOStatusChange(r)
    <3>1. PICK after, q :
            /\ Finish(r) \/ req' = [req EXCEPT ![r] = q]
            /\ q = [req[r] EXCEPT !.pc = "append", !.after = after]
      BY <2>3 DEF RecordPOStatusChange, TypeInv, TypeOK
    <3>2. q.status = req[r].status
      BY <2>1, <3>1 DEF Request
    <3>3. QED
      BY <1>2, <1>3, <3>1, <3>2 DEF PendingWritesUndecided
  <2>4. CASE ReadLineParent(r)
    <3>1. PICK por, q :
            /\ Finish(r) \/ req' = [req EXCEPT ![r] = q]
            /\ q = [req[r] EXCEPT !.pc = "sync", !.por = por]
      BY <2>4 DEF ReadLineParent, TypeInv, TypeOK
    <3>2. q.status = req[r].status
      BY <2>1, <3>1 DEF Request
    <3>3. QED
      BY <1>2, <1>3, <3>1, <3>2 DEF PendingWritesUndecided
  <2>5. CASE SyncSnapshot(r)
    <3>1. PICK before, q :
            /\ Finish(r) \/ req' = [req EXCEPT ![r] = q]
            /\ q = [req[r] EXCEPT !.pc = "sum", !.before = before]
      BY <2>5 DEF SyncSnapshot, TypeInv, TypeOK
    <3>2. q.status = req[r].status
      BY <2>1, <3>1 DEF Request
    <3>3. QED
      BY <1>2, <1>3, <3>1, <3>2 DEF PendingWritesUndecided
  <2>6. CASE SyncSum(r)
    <3>1. PICK q :
            /\ Finish(r) \/ req' = [req EXCEPT ![r] = q]
            /\ q = [req[r] EXCEPT !.pc = "derive", !.status = DerivedStatus(req[r].por)]
      BY <2>6 DEF SyncSum, TypeInv, TypeOK
    <3>2. q.status = DerivedStatus(req[r].por)
      BY <2>1, <3>1 DEF Request
    <3>3. q.status \notin DecidedStatuses
      BY <3>2, Undecided DEF DerivedStatus
    <3>4. QED
      BY <1>2, <1>3, <3>1, <3>3
  <2>7. QED
    BY <1>7, <2>2, <2>3, <2>4, <2>5, <2>6 DEF Continue
<1>8. CASE Restart
  BY <1>1, <1>8 DEF Restart, PendingWritesUndecided
<1>9. QED
  BY <1>3, <1>4, <1>6, <1>7, <1>8 DEF Next, Abort, AwaitRequest, vars

LEMMA SigningInit == Init => SignedWithinLimit /\ PendingWritesUndecided
<1> SUFFICES ASSUME Init PROVE SignedWithinLimit /\ PendingWritesUndecided
  OBVIOUS
<1>1. ASSUME NEW o \in Orders PROVE orders[o].status \notin DecidedStatuses
  <2>1. PICK st \in [1..LoadedOrders -> LoadedStatuses], u \in Users :
          orders = [x \in Orders |->
            IF x <= LoadedOrders THEN LoadedOrder(st[x], u) ELSE NoOrder]
    BY DEF Init
  <2>2. CASE o <= LoadedOrders
    <3>1. o \in 1..LoadedOrders /\ st[o] \in LoadedStatuses
      BY <2>2, BoundsAssumption DEF Orders
    <3>2. orders[o].status = st[o]
      BY <2>1, <2>2 DEF LoadedOrder
    <3>3. QED
      BY <3>1, <3>2, InputAssumption
  <2>3. CASE ~(o <= LoadedOrders)
    BY <2>1, <2>3, Undecided DEF NoOrder
  <2>4. QED
    BY <2>2, <2>3
<1>2. ASSUME NEW r \in Requests PROVE req[r].status \notin DecidedStatuses
  BY Undecided DEF Init, Idle
<1>3. QED
  BY <1>1, <1>2 DEF SignedWithinLimit, PendingWritesUndecided

\* What a decision leaves behind, on the order it is about and elsewhere.
LEMMA DecisionStep ==
  ASSUME TypeInv, NEW r \in Requests, DecidePurchaseOrder(r)
  PROVE  \E o \in Orders, d \in Decision :
           /\ orders[o].status \notin DecidedStatuses
           /\ orders'[o].status = d.status /\ orders'[o].total = d.total
           /\ WithinLimit(d.total, d.limit)
           /\ decisions' = [decisions EXCEPT ![o] = Append(@, d)]
           /\ \A x \in Orders \ {o} : orders'[x] = orders[x]
<1> DEFINE o == req[r].por
<1>1. PICK total \in Totals, decided \in DecidedStatuses, d \in Decision :
        /\ o \in Orders /\ req[r].user \in Users
        /\ Decidable(orders[o].status)
        /\ WithinLimit(total, req[r].limit)
        /\ d = [user |-> req[r].user, status |-> decided, total |-> total,
                limit |-> req[r].limit]
        /\ orders' = [orders EXCEPT ![o].status = decided, ![o].total = total]
        /\ decisions' = [decisions EXCEPT ![o] = Append(@, d)]
        /\ history' = AddHistoryRow(o,
             [previous |-> orders[o].status, status |-> decided,
              payment |-> orders[o].payment, user |-> req[r].user])
  BY DecisionPicked, Zenon
<1>2. orders \in [Orders -> Order]
  BY DEF TypeInv, TypeOK
<1>3. d.status = decided /\ d.total = total /\ d.limit = req[r].limit
  BY <1>1
<1> HIDE DEF o
<1>4. /\ orders'[o].status = decided /\ orders'[o].total = total
      /\ \A x \in Orders \ {o} : orders'[x] = orders[x]
  BY <1>1, <1>2 DEF Order
<1>5. orders[o].status \notin DecidedStatuses
  BY <1>1, Undecided
<1>6. QED
  BY <1>1, <1>3, <1>4, <1>5, Zenon

LEMMA AppendedDecision ==
  ASSUME NEW s \in Seq(Decision), NEW d \in Decision
  PROVE  Len(Append(s, d)) = Len(s) + 1 /\ Append(s, d)[Len(s) + 1] = d /\ Len(s) \in Nat
OBVIOUS

LEMMA SigningStep == SigningInv /\ [Next]_vars => SigningInv'
<1> SUFFICES ASSUME SigningInv, [Next]_vars PROVE SigningInv'
  OBVIOUS
<1>1. TypeInv' /\ PendingWritesUndecided'
  BY NextType, PendingStep DEF SigningInv
<1>2. CASE NoSigning
  <2>1. ASSUME NEW x \in Orders, orders'[x].status \in DecidedStatuses
        PROVE  orders'[x].status = orders[x].status /\ orders'[x].total = orders[x].total
    BY <1>2, <2>1 DEF NoSigning, SameSigning
  <2>2. decisions' = decisions
    BY <1>2 DEF NoSigning
  <2>3. SignedWithinLimit'
    BY <2>1, <2>2 DEF SigningInv, SignedWithinLimit
  <2>4. QED
    BY <1>1, <2>3 DEF SigningInv
<1>3. CASE \E r \in Requests : DecidePurchaseOrder(r)
  <2>1. PICK o \in Orders, d \in Decision :
          /\ orders'[o].status = d.status /\ orders'[o].total = d.total
          /\ WithinLimit(d.total, d.limit)
          /\ decisions' = [decisions EXCEPT ![o] = Append(@, d)]
          /\ \A x \in Orders \ {o} : orders'[x] = orders[x]
    BY <1>3, DecisionStep DEF SigningInv
  <2>2. decisions \in [Orders -> Seq(Decision)]
    BY DEF SigningInv, TypeInv, TypeOK
  <2> DEFINE Signed(x, row, ds) == row.status \in DecidedStatuses =>
               /\ Len(ds) > 0
               /\ ds[Len(ds)].status = row.status
               /\ ds[Len(ds)].total = row.total
               /\ WithinLimit(ds[Len(ds)].total, ds[Len(ds)].limit)
  <2>3. Signed(o, orders'[o], decisions'[o])
    <3>1. decisions'[o] = Append(decisions[o], d)
      BY <2>1, <2>2
    <3>2. Len(decisions'[o]) > 0 /\ decisions'[o][Len(decisions'[o])] = d
      BY <2>2, <3>1, AppendedDecision
    <3>3. QED
      BY <2>1, <3>2
  <2>4. ASSUME NEW x \in Orders \ {o} PROVE Signed(x, orders'[x], decisions'[x])
    <3>1. orders'[x] = orders[x] /\ decisions'[x] = decisions[x]
      BY <2>1, <2>2
    <3>2. Signed(x, orders[x], decisions[x])
      BY DEF SigningInv, SignedWithinLimit
    <3>3. QED
      BY <3>1, <3>2
  <2>5. SignedWithinLimit'
    BY <2>3, <2>4 DEF SignedWithinLimit
  <2>6. QED
    BY <1>1, <2>5 DEF SigningInv
<1>4. QED
  BY <1>1, <1>2, <1>3, OnlyDecisionsSign DEF SigningInv

\* The signing control holds whatever is sent, however requests interleave and
\* wherever one is cut off: an order is approved or rejected only by a decision
\* whose user had authority for the total the order still carries.
THEOREM SigningCorrect == Spec => []SignedWithinLimit
<1>1. Init => SigningInv
  BY InitType, SigningInit DEF SigningInv
<1>2. SigningInv => SignedWithinLimit
  BY DEF SigningInv
<1>3. QED
  BY <1>1, <1>2, SigningStep, PTL DEF Spec

-----------------------------------------------------------------------------
(* The store implements SigningControl: every step is a decision, the end of *)
(* one, or nothing as far as the standing of the orders goes.               *)

LEMMA RefinementInit == Init => Signing!Init
<1> SUFFICES ASSUME Init PROVE Signing!Init
  OBVIOUS
<1>1. \A o \in Orders : orders[o].status \notin DecidedStatuses
  <2>1. ASSUME NEW o \in Orders, orders[o].status \in DecidedStatuses PROVE FALSE
    <3>1. decisions[o] = << >>
      BY DEF Init
    <3>2. SignedWithinLimit /\ Len(<< >>) = 0
      BY SigningInit
    <3>3. QED
      BY <2>1, <3>1, <3>2 DEF SignedWithinLimit
  <2>2. QED
    BY <2>1
<1>2. Standing = [o \in Orders |-> "open"]
  BY <1>1 DEF Standing
<1>3. QED
  BY <1>2 DEF Signing!Init, Init

LEMMA OpenIsNoDecision == "open" \notin DecidedStatuses
BY DEF DecidedStatuses

LEMMA RefinementStep ==
  SigningInv /\ [Next]_vars => [Signing!Next]_(Signing!signingVars)
<1> SUFFICES ASSUME SigningInv, [Next]_vars
             PROVE  Signing!Next \/ UNCHANGED <<Standing, decisions>>
  BY DEF Signing!signingVars
<1>1. CASE NoSigning
  <2>1. ASSUME NEW x \in Orders, SameSigning(x) PROVE Standing'[x] = Standing[x]
    BY <2>1 DEF SameSigning, Standing
  <2>2. CASE \A x \in Orders : SameSigning(x)
    <3>1. Standing' = Standing
      BY <2>1, <2>2 DEF Standing
    <3>2. QED
      BY <1>1, <3>1 DEF NoSigning
  <2>3. ASSUME NEW o \in Orders, orders'[o].status \notin DecidedStatuses,
               \A x \in Orders \ {o} : SameSigning(x)
        PROVE  Signing!Next \/ UNCHANGED <<Standing, decisions>>
    <3>1. Standing'[o] = "open"
      BY <2>3 DEF Standing
    <3>2. Standing' = [Standing EXCEPT ![o] = "open"]
      BY <2>1, <2>3, <3>1 DEF Standing
    <3>3. CASE Standing[o] = "open"
      BY <1>1, <3>2, <3>3 DEF NoSigning, Standing
    <3>4. CASE Standing[o] # "open"
      BY <1>1, <3>2, <3>4 DEF NoSigning, Signing!Next, Signing!Reopen
    <3>5. QED
      BY <3>3, <3>4
  <2>4. QED
    BY <1>1, <2>2, <2>3 DEF NoSigning
<1>2. CASE \E r \in Requests : DecidePurchaseOrder(r)
  <2>1. PICK o \in Orders, d \in Decision :
          /\ orders[o].status \notin DecidedStatuses
          /\ orders'[o].status = d.status
          /\ WithinLimit(d.total, d.limit)
          /\ decisions' = [decisions EXCEPT ![o] = Append(@, d)]
          /\ \A x \in Orders \ {o} : orders'[x] = orders[x]
    BY <1>2, DecisionStep DEF SigningInv
  <2>2. /\ d.user \in Users /\ d.status \in DecidedStatuses
        /\ d.total \in Totals /\ d.limit \in Limits
        /\ d = [user |-> d.user, status |-> d.status, total |-> d.total, limit |-> d.limit]
    BY DEF Decision
  <2>3. Standing[o] = "open" /\ Standing'[o] = d.status
    BY <2>1, <2>2 DEF Standing
  <2>4. \A x \in Orders \ {o} : Standing'[x] = Standing[x]
    BY <2>1 DEF Standing
  <2>5. Standing' = [Standing EXCEPT ![o] = d.status]
    BY <2>3, <2>4 DEF Standing
  <2>6. decisions' = [decisions EXCEPT ![o] = Append(@,
          [user |-> d.user, status |-> d.status, total |-> d.total, limit |-> d.limit])]
    BY <2>1, <2>2
  <2>7. d.limit > 0 /\ d.total <= d.limit
    BY <2>1 DEF WithinLimit
  <2>8. Signing!Decide(o)
    BY <2>2, <2>3, <2>5, <2>6, <2>7 DEF Signing!Decide
  <2>9. QED
    BY <2>8 DEF Signing!Next
<1>3. QED
  BY <1>1, <1>2, OnlyDecisionsSign DEF SigningInv

\* The store, with all its requests, statements and faults, behaves like the
\* signing control of SigningControl.
THEOREM RefinementCorrect == Spec => ImplementsSigningControl
<1>1. Init => SigningInv
  BY InitType, SigningInit DEF SigningInv
<1>2. QED
  BY <1>1, SigningStep, RefinementInit, RefinementStep, PTL
  DEF Spec, ImplementsSigningControl, Signing!Spec
-----------------------------------------------------------------------------
(* The history.  A decision and its row are one transaction; after it the   *)
(* row stays, because a row only goes with its order and an id is not given *)
(* out twice: what an order has to account for is empty when it is new.     *)

UnusedIds ==
  \A o \in Orders : /\ orders[o].live => o <= porSeq
                    /\ o > porSeq => decisions[o] = << >>

RecordedInv == TypeInv /\ UnusedIds /\ DecisionsAreRecorded

\* The entries of a log, of decisions or of rows, by user u with outcome s.
By(log, u, s) == {i \in DOMAIN log : log[i].user = u /\ log[i].status = s}

Accounted(ds, rows) ==
  \A u \in Users, s \in DecidedStatuses :
    Cardinality(By(ds, u, s)) <= Cardinality(By(rows, u, s))

LEMMA RecordedByOrder ==
  DecisionsAreRecorded <=>
    \A o \in Orders : orders[o].live => Accounted(decisions[o], history[o])
BY DEF DecisionsAreRecorded, Accounted, By

LEMMA ByFinite ==
  ASSUME NEW S, NEW log \in Seq(S), NEW u, NEW s
  PROVE  /\ IsFiniteSet(By(log, u, s)) /\ Cardinality(By(log, u, s)) \in Nat
         /\ Len(log) + 1 \notin By(log, u, s)
<1>1. DOMAIN log = 1..Len(log) /\ Len(log) \in Nat
  OBVIOUS
<1>2. IsFiniteSet(1..Len(log))
  BY <1>1, FS_Interval
<1>3. By(log, u, s) \subseteq 1..Len(log)
  BY <1>1 DEF By
<1>4. QED
  BY <1>1, <1>2, <1>3, FS_Subset, FS_CardinalityType

LEMMA ByAppend ==
  ASSUME NEW S, NEW log \in Seq(S), NEW e \in S, NEW u, NEW s
  PROVE  Cardinality(By(Append(log, e), u, s))
           = IF e.user = u /\ e.status = s
             THEN Cardinality(By(log, u, s)) + 1 ELSE Cardinality(By(log, u, s))
<1> DEFINE n == Len(log) + 1
<1>1. /\ Append(log, e) \in Seq(S) /\ Append(log, e)[n] = e
      /\ DOMAIN Append(log, e) = (DOMAIN log) \cup {n}
      /\ \A i \in DOMAIN log : Append(log, e)[i] = log[i]
  <2>1. DOMAIN log = 1..Len(log) /\ Len(log) \in Nat
    OBVIOUS
  <2>2. DOMAIN Append(log, e) = 1..n
    OBVIOUS
  <2>3. 1..n = (1..Len(log)) \cup {n}
    BY <2>1
  <2>4. QED
    BY <2>1, <2>2, <2>3
<1>2. By(Append(log, e), u, s) = IF e.user = u /\ e.status = s
                                 THEN By(log, u, s) \cup {n} ELSE By(log, u, s)
  <2> HIDE DEF n
  <2>1. QED
    BY <1>1 DEF By
<1>3. QED
  BY <1>2, ByFinite, FS_AddElement

\* A longer history accounts for no less.
LEMMA AccountedRow ==
  ASSUME NEW ds \in Seq(Decision), NEW rows \in Seq(HistoryRow),
         NEW row \in HistoryRow, Accounted(ds, rows)
  PROVE  Accounted(ds, Append(rows, row))
<1> SUFFICES ASSUME NEW u \in Users, NEW s \in DecidedStatuses
             PROVE  Cardinality(By(ds, u, s)) <= Cardinality(By(Append(rows, row), u, s))
  BY DEF Accounted
<1>1. Cardinality(By(ds, u, s)) \in Nat /\ Cardinality(By(rows, u, s)) \in Nat
  BY ByFinite
<1>2. Cardinality(By(ds, u, s)) <= Cardinality(By(rows, u, s))
  BY DEF Accounted
<1>3. Cardinality(By(Append(rows, row), u, s))
        = IF row.user = u /\ row.status = s
          THEN Cardinality(By(rows, u, s)) + 1 ELSE Cardinality(By(rows, u, s))
  BY ByAppend
<1>4. QED
  BY <1>1, <1>2, <1>3

\* A decision and its row.
LEMMA AccountedDecision ==
  ASSUME NEW ds \in Seq(Decision), NEW rows \in Seq(HistoryRow),
         NEW d \in Decision, NEW row \in HistoryRow,
         row.user = d.user, row.status = d.status, Accounted(ds, rows)
  PROVE  Accounted(Append(ds, d), Append(rows, row))
<1> SUFFICES ASSUME NEW u \in Users, NEW s \in DecidedStatuses
             PROVE  Cardinality(By(Append(ds, d), u, s))
                      <= Cardinality(By(Append(rows, row), u, s))
  BY DEF Accounted
<1>1. Cardinality(By(ds, u, s)) \in Nat /\ Cardinality(By(rows, u, s)) \in Nat
  BY ByFinite
<1>2. Cardinality(By(ds, u, s)) <= Cardinality(By(rows, u, s))
  BY DEF Accounted
<1>3. Cardinality(By(Append(rows, row), u, s))
        = IF row.user = u /\ row.status = s
          THEN Cardinality(By(rows, u, s)) + 1 ELSE Cardinality(By(rows, u, s))
  BY ByAppend
<1>4. Cardinality(By(Append(ds, d), u, s))
        = IF d.user = u /\ d.status = s
          THEN Cardinality(By(ds, u, s)) + 1 ELSE Cardinality(By(ds, u, s))
  BY ByAppend
<1>5. QED
  BY <1>1, <1>2, <1>3, <1>4

LEMMA AccountedNothing ==
  ASSUME NEW rows \in Seq(HistoryRow) PROVE Accounted(<< >>, rows)
<1>1. ASSUME NEW u, NEW s PROVE Cardinality(By(<< >>, u, s)) = 0
  BY FS_EmptySet DEF By
<1>2. QED
  BY <1>1, ByFinite DEF Accounted

LEMMA RecordedInit == Init => UnusedIds /\ DecisionsAreRecorded
<1> SUFFICES ASSUME Init PROVE UnusedIds /\ DecisionsAreRecorded
  OBVIOUS
<1>1. \A o \in Orders : decisions[o] = << >>
  BY DEF Init
<1>2. ASSUME NEW o \in Orders, orders[o].live PROVE o <= porSeq
  <2>1. PICK st \in [1..LoadedOrders -> LoadedStatuses], u \in Users :
          orders = [x \in Orders |->
            IF x <= LoadedOrders THEN LoadedOrder(st[x], u) ELSE NoOrder]
    BY DEF Init
  <2>2. ~NoOrder.live /\ porSeq = LoadedOrders
    BY DEF NoOrder, Init
  <2>3. QED
    BY <1>2, <2>1, <2>2
<1>3. \A o \in Orders : history[o] \in Seq(HistoryRow)
  BY InitType DEF TypeInv, TypeOK
<1>4. QED
  BY <1>1, <1>2, <1>3, AccountedNothing, RecordedByOrder DEF UnusedIds

\* A step that decides nothing and brings no order to life: a row may be added.
KeepsRecords ==
  /\ porSeq' = porSeq /\ decisions' = decisions
  /\ \A x \in Orders : orders'[x].live => orders[x].live
  /\ \/ history' = history
     \/ \E o \in Orders, row \in HistoryRow : history' = AddHistoryRow(o, row)

LEMMA KeepsRecorded ==
  ASSUME RecordedInv, KeepsRecords PROVE UnusedIds' /\ DecisionsAreRecorded'
<1>1. UnusedIds'
  BY DEF RecordedInv, KeepsRecords, UnusedIds
<1>2. decisions \in [Orders -> Seq(Decision)] /\ history \in [Orders -> Seq(HistoryRow)]
  BY DEF RecordedInv, TypeInv, TypeOK
<1>3. ASSUME NEW x \in Orders, orders'[x].live
      PROVE  Accounted(decisions'[x], history'[x])
  <2>1. Accounted(decisions[x], history[x]) /\ decisions'[x] = decisions[x]
    BY <1>3, RecordedByOrder DEF RecordedInv, KeepsRecords
  <2>2. ASSUME NEW o \in Orders, NEW row \in HistoryRow, history' = AddHistoryRow(o, row)
        PROVE  Accounted(decisions'[x], history'[x])
    <3>1. history'[x] = IF x = o THEN Append(history[x], row) ELSE history[x]
      BY <1>2, <2>2 DEF AddHistoryRow
    <3>2. QED
      BY <1>2, <2>1, <3>1, AccountedRow
  <2>3. QED
    BY <2>1, <2>2 DEF KeepsRecords
<1>4. QED
  BY <1>1, <1>3, RecordedByOrder DEF DecisionsAreRecorded, Accounted, By

LEMMA InsertRecorded ==
  ASSUME RecordedInv, TypeInv', NEW r \in Requests, InsertOrder(r)
  PROVE  UnusedIds' /\ DecisionsAreRecorded'
<1>1. /\ porSeq' = porSeq + 1 /\ porSeq + 1 \in Orders
      /\ \A x \in Orders \ {porSeq + 1} : orders'[x] = orders[x]
      /\ UNCHANGED <<decisions, history>>
  <2>1. porSeq < MaxOrders /\ porSeq \in 0..MaxOrders /\ orders \in [Orders -> Order]
    BY DEF InsertOrder, RecordedInv, TypeInv, TypeOK
  <2>2. porSeq + 1 \in Orders
    BY <2>1, BoundsAssumption DEF Orders
  <2>3. QED
    BY <2>1, <2>2 DEF InsertOrder
<1>2. porSeq \in Nat
  BY DEF RecordedInv, TypeInv, TypeOK
<1>3. Orders \subseteq Nat
  BY DEF Orders
<1>4. UnusedIds'
  BY <1>1, <1>2, <1>3 DEF RecordedInv, UnusedIds
<1>5. ASSUME NEW x \in Orders, orders'[x].live
      PROVE  Accounted(decisions'[x], history'[x])
  <2>1. CASE x = porSeq + 1
    <3>1. decisions'[x] = << >> /\ history'[x] \in Seq(HistoryRow)
      BY <1>1, <1>2, <2>1 DEF RecordedInv, UnusedIds, TypeInv, TypeOK
    <3>2. QED
      BY <3>1, AccountedNothing
  <2>2. CASE x # porSeq + 1
    BY <1>1, <1>5, <2>2, RecordedByOrder DEF RecordedInv
  <2>3. QED
    BY <2>1, <2>2
<1>6. QED
  BY <1>4, <1>5 DEF DecisionsAreRecorded, Accounted, By

LEMMA DeleteRecorded ==
  ASSUME RecordedInv, NEW r \in Requests, DeleteOrder(r)
  PROVE  UnusedIds' /\ DecisionsAreRecorded'
<1>1. PICK o \in 1..porSeq : /\ orders' = [orders EXCEPT ![o] = NoOrder]
                             /\ history' = [history EXCEPT ![o] = << >>]
                             /\ porSeq' = porSeq /\ decisions' = decisions
  BY DEF DeleteOrder
<1>2. o \in Orders
  BY InsertedOrders DEF RecordedInv
<1>3. orders \in [Orders -> Order] /\ history \in [Orders -> Seq(HistoryRow)]
  BY DEF RecordedInv, TypeInv, TypeOK
<1>4. ~orders'[o].live /\ \A x \in Orders \ {o} : orders'[x] = orders[x]
                                                  /\ history'[x] = history[x]
  BY <1>1, <1>2, <1>3 DEF NoOrder
<1>5. UnusedIds'
  BY <1>1, <1>4 DEF RecordedInv, UnusedIds
<1>6. DecisionsAreRecorded'
  BY <1>1, <1>4 DEF RecordedInv, DecisionsAreRecorded
<1>7. QED
  BY <1>5, <1>6

LEMMA DecideRecorded ==
  ASSUME RecordedInv, NEW r \in Requests, DecidePurchaseOrder(r)
  PROVE  UnusedIds' /\ DecisionsAreRecorded'
<1> DEFINE o == req[r].por
           row(s) == [previous |-> orders[o].status, status |-> s,
                      payment |-> orders[o].payment, user |-> req[r].user]
<1>1. PICK total \in Totals, decided \in DecidedStatuses, d \in Decision :
        /\ o \in Orders /\ req[r].user \in Users
        /\ Decidable(orders[o].status)
        /\ WithinLimit(total, req[r].limit)
        /\ d = [user |-> req[r].user, status |-> decided, total |-> total,
                limit |-> req[r].limit]
        /\ orders' = [orders EXCEPT ![o].status = decided, ![o].total = total]
        /\ decisions' = [decisions EXCEPT ![o] = Append(@, d)]
        /\ history' = AddHistoryRow(o, row(decided))
  BY DecisionPicked, Zenon DEF RecordedInv
<1>2. /\ orders \in [Orders -> Order] /\ decisions \in [Orders -> Seq(Decision)]
      /\ history \in [Orders -> Seq(HistoryRow)]
  BY DEF RecordedInv, TypeInv, TypeOK
<1>3. porSeq' = porSeq /\ orders[o].live
  BY DEF DecidePurchaseOrder
<1>4. PICK h : h = row(decided)
  OBVIOUS
<1>5. h \in HistoryRow /\ h.user = d.user /\ h.status = d.status
  BY <1>1, <1>2, <1>4, Texts DEF HistoryRow, Order
<1>6. history' = AddHistoryRow(o, h)
  BY <1>1, <1>4
<1> HIDE DEF o, row
<1>7. \A x \in Orders : orders'[x].live = orders[x].live
  BY <1>1, <1>2 DEF Order
<1>8. UnusedIds'
  <2>1. o <= porSeq
    BY <1>1, <1>3 DEF RecordedInv, UnusedIds
  <2>2. ASSUME NEW x \in Orders, x > porSeq PROVE decisions'[x] = << >>
    <3>1. x # o
      BY <1>1, <2>1, <2>2 DEF Orders, RecordedInv, TypeInv, TypeOK
    <3>2. decisions[x] = << >>
      BY <2>2 DEF RecordedInv, UnusedIds
    <3>3. QED
      BY <1>1, <1>2, <3>1, <3>2
  <2>3. QED
    BY <1>3, <1>7, <2>2 DEF RecordedInv, UnusedIds
<1>9. ASSUME NEW x \in Orders, orders'[x].live
      PROVE  Accounted(decisions'[x], history'[x])
  <2>1. Accounted(decisions[x], history[x])
    BY <1>7, <1>9, RecordedByOrder DEF RecordedInv
  <2>2. CASE x = o
    <3>1. decisions'[x] = Append(decisions[x], d) /\ history'[x] = Append(history[x], h)
      BY <1>1, <1>2, <1>6, <2>2 DEF AddHistoryRow
    <3>2. QED
      BY <1>2, <1>5, <2>1, <3>1, AccountedDecision
  <2>3. CASE x # o
    BY <1>1, <1>2, <1>6, <2>1, <2>3 DEF AddHistoryRow
  <2>4. QED
    BY <2>2, <2>3
<1>10. QED
  BY <1>8, <1>9 DEF DecisionsAreRecorded, Accounted, By

LEMMA SubmitKeeps ==
  ASSUME TypeInv, NEW r \in Requests, SubmitPurchaseOrder(r) PROVE KeepsRecords
<1>1. PICK u \in Users, o \in 1..porSeq :
        /\ \E total \in PriceOrder(o) :
             orders' = [orders EXCEPT ![o].status = "pending_approval", ![o].total = total]
        /\ history' = AddHistoryRow(o,
             [previous |-> orders[o].status, status |-> "pending_approval",
              payment |-> orders[o].payment, user |-> u])
        /\ UNCHANGED <<porSeq, decisions>>
  BY DEF SubmitPurchaseOrder
<1>2. o \in Orders /\ orders \in [Orders -> Order]
  BY InsertedOrders DEF TypeInv, TypeOK
<1>3. \A x \in Orders : orders'[x].live => orders[x].live
  BY <1>1, <1>2 DEF Order
<1>4. [previous |-> orders[o].status, status |-> "pending_approval",
       payment |-> orders[o].payment, user |-> u] \in HistoryRow
  BY <1>2, Texts DEF Order, HistoryRow
<1>5. QED
  BY <1>1, <1>2, <1>3, <1>4 DEF KeepsRecords

LEMMA AppendKeeps ==
  ASSUME TypeInv, NEW r \in Requests, AppendHistory(r) PROVE KeepsRecords
<1> DEFINE row == [previous |-> req[r].before.status, status |-> req[r].after.status,
                   payment |-> req[r].after.payment, user |-> req[r].user]
<1>1. req[r].pc = "append" /\ UNCHANGED <<orders, porSeq, decisions>>
  BY DEF AppendHistory
<1>2. history' = AddHistoryRow(req[r].por, row) \/ history' = history
  BY DEF AppendHistory
<1>3. /\ req[r] \in Request /\ req[r].user \in Users /\ req[r].por \in Orders
  BY <1>1 DEF TypeInv, TypeOK, RequestsWellFormed, WellFormed
<1>4. row \in HistoryRow
  BY <1>3 DEF Request, Snapshot, HistoryRow
<1>5. QED
  BY <1>1, <1>2, <1>3, <1>4 DEF KeepsRecords

LEMMA WriteKeeps ==
  ASSUME TypeInv, NEW r \in Requests, UpdateOrder(r) \/ SetPOStatus(r) \/ SyncDerive(r)
  PROVE  KeepsRecords
<1>1. orders' = OrdersWrittenBy(r) /\ UNCHANGED <<history, porSeq, decisions>>
  BY DEF UpdateOrder, SetPOStatus, SyncDerive
<1>2. req[r].por \in Orders
  BY DEF UpdateOrder, SetPOStatus, SyncDerive, TypeInv, RequestsWellFormed, WellFormed
<1>3. orders \in [Orders -> Order]
  BY DEF TypeInv, TypeOK
<1>4. \A x \in Orders : orders'[x].live => orders[x].live
  BY <1>1, <1>2, <1>3 DEF OrdersWrittenBy, Order
<1>5. QED
  BY <1>1, <1>4 DEF KeepsRecords

LEMMA RestartKeeps == ASSUME TypeInv, Restart PROVE KeepsRecords
<1>1. ASSUME NEW x \in Orders, orders'[x].live PROVE orders[x].live
  BY <1>1 DEF Restart, TypeInv, TypeOK, Order
<1>2. QED
  BY <1>1 DEF Restart, KeepsRecords

LEMMA SameRecords ==
  ASSUME UNCHANGED <<orders, history, porSeq, decisions>> PROVE KeepsRecords
BY DEF KeepsRecords

LEMMA RecordedStep == RecordedInv /\ [Next]_vars => RecordedInv'
<1> SUFFICES ASSUME RecordedInv, [Next]_vars PROVE RecordedInv'
  OBVIOUS
<1>1. TypeInv /\ TypeInv'
  BY NextType DEF RecordedInv
<1> DEFINE Holds == UnusedIds' /\ DecisionsAreRecorded'
<1>2. KeepsRecords => Holds
  BY KeepsRecorded
<1>3. ASSUME NEW r \in Requests, Start(r) PROVE Holds
  <2>1. CASE StartUpdateOrder(r) \/ StartSetPOStatus(r) \/ StartDecidePurchaseOrder(r)
             \/ StartDeleteLine(r)
    BY <1>2, <2>1, SameRecords
    DEF StartUpdateOrder, StartSetPOStatus, StartDecidePurchaseOrder, StartDeleteLine, dbVars
  <2>2. CASE InsertLine(r) \/ UpdateLine(r) \/ SetApprovalLimit(r) \/ DeleteUser(r)
    BY <1>2, <2>2, SameRecords DEF InsertLine, UpdateLine, SetApprovalLimit, DeleteUser
  <2>3. CASE SubmitPurchaseOrder(r)
    BY <1>1, <1>2, <2>3, SubmitKeeps
  <2>4. CASE InsertOrder(r)
    BY <1>1, <2>4, InsertRecorded
  <2>5. CASE DeleteOrder(r)
    BY <2>5, DeleteRecorded
  <2>6. QED
    BY SMTT(30), <1>3, <2>1, <2>2, <2>3, <2>4, <2>5 DEF Start
<1>4. ASSUME NEW r \in Requests, Continue(r) PROVE Holds
  <2>1. CASE RecordPOStatusChange(r) \/ ReadLineParent(r) \/ SyncSnapshot(r) \/ SyncSum(r)
             \/ RefuseDecision(r)
    BY <1>2, <2>1, SameRecords
    DEF RecordPOStatusChange, ReadLineParent, SyncSnapshot, SyncSum, RefuseDecision, dbVars
  <2>2. CASE DeleteLine(r)
    BY <1>2, <2>2, SameRecords DEF DeleteLine
  <2>3. CASE UpdateOrder(r) \/ SetPOStatus(r) \/ SyncDerive(r)
    BY <1>1, <1>2, <2>3, WriteKeeps
  <2>4. CASE AppendHistory(r)
    BY <1>1, <1>2, <2>4, AppendKeeps
  <2>5. CASE DecidePurchaseOrder(r)
    BY <2>5, DecideRecorded
  <2>6. QED
    BY <1>4, <2>1, <2>2, <2>3, <2>4, <2>5 DEF Continue
<1>5. ASSUME NEW r \in Requests, Abort(r) PROVE Holds
  BY <1>2, <1>5, SameRecords DEF Abort, dbVars
<1>6. ASSUME UNCHANGED vars PROVE Holds
  BY <1>2, <1>6, SameRecords DEF vars
<1>7. Holds
  BY <1>1, <1>2, <1>3, <1>4, <1>5, <1>6, RestartKeeps DEF Next, AwaitRequest
<1>8. QED
  BY <1>1, <1>7 DEF RecordedInv

\* No decision is lost: for any number of orders, requests and faults, every
\* decision that was answered has its row in the history of its order, per user
\* and outcome, for as long as the order exists.
THEOREM DecisionsCorrect == Spec => []DecisionsAreRecorded
<1>1. Init => RecordedInv
  BY InitType, RecordedInit DEF RecordedInv
<1>2. RecordedInv => DecisionsAreRecorded
  BY DEF RecordedInv
<1>3. QED
  BY <1>1, <1>2, RecordedStep, PTL DEF Spec

-----------------------------------------------------------------------------
(* One request at a time: what the code means to keep up, and does when no  *)
(* other request comes between its statements, wherever one is cut off.     *)

OneAtATime == MaxInFlight = 1

\* The statuses the receipts call for: they depend on the lines alone.
Derived == [o \in Orders |-> DerivedStatus(o)]

SnapshotIn(table, o) ==
  IF table[o].live THEN [status |-> table[o].status, payment |-> table[o].payment]
  ELSE NoSnapshot

\* What a request has read is still so, and what it wrote is what it meant to.
Sound(q, table, derived, components) ==
  LET o == q.por IN
  /\ q.pc = "parent" => o = 0
  /\ q.pc \in {"update", "setStatus", "decide"} => q.poc = 0
  /\ q.pc = "lineDelete" => components[q.poc].live
  /\ q.pc \in {"setStatus", "sum", "derive", "record", "append"} => table[o].live
  /\ q.pc \in {"update", "setStatus", "sum", "derive"} => q.before = SnapshotIn(table, o)
  /\ q.pc \in {"sum", "derive"} => table[o].status \in POReceiptStatuses
  /\ q.pc = "derive" => q.status = derived[o]
  /\ q.pc \in {"record", "append"} =>
       /\ table[o].status \in DecidedStatuses => q.before.status = table[o].status
       /\ q.poc # 0 => table[o].status = derived[o]
  /\ q.pc = "append" => q.after = SnapshotIn(table, o)

Alone(r) == \A x \in Requests \ {r} : req[x] = Idle

SerialInv ==
  /\ TypeInv /\ PendingWritesUndecided
  /\ \A r \in Requests : req[r] # Idle => Alone(r)
  /\ \A r \in Requests : Sound(req[r], orders, Derived, lines)

UnusedHistories == \A o \in Orders : o > porSeq => history[o] = << >>

Chained(rows) ==
  /\ \A i \in 1..Len(rows) - 1 : rows[i + 1].previous = rows[i].status
  /\ rows # << >> => rows[1].previous = ""

LastOf(rows) ==
  IF rows = << >> THEN NoSnapshot
  ELSE [status |-> rows[Len(rows)].status, payment |-> rows[Len(rows)].payment]

Writes(q, o) == q.pc \in {"record", "append"} /\ q.por = o

Told(rows, table, o) == Chained(rows) /\ LastOf(rows) = SnapshotIn(table, o)

StoryInv ==
  \A o \in Orders : orders[o].live =>
    /\ \A r \in Requests : Writes(req[r], o) => /\ Chained(history[o])
                                               /\ LastOf(history[o]) = req[r].before
    /\ (\A r \in Requests : ~Writes(req[r], o)) => Told(history[o], orders, o)

-----------------------------------------------------------------------------
(* Requests that run alone.                                                *)

\* The quantities of an order, as functions of the lines alone.
OrderedIn(components, o) ==
  MapThenSumSet(LAMBDA l : components[l].qty,
                {l \in Lines : components[l].live /\ components[l].por = o})

ReceivedIn(components, o) ==
  MapThenSumSet(LAMBDA l : components[l].recv,
                {l \in Lines : components[l].live /\ components[l].por = o})

DerivedIn(components, o) ==
  IF OrderedIn(components, o) > 0 /\ ReceivedIn(components, o) >= OrderedIn(components, o)
  THEN "received" ELSE "partially_received"

LEMMA DerivedIs ==
  ASSUME NEW o
  PROVE  /\ ReceivedQty(o) = ReceivedIn(lines, o) /\ ReceivedQty(o)' = ReceivedIn(lines', o)
         /\ DerivedStatus(o) = DerivedIn(lines, o) /\ DerivedStatus(o)' = DerivedIn(lines', o)
<1>1. ReceivedQty(o) = ReceivedIn(lines, o)
  BY DEF ReceivedQty, LinesOf, ReceivedIn
<1>2. ReceivedQty(o)' = ReceivedIn(lines', o)
  BY DEF ReceivedQty, LinesOf, ReceivedIn, MapThenSumSet, MapThenFoldSet
<1>3. OrderedQty(o) = OrderedIn(lines, o)
  BY DEF OrderedQty, LinesOf, OrderedIn
<1>4. OrderedQty(o)' = OrderedIn(lines', o)
  BY DEF OrderedQty, LinesOf, OrderedIn, MapThenSumSet, MapThenFoldSet
<1>5. DerivedStatus(o) = DerivedIn(lines, o)
  BY <1>1, <1>3 DEF DerivedStatus, DerivedIn
<1>6. DerivedStatus(o)' = DerivedIn(lines', o)
  BY <1>2, <1>4 DEF DerivedStatus, DerivedIn
<1>7. QED
  BY <1>1, <1>2, <1>5, <1>6

LEMMA DerivedSame ==
  ASSUME lines' = lines
  PROVE  /\ Derived' = Derived
         /\ \A o : DerivedStatus(o)' = DerivedStatus(o) /\ ReceivedQty(o)' = ReceivedQty(o)
BY DerivedIs DEF Derived

LEMMA SnapshotInIs ==
  ASSUME NEW o PROVE PurchaseOrderSnapshot(o) = SnapshotIn(orders, o)
BY DEF PurchaseOrderSnapshot, SnapshotIn

LEMMA IdleSound ==
  ASSUME NEW table, NEW derived, NEW components
  PROVE  Sound(Idle, table, derived, components)
BY DEF Sound, Idle

\* A new request finds nobody else at work.
LEMMA BeginsAlone ==
  ASSUME OneAtATime, SerialInv, NEW r \in Requests, Begin(r)
  PROVE  \A x \in Requests : req[x] = Idle
<1>1. SUFFICES ASSUME NEW x \in Requests, req[x] # Idle PROVE FALSE
  OBVIOUS
<1>2. {q \in Requests : req[q] # Idle} = {x}
  BY <1>1 DEF SerialInv, Alone
<1>3. Cardinality({x}) = 1
  BY FS_Singleton
<1>4. QED
  BY <1>2, <1>3 DEF Begin, OneAtATime

\* A step of the only request leaves it, and it alone, as it must be.
LEMMA SerialMove ==
  ASSUME SerialInv, TypeInv', PendingWritesUndecided', NEW r \in Requests, Alone(r), NEW q,
         req' = [req EXCEPT ![r] = q], Sound(q, orders', Derived', lines')
  PROVE  SerialInv'
<1>1. req \in [Requests -> Request]
  BY DEF SerialInv, TypeInv, TypeOK
<1>2. req'[r] = q /\ \A x \in Requests \ {r} : req'[x] = Idle
  BY <1>1 DEF Alone
<1>3. \A x \in Requests : req'[x] # Idle => \A y \in Requests \ {x} : req'[y] = Idle
  BY <1>2
<1>4. ASSUME NEW x \in Requests PROVE Sound(req'[x], orders', Derived', lines')
  BY <1>2, IdleSound
<1>5. QED
  BY <1>3, <1>4 DEF SerialInv, Alone

\* When nobody is at work, the tables may change.
LEMMA SerialIdle ==
  ASSUME SerialInv, TypeInv', PendingWritesUndecided', \A x \in Requests : req[x] = Idle,
         req' = req
  PROVE  SerialInv'
BY IdleSound DEF SerialInv, Alone

\* A request that begins.
LEMMA StartSerial ==
  ASSUME OneAtATime, SerialInv, TypeInv', PendingWritesUndecided', NEW r \in Requests, Start(r)
  PROVE  SerialInv'
<1> DEFINE Begun(q) == req' = [req EXCEPT ![r] = q] /\ Sound(q, orders', Derived', lines')
<1>1. Begin(r)
  BY DEF Start, InsertOrder, StartUpdateOrder, DeleteOrder, StartSetPOStatus, InsertLine,
         UpdateLine, StartDeleteLine, SubmitPurchaseOrder, StartDecidePurchaseOrder,
         SetApprovalLimit, DeleteUser
<1>2. \A x \in Requests : req[x] = Idle
  BY <1>1, BeginsAlone
<1>3. ASSUME NEW q, Begun(q) PROVE SerialInv'
  BY <1>1, <1>2, <1>3, SerialMove DEF Alone
<1>4. TypeInv /\ orders \in [Orders -> Order]
  BY DEF SerialInv, TypeInv, TypeOK
<1>5. CASE InsertOrder(r)
  <2>1. PICK u, s, p, row, q :
          /\ u \in Users /\ s \in Statuses \cup {""} /\ p \in Payments \cup {""}
          /\ porSeq < MaxOrders /\ GuardDecidedStatus(s)
          /\ orders' = [orders EXCEPT ![porSeq + 1] = row]
          /\ row = [live |-> TRUE, status |-> s, payment |-> p, total |-> 0, user |-> u]
          /\ req' = [req EXCEPT ![r] = q]
          /\ q = [Idle EXCEPT !.pc = "record", !.user = u, !.por = porSeq + 1]
    BY <1>5 DEF InsertOrder
  <2>2. q.pc = "record" /\ q.por = porSeq + 1 /\ q.poc = 0
    BY <2>1 DEF Idle
  <2>3. porSeq + 1 \in Orders
    BY <1>4, <2>1, InsertedOrders
  <2>4. orders'[porSeq + 1] = row
    BY <1>4, <2>1, <2>3
  <2>5. row.live /\ row.status \notin DecidedStatuses
    BY <2>1 DEF GuardDecidedStatus
  <2>6. Sound(q, orders', Derived', lines')
    BY <2>2, <2>4, <2>5 DEF Sound
  <2>7. QED
    BY <1>3, <2>1, <2>6
<1>6. CASE StartUpdateOrder(r)
  <2>1. PICK u, o, s, p, q :
          /\ u \in Users
          /\ o \in 1..porSeq
          /\ s \in Statuses \cup {"", Keep}
          /\ p \in Payments \cup {"", Keep}
          /\ req' = [req EXCEPT ![r] = q]
          /\ q = [Idle EXCEPT !.pc = "update", !.user = u, !.por = o, !.status = s,
                     !.payment = p, !.before = PurchaseOrderSnapshot(o)]
    BY ZenonT(30), <1>6 DEF StartUpdateOrder
  <2>2. q.pc = "update" /\ q.por = o /\ q.poc = 0 /\ q.before = PurchaseOrderSnapshot(o)
    BY <2>1 DEF Idle
  <2>3. orders' = orders
    BY <1>6 DEF StartUpdateOrder, dbVars
  <2>4. Sound(q, orders', Derived', lines')
    BY <2>2, <2>3, SnapshotInIs DEF Sound
  <2>5. QED
    BY <1>3, <2>1, <2>4
<1>7. CASE StartSetPOStatus(r)
  <2>1. PICK u, o, s, p, q :
          /\ u \in Users /\ o \in 1..porSeq /\ s \in StatusRequests /\ p \in PaymentRequests
          /\ orders[o].live
          /\ req' = [req EXCEPT ![r] = q]
          /\ q = [Idle EXCEPT !.pc = "setStatus", !.user = u, !.por = o,
                     !.status = KeepIfEmpty(s), !.payment = KeepIfEmpty(p),
                     !.before = PurchaseOrderSnapshot(o)]
    BY <1>7 DEF StartSetPOStatus
  <2>2. q.pc = "setStatus" /\ q.por = o /\ q.poc = 0 /\ q.before = PurchaseOrderSnapshot(o)
    BY <2>1 DEF Idle
  <2>3. orders' = orders
    BY <1>7 DEF StartSetPOStatus, dbVars
  <2>4. Sound(q, orders', Derived', lines')
    BY <2>1, <2>2, <2>3, SnapshotInIs DEF Sound
  <2>5. QED
    BY <1>3, <2>1, <2>4
<1>8. CASE InsertLine(r) \/ UpdateLine(r)
  <2>1. PICK u, l, q : req' = [req EXCEPT ![r] = q] /\ q = LineRequest(u, l, "parent")
    BY <1>8 DEF InsertLine, UpdateLine
  <2>2. q.pc = "parent" /\ q.por = 0
    BY <2>1 DEF LineRequest, Idle
  <2>3. Sound(q, orders', Derived', lines')
    BY <2>2 DEF Sound
  <2>4. QED
    BY <1>3, <2>1, <2>3
<1>9. CASE StartDeleteLine(r)
  <2>1. PICK u, l, q :
          /\ u \in Users /\ l \in 1..pocSeq
          /\ lines[l].live
          /\ req' = [req EXCEPT ![r] = q]
          /\ q = [LineRequest(u, l, "lineDelete") EXCEPT !.por = lines[l].por]
    BY <1>9 DEF StartDeleteLine
  <2>2. q.pc = "lineDelete" /\ q.poc = l
    BY <2>1 DEF LineRequest, Idle
  <2>3. lines' = lines
    BY <1>9 DEF StartDeleteLine, dbVars
  <2>4. Sound(q, orders', Derived', lines')
    BY <2>1, <2>2, <2>3 DEF Sound
  <2>5. QED
    BY <1>3, <2>1, <2>4
<1>10. CASE StartDecidePurchaseOrder(r)
  <2>1. PICK u, o, q :
          /\ u \in Users /\ o \in 1..porSeq
          /\ req' = [req EXCEPT ![r] = q]
          /\ q = [Idle EXCEPT !.pc = "decide", !.user = u, !.por = o, !.limit = ApprovalLimit(u)]
    BY <1>10 DEF StartDecidePurchaseOrder
  <2>2. q.pc = "decide" /\ q.poc = 0
    BY <2>1 DEF Idle
  <2>3. Sound(q, orders', Derived', lines')
    BY <2>2 DEF Sound
  <2>4. QED
    BY <1>3, <2>1, <2>3
<1>11. CASE DeleteOrder(r) \/ SubmitPurchaseOrder(r) \/ SetApprovalLimit(r) \/ DeleteUser(r)
  <2>1. req' = req
    BY <1>11 DEF DeleteOrder, SubmitPurchaseOrder, SetApprovalLimit, DeleteUser
  <2>2. QED
    BY <1>1, <1>2, <2>1, SerialIdle
<1>12. QED
  BY <1>5, <1>6, <1>7, <1>8, <1>9, <1>10, <1>11 DEF Start

\* What UPDATE purchase_orders does to the rows.
LEMMA WrittenIs ==
  ASSUME TypeInv, NEW r \in Requests, req[r].por \in Orders, orders' = OrdersWrittenBy(r)
  PROVE  LET o == req[r].por IN
         /\ \A x \in Orders : x # o => orders'[x] = orders[x]
         /\ orders'[o].live = orders[o].live
         /\ orders[o].live =>
              /\ orders'[o].status = Written(orders[o].status, req[r].status)
              /\ orders'[o].payment = Written(orders[o].payment, req[r].payment)
         /\ ~orders[o].live => orders' = orders
<1> DEFINE o == req[r].por
           s == Written(orders[o].status, req[r].status)
           p == Written(orders[o].payment, req[r].payment)
<1>1. orders \in [Orders -> Order]
  BY DEF TypeInv, TypeOK
<1>2. CASE ~orders[o].live
  BY <1>2 DEF OrdersWrittenBy
<1>3. CASE orders[o].live
  <2>1. orders' = [orders EXCEPT ![o].status = s, ![o].payment = p]
    BY <1>3 DEF OrdersWrittenBy
  <2> HIDE DEF o, s, p
  <2>2. o \in Orders
    BY DEF o
  <2>3. /\ orders'[o].status = s /\ orders'[o].payment = p /\ orders'[o].live = orders[o].live
        /\ \A x \in Orders \ {o} : orders'[x] = orders[x]
    BY <1>1, <2>1, <2>2 DEF Order
  <2>4. QED
    BY <1>3, <2>3 DEF o, s, p
<1>4. QED
  BY <1>2, <1>3

\* A request that has written columns of its order is about to record them.
LEMMA WriterSound ==
  ASSUME SerialInv, NEW r \in Requests, req[r].por \in Orders, orders[req[r].por].live,
         orders' = OrdersWrittenBy(r), lines' = lines, NEW q,
         q = [req[r] EXCEPT !.pc = "record"],
         req[r].pc \in {"update", "setStatus", "derive"}
  PROVE  Sound(q, orders', Derived', lines')
<1> DEFINE o == req[r].por
<1>1. TypeInv /\ Sound(req[r], orders, Derived, lines) /\ req[r].status \notin DecidedStatuses
  BY DEF SerialInv, PendingWritesUndecided
<1>2. req[r] \in Request
  BY <1>1 DEF TypeInv, TypeOK
<1>3. q.pc = "record" /\ q.por = o /\ q.poc = req[r].poc /\ q.before = req[r].before
  BY <1>2 DEF Request
<1>4. orders'[o].live /\ orders'[o].status = Written(orders[o].status, req[r].status)
  BY <1>1, WrittenIs
<1>5. q.before.status = orders[o].status
  BY <1>1, <1>3 DEF Sound, SnapshotIn
<1>6. orders'[o].status \in DecidedStatuses => q.before.status = orders'[o].status
  BY <1>1, <1>4, <1>5 DEF Written
<1>7. ASSUME q.poc # 0 PROVE orders'[o].status = Derived'[o]
  <2>1. req[r].pc = "derive" /\ req[r].status = Derived[o]
    BY <1>1, <1>3, <1>7 DEF Sound
  <2>2. Derived[o] \in {"received", "partially_received"}
    BY DEF Derived, DerivedStatus
  <2>3. orders'[o].status = Derived[o]
    BY <1>4, <2>1, <2>2 DEF Written, Keep
  <2>4. QED
    BY <2>3, DerivedSame
<1>8. QED
  BY <1>3, <1>4, <1>6, <1>7 DEF Sound

\* A request that goes on to its next statement.
LEMMA ContinueSerial ==
  ASSUME SerialInv, TypeInv', PendingWritesUndecided', NEW r \in Requests, Continue(r)
  PROVE  SerialInv'
<1> DEFINE Becomes(q) == req' = [req EXCEPT ![r] = q] /\ Sound(q, orders', Derived', lines')
<1>1. req[r].pc # "idle"
  BY DEF Continue, UpdateOrder, SetPOStatus, RecordPOStatusChange, AppendHistory, ReadLineParent,
         DeleteLine, SyncSnapshot, SyncSum, SyncDerive, DecidePurchaseOrder, RefuseDecision
<1>2. Alone(r)
  BY <1>1 DEF SerialInv, Idle
<1>3. ASSUME NEW q, Becomes(q) PROVE SerialInv'
  BY <1>1, <1>2, <1>3, SerialMove
<1>4. /\ TypeInv /\ req \in [Requests -> Request]
      /\ Sound(req[r], orders, Derived, lines)
      /\ req[r].pc \notin {"idle", "parent"} => req[r].por \in Orders
  BY DEF SerialInv, TypeInv, TypeOK, RequestsWellFormed, WellFormed
<1>5. ASSUME Finish(r) PROVE SerialInv'
  BY <1>3, <1>5, IdleSound DEF Finish
<1>6. CASE UpdateOrder(r) \/ SetPOStatus(r) \/ SyncDerive(r)
  <2>1. CASE Finish(r)
    BY <1>5, <2>1
  <2>2. CASE ~Finish(r)
    <3>1. /\ orders' = OrdersWrittenBy(r) /\ lines' = lines
          /\ req[r].pc \in {"update", "setStatus", "derive"}
          /\ Goto(r, "record")
          /\ UpdateOrder(r) => orders[req[r].por].live
      BY <1>6, <2>2 DEF UpdateOrder, SetPOStatus, SyncDerive
    <3>2. orders[req[r].por].live
      BY <1>4, <1>6, <3>1 DEF Sound, SetPOStatus, SyncDerive
    <3>3. PICK q : q = [req[r] EXCEPT !.pc = "record"]
      OBVIOUS
    <3>4. Sound(q, orders', Derived', lines')
      BY <1>4, <3>1, <3>2, <3>3, WriterSound
    <3>5. req' = [req EXCEPT ![r] = q]
      BY <1>4, <3>1, <3>3 DEF Goto
    <3>6. QED
      BY <1>3, <3>4, <3>5
  <2>3. QED
    BY <2>1, <2>2
<1>7. CASE RecordPOStatusChange(r)
  <2>1. CASE Finish(r)
    BY <1>5, <2>1
  <2>2. CASE ~Finish(r)
    <3>1. PICK after, q :
            /\ after = PurchaseOrderSnapshot(req[r].por)
            /\ req' = [req EXCEPT ![r] = q]
            /\ q = [req[r] EXCEPT !.pc = "append", !.after = after]
      BY <1>4, <1>7, <2>2 DEF RecordPOStatusChange
    <3>2. /\ q.pc = "append" /\ q.por = req[r].por /\ q.poc = req[r].poc
          /\ q.before = req[r].before /\ q.after = after
      BY <1>4, <3>1 DEF Request
    <3>3. req[r].pc = "record" /\ orders' = orders /\ Derived' = Derived
      BY <1>7, DerivedSame DEF RecordPOStatusChange, dbVars
    <3>4. Sound(q, orders', Derived', lines')
      BY SMTT(30), <1>4, <3>1, <3>2, <3>3, SnapshotInIs DEF Sound
    <3>5. QED
      BY <1>3, <3>1, <3>4
  <2>3. QED
    BY <2>1, <2>2
<1>8. CASE AppendHistory(r) \/ DecidePurchaseOrder(r) \/ RefuseDecision(r)
  BY <1>5, <1>8 DEF AppendHistory, DecidePurchaseOrder, RefuseDecision
<1>9. CASE ReadLineParent(r) \/ DeleteLine(r)
  <2>1. CASE Finish(r)
    BY <1>5, <2>1
  <2>2. CASE ~Finish(r)
    <3>1. PICK q : req' = [req EXCEPT ![r] = q] /\ q.pc = "sync"
      <4>1. CASE ReadLineParent(r)
        <5>1. PICK por, q :
                /\ req' = [req EXCEPT ![r] = q]
                /\ q = [req[r] EXCEPT !.pc = "sync", !.por = por]
          BY <1>4, <2>2, <4>1 DEF ReadLineParent
        <5>2. q.pc = "sync"
          BY <1>4, <5>1 DEF Request
        <5>3. QED
          BY <5>1, <5>2
      <4>2. CASE DeleteLine(r)
        <5>1. PICK q : req' = [req EXCEPT ![r] = q] /\ q = [req[r] EXCEPT !.pc = "sync"]
          BY <1>4, <2>2, <4>2 DEF DeleteLine, Goto
        <5>2. q.pc = "sync"
          BY <1>4, <5>1 DEF Request
        <5>3. QED
          BY <5>1, <5>2
      <4>3. QED
        BY <1>9, <4>1, <4>2
    <3>2. Sound(q, orders', Derived', lines')
      BY <3>1 DEF Sound
    <3>3. QED
      BY <1>3, <3>1, <3>2
  <2>3. QED
    BY <2>1, <2>2
<1>10. CASE SyncSnapshot(r)
  <2>1. CASE Finish(r)
    BY <1>5, <2>1
  <2>2. CASE ~Finish(r)
    <3>1. PICK before, q :
            /\ before = PurchaseOrderSnapshot(req[r].por)
            /\ orders[req[r].por].live /\ MovedByReceipts(orders[req[r].por].status)
            /\ req' = [req EXCEPT ![r] = q]
            /\ q = [req[r] EXCEPT !.pc = "sum", !.before = before]
      BY <1>4, <1>10, <2>2 DEF SyncSnapshot
    <3>2. q.pc = "sum" /\ q.por = req[r].por /\ q.before = before
      BY <1>4, <3>1 DEF Request
    <3>3. orders' = orders
      BY <1>10 DEF SyncSnapshot, dbVars
    <3>4. Sound(q, orders', Derived', lines')
      BY <3>1, <3>2, <3>3, SnapshotInIs DEF Sound, MovedByReceipts
    <3>5. QED
      BY <1>3, <3>1, <3>4
  <2>3. QED
    BY <2>1, <2>2
<1>11. CASE SyncSum(r)
  <2>1. CASE Finish(r)
    BY <1>5, <2>1
  <2>2. CASE ~Finish(r)
    <3>1. PICK next, q :
            /\ next = DerivedStatus(req[r].por)
            /\ req' = [req EXCEPT ![r] = q]
            /\ q = [req[r] EXCEPT !.pc = "derive", !.status = next]
      BY <1>4, <1>11, <2>2 DEF SyncSum
    <3>2. q.pc = "derive" /\ q.por = req[r].por /\ q.before = req[r].before /\ q.status = next
      BY <1>4, <3>1 DEF Request
    <3>3. req[r].pc = "sum" /\ orders' = orders /\ Derived' = Derived
      BY <1>11, DerivedSame DEF SyncSum, dbVars
    <3>4. Derived[req[r].por] = next
      BY <1>4, <3>1, <3>3 DEF Derived
    <3>5. Sound(q, orders', Derived', lines')
      BY <1>4, <3>2, <3>3, <3>4 DEF Sound
    <3>6. QED
      BY <1>3, <3>1, <3>5
  <2>3. QED
    BY <2>1, <2>2
<1>12. QED
  BY SMTT(30), <1>6, <1>7, <1>8, <1>9, <1>10, <1>11 DEF Continue

LEMMA SerialInit == Init => SerialInv
<1> SUFFICES ASSUME Init PROVE SerialInv
  OBVIOUS
<1>1. TypeInv /\ PendingWritesUndecided
  BY InitType, SigningInit
<1>2. \A r \in Requests : req[r] = Idle
  BY DEF Init
<1>3. QED
  BY <1>1, <1>2, IdleSound DEF SerialInv, Alone

LEMMA SerialStep == OneAtATime /\ SerialInv /\ [Next]_vars => SerialInv'
<1> SUFFICES ASSUME OneAtATime, SerialInv, [Next]_vars PROVE SerialInv'
  OBVIOUS
<1>1. TypeInv' /\ PendingWritesUndecided'
  BY NextType, PendingStep DEF SerialInv
<1>2. ASSUME NEW r \in Requests, Abort(r) PROVE SerialInv'
  <2>1. Alone(r)
    BY <1>2 DEF SerialInv, Abort
  <2>2. req' = [req EXCEPT ![r] = Idle]
    BY <1>2 DEF Abort, Finish
  <2>3. QED
    BY <1>1, <2>1, <2>2, IdleSound, SerialMove
<1>3. ASSUME UNCHANGED vars PROVE SerialInv'
  <2>1. Derived' = Derived
    BY <1>3, DerivedSame DEF vars
  <2>2. QED
    BY <1>1, <1>3, <2>1 DEF SerialInv, Alone, vars
<1>4. CASE Restart
  <2>1. \A r \in Requests : req'[r] = Idle
    BY <1>4 DEF Restart
  <2>2. QED
    BY <1>1, <2>1, IdleSound DEF SerialInv, Alone
<1>5. QED
  BY <1>1, <1>2, <1>3, <1>4, StartSerial, ContinueSerial DEF Next, AwaitRequest

\* Only what is counted as a fault is one.
LEMMA FaultsAreFaults ==
  ASSUME [Next]_vars, ~Restart, \A r \in Requests : ~Abort(r)
  PROVE  faults' = faults
<1>1. ASSUME NEW r \in Requests, Start(r) PROVE faults' = faults
  BY ZenonT(30), <1>1 DEF Start, Begin, InsertOrder, StartUpdateOrder, DeleteOrder, StartSetPOStatus, InsertLine,
         UpdateLine, StartDeleteLine, SubmitPurchaseOrder, StartDecidePurchaseOrder,
         SetApprovalLimit, DeleteUser
<1>2. ASSUME NEW r \in Requests, Continue(r) PROVE faults' = faults
  BY <1>2 DEF Continue, UpdateOrder, SetPOStatus, RecordPOStatusChange, AppendHistory, ReadLineParent,
         DeleteLine, SyncSnapshot, SyncSum, SyncDerive, DecidePurchaseOrder, RefuseDecision
<1>3. QED
  BY <1>1, <1>2 DEF Next, AwaitRequest, vars

\* What is counted stays a number.
LEMMA FaultsCounted ==
  ASSUME faults \in Nat, [Next]_vars PROVE faults' \in Nat
<1>1. CASE Restart \/ \E r \in Requests : Abort(r)
  <2>1. faults' = faults + 1
    BY <1>1 DEF Restart, Abort
  <2>2. QED
    BY <2>1
<1>2. QED
  BY <1>1, FaultsAreFaults

\* A request at work moves by its own steps alone, unless something fails.
LEMMA OnlyItself ==
  ASSUME OneAtATime, SerialInv, [Next]_vars, NEW r \in Requests, req[r] # Idle,
         faults \in Nat, faults' = faults
  PROVE  Continue(r) \/ UNCHANGED vars
<1>1. ~Restart /\ \A x \in Requests : ~Abort(x)
  <2>1. faults' # faults + 1
    OBVIOUS
  <2>2. QED
    BY <2>1 DEF Restart, Abort
<1>2. ASSUME NEW x \in Requests, Start(x) PROVE FALSE
  <2>1. Begin(x)
    BY ZenonT(30), <1>2 DEF Start, InsertOrder, StartUpdateOrder, DeleteOrder, StartSetPOStatus, InsertLine,
           UpdateLine, StartDeleteLine, SubmitPurchaseOrder, StartDecidePurchaseOrder,
           SetApprovalLimit, DeleteUser
  <2>2. QED
    BY <2>1, BeginsAlone
<1>3. ASSUME NEW x \in Requests, Continue(x) PROVE x = r
  <2>1. req[x].pc # "idle"
    BY <1>3 DEF Continue, UpdateOrder, SetPOStatus, RecordPOStatusChange, AppendHistory,
           ReadLineParent, DeleteLine, SyncSnapshot, SyncSum, SyncDerive, DecidePurchaseOrder,
           RefuseDecision
  <2>2. req[x] # Idle
    BY <2>1 DEF Idle
  <2>3. QED
    BY <2>2 DEF SerialInv, Alone
<1>4. QED
  BY <1>1, <1>2, <1>3 DEF Next, AwaitRequest

\* Receipts move an order that is in the fulfilment part of the lifecycle at that
\* moment, while requests come one at a time; how two of them break this is for
\* the reader of syncPOReceiptStatus to see: it reads, sums and writes.
THEOREM DerivationCorrect == OneAtATime => (Spec => DerivationSparesOthers)
<1> SUFFICES ASSUME OneAtATime PROVE Spec => DerivationSparesOthers
  OBVIOUS
<1>1. Init => SerialInv
  BY SerialInit
<1>2. SerialInv /\ [Next]_vars => SerialInv'
  BY SerialStep
<1>3. SerialInv => \A r \in Requests : req[r].pc = "derive" =>
                       orders[req[r].por].status \in POReceiptStatuses
  BY DEF SerialInv, Sound
<1>4. SerialInv /\ [Next]_vars =>
        [\A r \in Requests :
           /\ req[r].pc = "derive" /\ req'[r].pc = "record"
           /\ orders' # orders
           => orders[req[r].por].status \in POReceiptStatuses]_vars
  BY <1>3
<1>5. QED
  BY <1>1, <1>2, <1>4, PTL DEF Spec, DerivationSparesOthers

\* The end of the write of a line, when nobody else is at work.
LEMMA ReceiptsAreFresh ==
  ASSUME OneAtATime, SerialInv, [Next]_vars, NEW r \in Requests, NEW o \in Orders,
         req[r].poc # 0, req[r].por = o, AllIdle', faults \in Nat, faults' = faults,
         orders'[o].live, orders'[o].status \in POReceiptStatuses, ReceivedQty(o)' > 0
  PROVE  orders'[o].status = DerivedStatus(o)'
<1>1. req[r] # Idle /\ req'[r] = Idle /\ o # 0
  BY DEF Idle, AllIdle, Orders
<1>2. Continue(r)
  BY <1>1, OnlyItself DEF vars
<1>3. /\ Sound(req[r], orders, Derived, lines)
      /\ req \in [Requests -> Request] /\ req[r] \in Request
  BY DEF SerialInv, TypeInv, TypeOK
<1>4. ASSUME NEW pc, Goto(r, pc), pc # "idle" PROVE FALSE
  BY <1>1, <1>3, <1>4 DEF Goto, Idle, Request
<1>5. CASE UpdateOrder(r) \/ SetPOStatus(r) \/ SyncDerive(r) \/ DeleteLine(r)
           \/ DecidePurchaseOrder(r) \/ RefuseDecision(r)
  BY <1>3, <1>4, <1>5 DEF UpdateOrder, SetPOStatus, SyncDerive, DeleteLine, DecidePurchaseOrder,
                          RefuseDecision, Sound
<1>6. CASE RecordPOStatusChange(r) \/ AppendHistory(r)
  <2>1. req[r].pc \in {"record", "append"} /\ orders' = orders /\ lines' = lines
    BY <1>6 DEF RecordPOStatusChange, AppendHistory, dbVars
  <2>2. orders[o].status = Derived[o]
    BY <1>3, <2>1 DEF Sound
  <2>3. QED
    BY <2>1, <2>2, DerivedSame DEF Derived
<1>7. CASE ReadLineParent(r)
  BY <1>1, <1>3, <1>7 DEF ReadLineParent, Sound
<1>8. CASE SyncSnapshot(r)
  <2>1. orders' = orders
    BY <1>8 DEF SyncSnapshot, dbVars
  <2>2. req' = [req EXCEPT ![r].pc = "sum", ![r].before = PurchaseOrderSnapshot(o)]
    BY <1>8, <2>1 DEF SyncSnapshot, MovedByReceipts
  <2>3. req'[r].pc = "sum"
    BY <1>3, <2>2 DEF Request
  <2>4. QED
    BY <1>1, <2>3 DEF Idle
<1>9. CASE SyncSum(r)
  <2>1. orders' = orders /\ lines' = lines /\ req[r].pc = "sum"
    BY <1>9 DEF SyncSum, dbVars
  <2>2. ReceivedQty(o)' = ReceivedQty(o) /\ DerivedStatus(o)' = DerivedStatus(o)
    BY <2>1, DerivedSame
  <2>3. DerivedStatus(o) = req[r].before.status
    <3>1. CASE DerivedStatus(o) # req[r].before.status
      <4>1. req' = [req EXCEPT ![r].pc = "derive", ![r].status = DerivedStatus(o)]
        BY <1>9, <2>2, <3>1 DEF SyncSum
      <4>2. req'[r].pc = "derive"
        BY <1>3, <4>1 DEF Request
      <4>3. QED
        BY <1>1, <4>2 DEF Idle
    <3>2. QED
      BY <3>1
  <2>4. req[r].before.status = orders[o].status
    BY <1>3, <2>1 DEF Sound, SnapshotIn
  <2>5. QED
    BY <2>1, <2>2, <2>3, <2>4
<1>10. QED
  BY <1>2, <1>5, <1>6, <1>7, <1>8, <1>9 DEF Continue

\* When the write of a line is over, its order has the status its lines call for,
\* while requests come one at a time; that writes before it were cut off and left
\* another status does not matter.
THEOREM ReceiptsCorrect == OneAtATime => (Spec => ReceiptStatusFresh)
<1> SUFFICES ASSUME OneAtATime PROVE Spec => ReceiptStatusFresh
  OBVIOUS
<1> DEFINE Inv == SerialInv /\ faults \in Nat
<1>1. Init => Inv
  <2>1. Init => faults = 0
    BY DEF Init
  <2>2. QED
    BY <2>1, SerialInit
<1>2. Inv /\ [Next]_vars => Inv'
  BY SerialStep, FaultsCounted
<1>3. Inv /\ [Next]_vars =>
        [\A r \in Requests, o \in Orders :
           /\ req[r].poc # 0 /\ req[r].por = o
           /\ AllIdle' /\ faults' = faults
           /\ orders'[o].live
           /\ orders'[o].status \in POReceiptStatuses
           /\ ReceivedQty(o)' > 0
           => orders'[o].status = DerivedStatus(o)']_vars
  BY ReceiptsAreFresh
<1>4. QED
  BY <1>1, <1>2, <1>3, PTL DEF Spec, ReceiptStatusFresh

-----------------------------------------------------------------------------
(* What one request at a time writes into the histories.                   *)

\* A step that adds no row, and brings no order to life.
AddsNothing ==
  /\ porSeq' = porSeq /\ decisions' = decisions /\ history' = history
  /\ \A x \in Orders : orders'[x].live => orders[x].live

\* A step that adds a row which does not say that its order became decided.
Notes(o, row) ==
  /\ porSeq' = porSeq /\ decisions' = decisions /\ history' = AddHistoryRow(o, row)
  /\ orders[o].live
  /\ \A x \in Orders : orders'[x].live => orders[x].live
  /\ row.status \in DecidedStatuses => row.previous = row.status

LEMMA SubmitNotes ==
  ASSUME TypeInv, NEW r \in Requests, SubmitPurchaseOrder(r)
  PROVE  \E o \in Orders, row \in HistoryRow : Notes(o, row)
<1>1. PICK u, o, row :
        /\ u \in Users /\ o \in 1..porSeq
        /\ orders[o].live
        /\ \E total \in PriceOrder(o) :
             orders' = [orders EXCEPT ![o].status = "pending_approval", ![o].total = total]
        /\ history' = AddHistoryRow(o, row)
        /\ row = [previous |-> orders[o].status, status |-> "pending_approval",
                  payment |-> orders[o].payment, user |-> u]
        /\ UNCHANGED <<porSeq, decisions>>
  BY DEF SubmitPurchaseOrder
<1>2. o \in Orders /\ orders \in [Orders -> Order]
  <2>1. o \in 1..porSeq
    BY <1>1
  <2>2. QED
    BY <2>1, InsertedOrders DEF TypeInv, TypeOK
<1>3. \A x \in Orders : orders'[x].live => orders[x].live
  BY <1>1, <1>2 DEF Order
<1>4. row \in HistoryRow
  BY <1>1, <1>2, Texts DEF Order, HistoryRow
<1>5. row.status \notin DecidedStatuses
  BY <1>1, Undecided
<1>6. QED
  BY <1>1, <1>2, <1>3, <1>4, <1>5 DEF Notes

LEMMA AppendNotes ==
  ASSUME SerialInv, NEW r \in Requests, AppendHistory(r)
  PROVE  AddsNothing \/ \E o \in Orders, row \in HistoryRow : Notes(o, row)
<1>1. PICK o, row : /\ o = req[r].por
                    /\ row = [previous |-> req[r].before.status, status |-> req[r].after.status,
                              payment |-> req[r].after.payment, user |-> req[r].user]
  OBVIOUS
<1>2. /\ req[r].pc = "append" /\ UNCHANGED <<orders, porSeq, decisions>>
      /\ history' = AddHistoryRow(o, row) \/ history' = history
  BY <1>1 DEF AppendHistory
<1>3. req[r] \in Request /\ req[r].user \in Users /\ o \in Orders
  BY <1>1, <1>2 DEF SerialInv, TypeInv, TypeOK, RequestsWellFormed, WellFormed
<1>4. row \in HistoryRow
  BY <1>1, <1>3 DEF Request, Snapshot, HistoryRow
<1>5. Sound(req[r], orders, Derived, lines)
  BY DEF SerialInv
<1>6. orders[o].live /\ req[r].after.status = orders[o].status
  BY <1>1, <1>2, <1>5 DEF Sound, SnapshotIn
<1>7. row.status \in DecidedStatuses => row.previous = row.status
  BY <1>1, <1>2, <1>5, <1>6 DEF Sound
<1>8. QED
  BY <1>2, <1>3, <1>4, <1>6, <1>7 DEF AddsNothing, Notes

LEMMA WriteAddsNothing ==
  ASSUME TypeInv, NEW r \in Requests, UpdateOrder(r) \/ SetPOStatus(r) \/ SyncDerive(r)
  PROVE  AddsNothing
<1>1. orders' = OrdersWrittenBy(r) /\ UNCHANGED <<history, porSeq, decisions>>
  BY DEF UpdateOrder, SetPOStatus, SyncDerive
<1>2. req[r].por \in Orders
  BY DEF UpdateOrder, SetPOStatus, SyncDerive, TypeInv, RequestsWellFormed, WellFormed
<1>3. orders \in [Orders -> Order]
  BY DEF TypeInv, TypeOK
<1>4. \A x \in Orders : orders'[x].live => orders[x].live
  BY <1>1, <1>2, <1>3 DEF OrdersWrittenBy, Order
<1>5. QED
  BY <1>1, <1>4 DEF AddsNothing

LEMMA SameAddsNothing ==
  ASSUME UNCHANGED <<orders, history, porSeq, decisions>> PROVE AddsNothing
BY DEF AddsNothing

LEMMA SerialHistory ==
  ASSUME OneAtATime, SerialInv, [Next]_vars
  PROVE  \/ AddsNothing
         \/ \E o \in Orders, row \in HistoryRow : Notes(o, row)
         \/ \E r \in Requests : InsertOrder(r) \/ DeleteOrder(r) \/ DecidePurchaseOrder(r)
<1> DEFINE Goal == \/ AddsNothing
                   \/ \E o \in Orders, row \in HistoryRow : Notes(o, row)
                   \/ \E r \in Requests : InsertOrder(r) \/ DeleteOrder(r)
                                          \/ DecidePurchaseOrder(r)
<1>1. TypeInv
  BY DEF SerialInv
<1>2. ASSUME Restart \/ \E r \in Requests : Abort(r) PROVE Goal
  <2>1. ASSUME NEW r \in Requests, Abort(r) PROVE Goal
    BY <2>1, SameAddsNothing DEF Abort, dbVars
  <2>2. CASE Restart
    <3>1. orders \in [Orders -> Order]
      BY <1>1 DEF TypeInv, TypeOK
    <3>2. \A x \in Orders : orders'[x].live => orders[x].live
      BY <2>2, <3>1 DEF Restart, Order
    <3>3. QED
      BY <2>2, <3>2 DEF Restart, AddsNothing
  <2>3. QED
    BY <1>2, <2>1, <2>2
<1>3. ASSUME NEW r \in Requests, Start(r) PROVE Goal
  <2>1. CASE StartUpdateOrder(r) \/ StartSetPOStatus(r) \/ StartDecidePurchaseOrder(r)
             \/ StartDeleteLine(r)
    BY <2>1, SameAddsNothing
    DEF StartUpdateOrder, StartSetPOStatus, StartDecidePurchaseOrder, StartDeleteLine, dbVars
  <2>2. CASE InsertLine(r) \/ UpdateLine(r) \/ SetApprovalLimit(r) \/ DeleteUser(r)
    BY <2>2, SameAddsNothing DEF InsertLine, UpdateLine, SetApprovalLimit, DeleteUser
  <2>3. CASE SubmitPurchaseOrder(r)
    BY <1>1, <2>3, SubmitNotes
  <2>4. CASE InsertOrder(r) \/ DeleteOrder(r)
    BY <2>4
  <2>5. QED
    BY <1>3, <2>1, <2>2, <2>3, <2>4 DEF Start
<1>4. ASSUME NEW r \in Requests, Continue(r) PROVE Goal
  <2>1. CASE RecordPOStatusChange(r) \/ ReadLineParent(r) \/ SyncSnapshot(r) \/ SyncSum(r)
             \/ RefuseDecision(r)
    BY <2>1, SameAddsNothing
    DEF RecordPOStatusChange, ReadLineParent, SyncSnapshot, SyncSum, RefuseDecision, dbVars
  <2>2. CASE DeleteLine(r)
    BY <2>2, SameAddsNothing DEF DeleteLine
  <2>3. CASE UpdateOrder(r) \/ SetPOStatus(r) \/ SyncDerive(r)
    BY <1>1, <2>3, WriteAddsNothing
  <2>4. CASE AppendHistory(r)
    BY <2>4, AppendNotes
  <2>5. CASE DecidePurchaseOrder(r)
    BY <2>5
  <2>6. QED
    BY <1>4, <2>1, <2>2, <2>3, <2>4, <2>5 DEF Continue
<1>5. ASSUME UNCHANGED vars PROVE Goal
  BY <1>5, SameAddsNothing DEF vars
<1>6. QED
  BY <1>2, <1>3, <1>4, <1>5 DEF Next, AwaitRequest

\* The rows that say their order became approved or rejected.
Becoming(rows) ==
  {i \in DOMAIN rows : rows[i].status \in DecidedStatuses /\ rows[i].previous # rows[i].status}

Matched(ds, rows) ==
  /\ Cardinality(Becoming(rows)) = Len(ds)
  /\ \A i \in Becoming(rows) : \E j \in DOMAIN ds :
       ds[j].status = rows[i].status /\ ds[j].user = rows[i].user

LEMMA MatchedByOrder ==
  /\ OneDecisionOneRow <=> \A o \in Orders : orders[o].live => Matched(decisions[o], history[o])
  /\ OneDecisionOneRow' <=>
       \A o \in Orders : orders'[o].live => Matched(decisions'[o], history'[o])
BY DEF OneDecisionOneRow, DecidedRows, Matched, Becoming

LEMMA AppendIs ==
  ASSUME NEW S, NEW log \in Seq(S), NEW e \in S
  PROVE  /\ Append(log, e) \in Seq(S) /\ Len(log) \in Nat
         /\ Len(Append(log, e)) = Len(log) + 1 /\ Append(log, e)[Len(log) + 1] = e
         /\ DOMAIN Append(log, e) = (DOMAIN log) \cup {Len(log) + 1}
         /\ DOMAIN log = 1..Len(log) /\ Len(log) + 1 \notin DOMAIN log
         /\ \A i \in DOMAIN log : Append(log, e)[i] = log[i]
<1>1. DOMAIN log = 1..Len(log) /\ Len(log) \in Nat
  OBVIOUS
<1>2. DOMAIN Append(log, e) = 1..(Len(log) + 1)
  OBVIOUS
<1>3. 1..(Len(log) + 1) = (1..Len(log)) \cup {Len(log) + 1}
  BY <1>1
<1>4. Len(log) + 1 \notin 1..Len(log)
  BY <1>1
<1>5. QED
  BY <1>1, <1>2, <1>3, <1>4

LEMMA BecomingFinite ==
  ASSUME NEW rows \in Seq(HistoryRow) PROVE IsFiniteSet(Becoming(rows))
<1>1. DOMAIN rows = 1..Len(rows) /\ Len(rows) \in Nat
  OBVIOUS
<1>2. IsFiniteSet(1..Len(rows))
  BY <1>1, FS_Interval
<1>3. Becoming(rows) \subseteq 1..Len(rows)
  BY <1>1 DEF Becoming
<1>4. QED
  BY <1>2, <1>3, FS_Subset

LEMMA MatchedNothing == Matched(<< >>, << >>)
BY FS_EmptySet DEF Matched, Becoming

\* A row that decides nothing needs no decision.
LEMMA MatchedRow ==
  ASSUME NEW ds, NEW rows \in Seq(HistoryRow), NEW row \in HistoryRow, Matched(ds, rows),
         row.status \in DecidedStatuses => row.previous = row.status
  PROVE  Matched(ds, Append(rows, row))
<1>1. Becoming(Append(rows, row)) = Becoming(rows)
  <2> DEFINE n == Len(rows) + 1
             log == Append(rows, row)
  <2>1. /\ log[n] = row /\ DOMAIN log = (DOMAIN rows) \cup {n}
        /\ \A i \in DOMAIN rows : log[i] = rows[i]
    BY AppendIs
  <2> HIDE DEF n, log
  <2>2. Becoming(log) = Becoming(rows)
    BY <2>1 DEF Becoming
  <2>3. QED
    BY <2>2 DEF log
<1>2. ASSUME NEW i \in Becoming(rows) PROVE Append(rows, row)[i] = rows[i]
  BY AppendIs DEF Becoming
<1>3. QED
  BY <1>1, <1>2 DEF Matched

\* A decision and the row it writes.
LEMMA MatchedDecision ==
  ASSUME NEW ds \in Seq(Decision), NEW rows \in Seq(HistoryRow), NEW d \in Decision,
         NEW row \in HistoryRow, Matched(ds, rows), row.user = d.user, row.status = d.status,
         row.status \in DecidedStatuses, row.previous # row.status
  PROVE  Matched(Append(ds, d), Append(rows, row))
<1>1. PICK n, m, log, made : /\ n = Len(rows) + 1 /\ log = Append(rows, row)
                             /\ m = Len(ds) + 1 /\ made = Append(ds, d)
  OBVIOUS
<1>2. /\ log[n] = row /\ DOMAIN log = (DOMAIN rows) \cup {n} /\ n \notin DOMAIN rows
      /\ \A i \in DOMAIN rows : log[i] = rows[i]
  BY <1>1, AppendIs
<1>3. /\ made[m] = d /\ DOMAIN made = (DOMAIN ds) \cup {m} /\ Len(made) = Len(ds) + 1
      /\ \A i \in DOMAIN ds : made[i] = ds[i]
  BY <1>1, AppendIs
<1>4. Becoming(log) = Becoming(rows) \cup {n} /\ n \notin Becoming(rows)
  BY <1>2 DEF Becoming
<1>5. Cardinality(Becoming(log)) = Len(made)
  BY ZenonT(30), <1>3, <1>4, BecomingFinite, FS_AddElement DEF Matched
<1>6. ASSUME NEW i \in Becoming(log)
      PROVE  \E j \in DOMAIN made : made[j].status = log[i].status /\ made[j].user = log[i].user
  <2>1. CASE i = n
    BY <1>2, <1>3, <2>1
  <2>2. CASE i \in Becoming(rows)
    <3>1. PICK j \in DOMAIN ds : ds[j].status = rows[i].status /\ ds[j].user = rows[i].user
      BY <2>2 DEF Matched
    <3>2. log[i] = rows[i] /\ made[j] = ds[j] /\ j \in DOMAIN made
      BY <1>2, <1>3, <2>2 DEF Becoming
    <3>3. QED
      BY <3>1, <3>2
  <2>3. QED
    BY <1>4, <2>1, <2>2
<1>7. QED
  BY <1>1, <1>5, <1>6 DEF Matched

LEMMA InsertedOrder ==
  ASSUME TypeInv, NEW r \in Requests, InsertOrder(r)
  PROVE  /\ porSeq \in Nat /\ porSeq' = porSeq + 1 /\ porSeq + 1 \in Orders
         /\ \A x \in Orders \ {porSeq + 1} : orders'[x] = orders[x]
         /\ UNCHANGED <<decisions, history>>
<1>1. /\ porSeq < MaxOrders /\ porSeq \in 0..MaxOrders /\ porSeq' = porSeq + 1
      /\ UNCHANGED <<decisions, history>>
      /\ \E row : orders' = [orders EXCEPT ![porSeq + 1] = row]
  BY DEF InsertOrder, TypeInv, TypeOK
<1>2. porSeq + 1 \in Orders
  BY <1>1, BoundsAssumption DEF Orders
<1>3. orders \in [Orders -> Order]
  BY DEF TypeInv, TypeOK
<1>4. QED
  BY <1>1, <1>2, <1>3

LEMMA DeletedOrder ==
  ASSUME TypeInv, NEW r \in Requests, DeleteOrder(r)
  PROVE  \E o \in Orders :
           /\ o <= porSeq /\ porSeq' = porSeq /\ decisions' = decisions
           /\ ~orders'[o].live /\ history'[o] = << >>
           /\ \A x \in Orders \ {o} : orders'[x] = orders[x] /\ history'[x] = history[x]
<1>1. PICK o \in 1..porSeq : /\ orders' = [orders EXCEPT ![o] = NoOrder]
                             /\ history' = [history EXCEPT ![o] = << >>]
                             /\ porSeq' = porSeq /\ decisions' = decisions
  BY DEF DeleteOrder
<1>2. o \in Orders
  BY InsertedOrders
<1>3. orders \in [Orders -> Order] /\ history \in [Orders -> Seq(HistoryRow)]
  BY DEF TypeInv, TypeOK
<1>4. /\ ~orders'[o].live /\ history'[o] = << >>
      /\ \A x \in Orders \ {o} : orders'[x] = orders[x] /\ history'[x] = history[x]
  BY <1>1, <1>2, <1>3 DEF NoOrder
<1>5. QED
  BY <1>1, <1>2, <1>4

\* What a decision does to order o, its decisions and its history.
Decides(o, d, row) ==
  /\ orders[o].live /\ porSeq' = porSeq
  /\ row.user = d.user /\ row.status = d.status
  /\ row.status \in DecidedStatuses /\ row.previous \notin DecidedStatuses
  /\ row.previous = orders[o].status
  /\ row.status = orders'[o].status /\ row.payment = orders'[o].payment
  /\ \A x \in Orders : orders'[x].live = orders[x].live
  /\ \A x \in Orders \ {o} : orders'[x] = orders[x]
  /\ \A x \in Orders : decisions'[x] = IF x = o THEN Append(decisions[x], d) ELSE decisions[x]
  /\ \A x \in Orders : history'[x] = IF x = o THEN Append(history[x], row) ELSE history[x]

LEMMA DecidedOrder ==
  ASSUME TypeInv, NEW r \in Requests, DecidePurchaseOrder(r)
  PROVE  \E o \in Orders, d \in Decision, row \in HistoryRow : Decides(o, d, row)
<1> DEFINE o == req[r].por
           row(s) == [previous |-> orders[o].status, status |-> s,
                      payment |-> orders[o].payment, user |-> req[r].user]
<1>1. PICK total \in Totals, decided \in DecidedStatuses, d \in Decision :
        /\ o \in Orders /\ req[r].user \in Users
        /\ Decidable(orders[o].status)
        /\ WithinLimit(total, req[r].limit)
        /\ d = [user |-> req[r].user, status |-> decided, total |-> total,
                limit |-> req[r].limit]
        /\ orders' = [orders EXCEPT ![o].status = decided, ![o].total = total]
        /\ decisions' = [decisions EXCEPT ![o] = Append(@, d)]
        /\ history' = AddHistoryRow(o, row(decided))
  BY DecisionPicked, Zenon
<1>2. /\ orders \in [Orders -> Order] /\ decisions \in [Orders -> Seq(Decision)]
      /\ history \in [Orders -> Seq(HistoryRow)]
  BY DEF TypeInv, TypeOK
<1>3. porSeq' = porSeq /\ orders[o].live
  BY DEF DecidePurchaseOrder
<1>4. PICK h : h = row(decided)
  OBVIOUS
<1>5. h \in HistoryRow /\ h.user = d.user /\ h.status = d.status /\ h.status = decided
      /\ h.previous = orders[o].status /\ h.payment = orders[o].payment
  BY <1>1, <1>2, <1>4, Texts DEF HistoryRow, Order
<1>6. h.previous \notin DecidedStatuses
  BY <1>1, <1>5, Undecided
<1>7. history' = AddHistoryRow(o, h)
  BY <1>1, <1>4
<1> HIDE DEF o, row
<1>8. /\ \A x \in Orders : orders'[x].live = orders[x].live
      /\ \A x \in Orders \ {o} : orders'[x] = orders[x]
      /\ orders'[o].status = decided /\ orders'[o].payment = orders[o].payment
  BY <1>1, <1>2 DEF Order
<1>9. /\ \A x \in Orders : decisions'[x] =
           IF x = o THEN Append(decisions[x], d) ELSE decisions[x]
      /\ \A x \in Orders : history'[x] =
           IF x = o THEN Append(history[x], h) ELSE history[x]
  BY <1>1, <1>2, <1>7 DEF AddHistoryRow
<1>10. Decides(o, d, h)
  BY <1>1, <1>3, <1>5, <1>6, <1>8, <1>9 DEF Decides
<1>11. QED
  BY <1>1, <1>5, <1>10

RowsInv == SerialInv /\ RecordedInv /\ UnusedHistories

LEMMA RowsInit == Init => RowsInv
<1> SUFFICES ASSUME Init PROVE UnusedHistories
  BY SerialInit, InitType, RecordedInit DEF RowsInv, RecordedInv
<1>1. PICK st \in [1..LoadedOrders -> LoadedStatuses], u \in Users :
        history = [x \in Orders |->
            IF x <= LoadedOrders
            THEN << [previous |-> "", status |-> st[x], payment |-> "unpaid", user |-> u] >>
            ELSE << >>]
  BY DEF Init
<1>2. porSeq = LoadedOrders
  BY DEF Init
<1>3. ASSUME NEW o \in Orders, o > porSeq PROVE history[o] = << >>
  <2>1. ~(o <= LoadedOrders)
    BY <1>2, <1>3, BoundsAssumption DEF Orders
  <2>2. QED
    BY <1>1, <2>1
<1>4. QED
  BY <1>3 DEF UnusedHistories

LEMMA RowsStep == OneAtATime /\ RowsInv /\ [Next]_vars => RowsInv'
<1> SUFFICES ASSUME OneAtATime, RowsInv, [Next]_vars PROVE UnusedHistories'
  BY SerialStep, RecordedStep DEF RowsInv
<1>1. SerialInv /\ TypeInv /\ UnusedIds
  BY DEF RowsInv, RecordedInv
<1>2. history \in [Orders -> Seq(HistoryRow)] /\ porSeq \in Nat /\ Orders \subseteq Nat
  BY <1>1 DEF TypeInv, TypeOK, Orders
<1>3. \A o \in Orders : o > porSeq => history[o] = << >>
  BY DEF RowsInv, UnusedHistories
<1>4. CASE AddsNothing
  BY <1>3, <1>4 DEF AddsNothing, UnusedHistories
<1>5. ASSUME NEW o \in Orders, NEW row, Notes(o, row) PROVE UnusedHistories'
  <2>1. o <= porSeq
    BY <1>1, <1>5, Zenon DEF UnusedIds, Notes
  <2>2. \A x \in Orders : x # o => history'[x] = history[x]
    BY <1>2, <1>5 DEF Notes, AddHistoryRow
  <2>3. porSeq' = porSeq
    BY <1>5 DEF Notes
  <2>4. ASSUME NEW x \in Orders, x > porSeq' PROVE history'[x] = << >>
    BY <1>2, <1>3, <2>1, <2>2, <2>3, <2>4
  <2>5. QED
    BY <2>4 DEF UnusedHistories
<1>6. ASSUME NEW r \in Requests, InsertOrder(r) PROVE UnusedHistories'
  <2>1. porSeq' = porSeq + 1 /\ history' = history
    BY <1>1, <1>6, InsertedOrder
  <2>2. QED
    BY <1>2, <1>3, <2>1 DEF UnusedHistories
<1>7. ASSUME NEW r \in Requests, DeleteOrder(r) PROVE UnusedHistories'
  <2>1. PICK o \in Orders : /\ porSeq' = porSeq /\ history'[o] = << >>
                            /\ \A x \in Orders \ {o} : history'[x] = history[x]
    BY <1>1, <1>7, DeletedOrder
  <2>2. QED
    BY <1>2, <1>3, <2>1 DEF UnusedHistories
<1>8. ASSUME NEW r \in Requests, DecidePurchaseOrder(r) PROVE UnusedHistories'
  <2>1. PICK o, row :
          /\ o \in Orders
          /\ porSeq' = porSeq /\ orders[o].live
          /\ \A x \in Orders : history'[x] =
               IF x = o THEN Append(history[x], row) ELSE history[x]
    BY <1>1, <1>8, DecidedOrder DEF Decides
  <2>2. o <= porSeq
    BY <1>1, <2>1 DEF UnusedIds
  <2>3. QED
    BY <1>2, <1>3, <2>1, <2>2 DEF UnusedHistories
<1>9. QED
  BY <1>1, <1>4, <1>5, <1>6, <1>7, <1>8, SerialHistory

LEMMA OneRowStep ==
  OneAtATime /\ RowsInv /\ OneDecisionOneRow /\ [Next]_vars => OneDecisionOneRow'
<1> SUFFICES ASSUME OneAtATime, RowsInv, OneDecisionOneRow, [Next]_vars,
                    NEW x \in Orders, orders'[x].live
             PROVE  Matched(decisions'[x], history'[x])
  BY MatchedByOrder
<1>1. SerialInv /\ TypeInv /\ UnusedIds /\ UnusedHistories
  BY DEF RowsInv, RecordedInv
<1>2. /\ history \in [Orders -> Seq(HistoryRow)] /\ decisions \in [Orders -> Seq(Decision)]
      /\ porSeq \in Nat /\ Orders \subseteq Nat
  BY <1>1 DEF TypeInv, TypeOK, Orders
<1>3. orders[x].live => Matched(decisions[x], history[x])
  BY MatchedByOrder
<1>4. CASE AddsNothing
  BY <1>3, <1>4 DEF AddsNothing
<1>5. ASSUME NEW o \in Orders, NEW row \in HistoryRow, Notes(o, row)
      PROVE  Matched(decisions'[x], history'[x])
  <2>1. history'[x] = IF x = o THEN Append(history[x], row) ELSE history[x]
    BY <1>2, <1>5 DEF Notes, AddHistoryRow
  <2>2. Matched(decisions[x], history[x]) /\ decisions'[x] = decisions[x]
    BY <1>3, <1>5 DEF Notes
  <2>3. row.status \in DecidedStatuses => row.previous = row.status
    BY <1>5 DEF Notes
  <2>4. QED
    BY <1>2, <2>1, <2>2, <2>3, MatchedRow
<1>6. ASSUME NEW r \in Requests, InsertOrder(r) PROVE Matched(decisions'[x], history'[x])
  <2>1. /\ decisions' = decisions /\ history' = history
        /\ x # porSeq + 1 => orders'[x] = orders[x]
    BY <1>1, <1>6, InsertedOrder
  <2>2. CASE x = porSeq + 1
    <3>1. x > porSeq
      BY <1>2, <2>2
    <3>2. decisions[x] = << >> /\ history[x] = << >>
      BY <1>1, <3>1 DEF UnusedIds, UnusedHistories
    <3>3. QED
      BY <2>1, <3>2, MatchedNothing
  <2>3. CASE x # porSeq + 1
    BY <1>3, <2>1, <2>3
  <2>4. QED
    BY <2>2, <2>3
<1>7. ASSUME NEW r \in Requests, DeleteOrder(r) PROVE Matched(decisions'[x], history'[x])
  <2>1. PICK o \in Orders : /\ decisions' = decisions /\ ~orders'[o].live
                            /\ \A y \in Orders \ {o} : /\ orders'[y] = orders[y]
                                                       /\ history'[y] = history[y]
    BY <1>1, <1>7, DeletedOrder
  <2>2. QED
    BY <1>3, <2>1
<1>8. ASSUME NEW r \in Requests, DecidePurchaseOrder(r) PROVE Matched(decisions'[x], history'[x])
  <2>1. PICK o \in Orders, d \in Decision, row \in HistoryRow :
           /\ row.user = d.user /\ row.status = d.status
           /\ row.status \in DecidedStatuses /\ row.previous \notin DecidedStatuses
           /\ orders'[x].live = orders[x].live
           /\ decisions'[x] = IF x = o THEN Append(decisions[x], d) ELSE decisions[x]
           /\ history'[x] = IF x = o THEN Append(history[x], row) ELSE history[x]
    BY <1>1, <1>8, DecidedOrder DEF Decides
  <2>2. QED
    BY <1>2, <1>3, <2>1, MatchedDecision
<1>9. QED
  BY <1>1, <1>4, <1>5, <1>6, <1>7, <1>8, SerialHistory

LEMMA LoadedHistories ==
  ASSUME Init
  PROVE  \A o \in Orders : \E s \in LoadedStatuses \cup {""}, u \in Users :
           /\ orders[o].live => o <= LoadedOrders /\ orders[o] = LoadedOrder(s, u)
           /\ orders[o].live => history[o] =
                << [previous |-> "", status |-> s, payment |-> "unpaid", user |-> u] >>
           /\ decisions[o] = << >>
<1>1. PICK st \in [1..LoadedOrders -> LoadedStatuses], u \in Users :
        /\ orders = [x \in Orders |->
             IF x <= LoadedOrders THEN LoadedOrder(st[x], u) ELSE NoOrder]
        /\ history = [x \in Orders |->
             IF x <= LoadedOrders
             THEN << [previous |-> "", status |-> st[x], payment |-> "unpaid", user |-> u] >>
             ELSE << >>]
  BY DEF Init
<1>2. ~NoOrder.live /\ \A o \in Orders : decisions[o] = << >>
  BY DEF NoOrder, Init
<1>3. SUFFICES ASSUME NEW o \in Orders, orders[o].live
               PROVE  \E s \in LoadedStatuses :
                        /\ o <= LoadedOrders /\ orders[o] = LoadedOrder(s, u)
                        /\ history[o] = << [previous |-> "", status |-> s,
                                            payment |-> "unpaid", user |-> u] >>
  BY <1>2
<1>4. o <= LoadedOrders
  BY <1>1, <1>2, <1>3
<1>5. o \in 1..LoadedOrders
  BY <1>4, BoundsAssumption DEF Orders
<1>6. st[o] \in LoadedStatuses
  BY <1>5
<1>7. QED
  BY <1>1, <1>4, <1>6

LEMMA OnlyIndex ==
  ASSUME NEW S, NEW log \in Seq(S), Len(log) = 1 PROVE \A i \in DOMAIN log : i = 1
OBVIOUS

LEMMA BecomingOne ==
  ASSUME NEW row, row.status \notin DecidedStatuses PROVE Becoming(<< row >>) = {}
<1>1. << row >> \in Seq({row}) /\ Len(<< row >>) = 1 /\ << row >>[1] = row
  BY SingletonSeq
<1>2. \A i \in DOMAIN << row >> : i = 1
  BY <1>1, OnlyIndex
<1>3. QED
  BY <1>1, <1>2 DEF Becoming

LEMMA OneRowInit == Init => OneDecisionOneRow
<1> SUFFICES ASSUME Init, NEW o \in Orders, orders[o].live
             PROVE  Matched(decisions[o], history[o])
  BY MatchedByOrder
<1>1. PICK s \in LoadedStatuses \cup {""}, u \in Users :
        /\ history[o] =
             << [previous |-> "", status |-> s, payment |-> "unpaid", user |-> u] >>
        /\ decisions[o] = << >>
  BY LoadedHistories
<1>2. s \notin DecidedStatuses
  BY InputAssumption, Undecided
<1>3. Becoming(history[o]) = {}
  BY <1>1, <1>2, BecomingOne
<1>4. Cardinality({}) = 0 /\ Len(<< >>) = 0
  BY FS_EmptySet
<1>5. QED
  BY <1>1, <1>3, <1>4 DEF Matched

\* One decision, one row, while requests come one at a time: a row that says an
\* order became approved or rejected is the row of a decision, there are as many
\* of the one as of the other, and the row names who decided.
THEOREM OneRowCorrect == OneAtATime => (Spec => []OneDecisionOneRow)
<1> SUFFICES ASSUME OneAtATime PROVE Spec => []OneDecisionOneRow
  OBVIOUS
<1>1. Init => RowsInv /\ OneDecisionOneRow
  BY RowsInit, OneRowInit
<1>2. RowsInv /\ [Next]_vars => RowsInv'
  BY RowsStep
<1>3. RowsInv /\ OneDecisionOneRow /\ [Next]_vars => OneDecisionOneRow'
  BY OneRowStep
<1>4. QED
  BY <1>1, <1>2, <1>3, PTL DEF Spec

-----------------------------------------------------------------------------
(* What a signature is worth.                                              *)

\* Every order costs what an int64 can hold.
CostsFit == \A o \in Orders : OrderCost(o) \in Totals

LEMMA DecidedCost ==
  ASSUME TypeInv, CostsFit, NEW r \in Requests, DecidePurchaseOrder(r),
         NEW o \in Orders, decisions'[o] # decisions[o]
  PROVE  OrderCost(o) <= decisions'[o][Len(decisions'[o])].limit
<1>1. PICK total, decided :
        /\ total \in PriceOrder(req[r].por) /\ WithinLimit(total, req[r].limit)
        /\ decisions' = [decisions EXCEPT ![req[r].por] = Append(@,
             [user |-> req[r].user, status |-> decided, total |-> total,
              limit |-> req[r].limit])]
  BY DEF DecidePurchaseOrder
<1>2. PICK x, d : /\ x = req[r].por
                  /\ d = [user |-> req[r].user, status |-> decided, total |-> total,
                          limit |-> req[r].limit]
  OBVIOUS
<1>3. d.limit = req[r].limit
  BY <1>2
<1>4. decisions' = [decisions EXCEPT ![x] = Append(@, d)]
  BY <1>1, <1>2
<1>5. decisions \in [Orders -> Seq(Decision)] /\ decisions' \in [Orders -> Seq(Decision)]
  BY NextType DEF TypeInv, TypeOK, Next, Continue
<1>6. x = o
  BY <1>4, <1>5
<1>7. total = OrderCost(o)
  BY <1>1, <1>2, <1>6 DEF PriceOrder, Int64, CostsFit
<1>8. decisions'[o] = Append(decisions[o], d) /\ Len(decisions[o]) \in Nat
  BY <1>4, <1>5, <1>6
<1>9. decisions'[o][Len(decisions'[o])] = d
  BY <1>8
<1>10. QED
  BY SMTT(30), <1>1, <1>3, <1>7, <1>9 DEF WithinLimit

\* A decision is worth the cost of the order: whoever decides an order has the
\* authority for what its lines cost at that moment, however the lines, the
\* limits and other requests change around the decision, as long as no order
\* costs more than an int64 can hold.
THEOREM CostCorrect == Spec /\ []CostsFit => CostWithinLimit
<1> DEFINE Inv == TypeInv /\ PendingWritesUndecided
<1>1. Init => Inv
  BY InitType, SigningInit
<1>2. Inv /\ [Next]_vars => Inv'
  BY NextType, PendingStep
<1>3. Inv /\ CostsFit /\ [Next]_vars =>
        [\A o \in Orders : decisions'[o] # decisions[o] =>
           OrderCost(o) <= decisions'[o][Len(decisions'[o])].limit]_vars
  BY OnlyDecisionsSign, DecidedCost DEF NoSigning
<1>4. QED
  BY <1>1, <1>2, <1>3, PTL DEF Spec, CostWithinLimit

-----------------------------------------------------------------------------
(* The story a history tells.                                              *)

\* Nobody is deleted: the user a session belongs to is in the users table.
UsersLive == \A u \in Users : users[u].live

LEMMA UsersStay ==
  ASSUME DeletableUsers = {}, TypeInv, UsersLive, [Next]_vars PROVE UsersLive'
<1>1. users \in [Users -> [live : BOOLEAN, limit : Limits \cup {0}]]
  BY DEF TypeInv, TypeOK
<1>2. ASSUME NEW r \in Requests, SetApprovalLimit(r) PROVE UsersLive'
  BY <1>1, <1>2 DEF SetApprovalLimit, UsersLive
<1>3. ASSUME UNCHANGED users PROVE UsersLive'
  BY <1>3 DEF UsersLive
<1>4. ASSUME NEW r \in Requests, Start(r) PROVE UsersLive'
  BY ZenonT(30), <1>2, <1>3, <1>4
  DEF Start, InsertOrder, StartUpdateOrder, DeleteOrder, StartSetPOStatus, InsertLine, UpdateLine,
      StartDeleteLine, SubmitPurchaseOrder, StartDecidePurchaseOrder, DeleteUser, dbVars
<1>5. ASSUME NEW r \in Requests, Continue(r) PROVE UsersLive'
  BY <1>3, <1>5
  DEF Continue, UpdateOrder, SetPOStatus, RecordPOStatusChange, AppendHistory, ReadLineParent,
      DeleteLine, SyncSnapshot, SyncSum, SyncDerive, DecidePurchaseOrder, RefuseDecision, dbVars
<1>6. QED
  BY <1>3, <1>4, <1>5 DEF Next, AwaitRequest, Restart, Abort, vars, dbVars

LEMMA TextsEmpty == NoSnapshot.status = "" /\ Chained(<< >>) /\ LastOf(<< >>) = NoSnapshot
BY DEF NoSnapshot, Chained, LastOf

LEMMA EmptyIs ==
  ASSUME NEW S, NEW log \in Seq(S) PROVE (log = << >>) <=> Len(log) = 0
OBVIOUS

\* A row that starts from where the history stands carries the story on.
LEMMA AppendStory ==
  ASSUME NEW rows \in Seq(HistoryRow), NEW row \in HistoryRow, Chained(rows),
         LastOf(rows).status = row.previous
  PROVE  /\ Chained(Append(rows, row))
         /\ LastOf(Append(rows, row)) = [status |-> row.status, payment |-> row.payment]
<1>1. PICK n, log : n = Len(rows) /\ log = Append(rows, row)
  OBVIOUS
<1>2. /\ log \in Seq(HistoryRow) /\ Len(log) = n + 1 /\ log[n + 1] = row /\ n \in Nat
      /\ \A i \in 1..n : log[i] = rows[i]
  BY <1>1, AppendIs
<1>3. log # << >> /\ (rows = << >> <=> n = 0)
  BY <1>1, <1>2, EmptyIs
<1>4. LastOf(log) = [status |-> row.status, payment |-> row.payment]
  BY <1>2, <1>3 DEF LastOf
<1>5. ASSUME NEW i \in 1..(n + 1) - 1 PROVE log[i + 1].previous = log[i].status
  <2>1. CASE i = n
    <3>1. LastOf(rows).status = rows[n].status
      BY <1>1, <1>2, <1>3, <1>5, <2>1 DEF LastOf
    <3>2. log[i] = rows[n] /\ log[i + 1] = row
      BY <1>2, <1>5, <2>1
    <3>3. QED
      BY <3>1, <3>2
  <2>2. CASE i # n
    <3>1. i \in 1..n - 1 /\ i \in 1..n /\ i + 1 \in 1..n
      BY <1>2, <1>5, <2>2
    <3>2. rows[i + 1].previous = rows[i].status
      BY <1>1, <3>1 DEF Chained
    <3>3. log[i] = rows[i]
      BY <1>2, <3>1
    <3>4. log[i + 1] = rows[i + 1]
      BY <1>2, <3>1
    <3>5. QED
      BY <3>2, <3>3, <3>4
  <2>3. QED
    BY <2>1, <2>2
<1>6. log[1].previous = ""
  <2>1. CASE n = 0
    <3>1. log[1] = row
      BY <1>2, <2>1
    <3>2. LastOf(rows) = NoSnapshot
      BY <1>3, <2>1, TextsEmpty
    <3>3. QED
      BY <3>1, <3>2, TextsEmpty
  <2>2. CASE n # 0
    <3>1. 1 \in 1..n /\ rows # << >>
      BY <1>2, <1>3, <2>2
    <3>2. log[1] = rows[1]
      BY <1>2, <3>1
    <3>3. QED
      BY <3>1, <3>2 DEF Chained
  <2>3. QED
    BY <2>1, <2>2
<1>7. Chained(log)
  BY <1>2, <1>5, <1>6 DEF Chained
<1>8. QED
  BY <1>1, <1>4, <1>7

LEMMA IdleWrites == ASSUME NEW o PROVE ~Writes(Idle, o)
BY DEF Idle, Writes

\* An order the only request does not write tells its story.
LEMMA ToldNow ==
  ASSUME StoryInv, NEW r \in Requests, Alone(r), NEW o \in Orders, orders[o].live,
         ~Writes(req[r], o)
  PROVE  Told(history[o], orders, o)
<1>1. \A x \in Requests : ~Writes(req[x], o)
  BY IdleWrites DEF Alone
<1>2. QED
  BY <1>1 DEF StoryInv

\* The request that ran does not write, or no longer writes, any order.
LEMMA EndStory ==
  ASSUME TypeInv, NEW r \in Requests, Alone(r), NEW q, req' = [req EXCEPT ![r] = q],
         \A o \in Orders : ~Writes(q, o),
         \A o \in Orders : orders'[o].live => Told(history'[o], orders', o)
  PROVE  StoryInv'
<1>1. req' \in [Requests -> {Idle, q}]
  BY DEF TypeInv, TypeOK, Alone
<1>2. \A x \in Requests, o \in Orders : ~Writes(req'[x], o)
  BY <1>1, IdleWrites
<1>3. QED
  BY <1>2 DEF StoryInv

\* The request that ran is writing order o.
LEMMA WriterStory ==
  ASSUME TypeInv, StoryInv, NEW r \in Requests, Alone(r), NEW q, req' = [req EXCEPT ![r] = q],
         NEW o \in Orders, Writes(q, o), \A x \in Orders \ {o} : ~Writes(req[r], x),
         \A x \in Orders \ {o} : orders'[x] = orders[x] /\ history'[x] = history[x],
         Chained(history'[o]), LastOf(history'[o]) = q.before
  PROVE  StoryInv'
<1>1. req'[r] = q /\ \A x \in Requests \ {r} : req'[x] = Idle
  BY DEF TypeInv, TypeOK, Alone
<1>2. ASSUME NEW x \in Orders, orders'[x].live, x # o PROVE Told(history'[x], orders', x)
  <2>1. Told(history[x], orders, x)
    BY <1>2, ToldNow
  <2>2. QED
    BY <1>2, <2>1 DEF Told, SnapshotIn
<1>3. \A x \in Orders, y \in Requests : Writes(req'[y], x) => x = o /\ y = r
  BY <1>1, IdleWrites DEF Writes
<1>4. Writes(req'[r], o)
  BY <1>1
<1>5. QED
  BY <1>1, <1>2, <1>3, <1>4 DEF StoryInv

\* A step that only reads, or that writes neither orders nor histories.
Quiet(r) ==
  /\ orders' = orders /\ history' = history
  /\ \E q : req' = [req EXCEPT ![r] = q] /\ q.pc \notin {"record", "append"}

LEMMA QuietStep ==
  ASSUME orders' = orders, history' = history, NEW r, NEW q, req' = [req EXCEPT ![r] = q],
         q.pc \notin {"record", "append"}
  PROVE  Quiet(r)
BY DEF Quiet

LEMMA QuietStart ==
  ASSUME TypeInv, NEW r \in Requests
  PROVE  \/ StartUpdateOrder(r) \/ StartSetPOStatus(r) \/ InsertLine(r) \/ UpdateLine(r)
         \/ StartDeleteLine(r) \/ StartDecidePurchaseOrder(r) \/ SetApprovalLimit(r)
         \/ DeleteUser(r)
         => Quiet(r)
<1>1. CASE StartUpdateOrder(r)
  <2>1. PICK u, o, s, p, q :
          /\ u \in Users
          /\ o \in 1..porSeq
          /\ s \in Statuses \cup {"", Keep}
          /\ p \in Payments \cup {"", Keep}
          /\ req' = [req EXCEPT ![r] = q]
          /\ q = [Idle EXCEPT !.pc = "update", !.user = u, !.por = o, !.status = s,
                     !.payment = p, !.before = PurchaseOrderSnapshot(o)]
    BY ZenonT(30), <1>1 DEF StartUpdateOrder
  <2>2. q.pc = "update"
    BY <2>1 DEF Idle
  <2>3. QED
    BY <1>1, <2>1, <2>2, QuietStep DEF StartUpdateOrder, dbVars
<1>2. CASE StartSetPOStatus(r)
  <2>1. PICK u, o, s, p, q :
          /\ u \in Users /\ o \in 1..porSeq /\ s \in StatusRequests /\ p \in PaymentRequests
          /\ req' = [req EXCEPT ![r] = q]
          /\ q = [Idle EXCEPT !.pc = "setStatus", !.user = u, !.por = o,
                     !.status = KeepIfEmpty(s), !.payment = KeepIfEmpty(p),
                     !.before = PurchaseOrderSnapshot(o)]
    BY <1>2 DEF StartSetPOStatus
  <2>2. q.pc = "setStatus"
    BY <2>1 DEF Idle
  <2>3. QED
    BY <1>2, <2>1, <2>2, QuietStep DEF StartSetPOStatus, dbVars
<1>3. CASE InsertLine(r) \/ UpdateLine(r)
  <2>1. PICK u, l, q : req' = [req EXCEPT ![r] = q] /\ q = LineRequest(u, l, "parent")
    BY <1>3 DEF InsertLine, UpdateLine
  <2>2. q.pc = "parent"
    BY <2>1 DEF LineRequest, Idle
  <2>3. QED
    BY <1>3, <2>1, <2>2, QuietStep DEF InsertLine, UpdateLine
<1>4. CASE StartDeleteLine(r)
  <2>1. PICK u, l, q :
          /\ req' = [req EXCEPT ![r] = q]
          /\ q = [LineRequest(u, l, "lineDelete") EXCEPT !.por = lines[l].por]
    BY <1>4 DEF StartDeleteLine
  <2>2. q.pc = "lineDelete"
    BY <2>1 DEF LineRequest, Idle
  <2>3. QED
    BY <1>4, <2>1, <2>2, QuietStep DEF StartDeleteLine, dbVars
<1>5. CASE StartDecidePurchaseOrder(r)
  <2>1. PICK u, o, q :
          /\ req' = [req EXCEPT ![r] = q]
          /\ q = [Idle EXCEPT !.pc = "decide", !.user = u, !.por = o, !.limit = ApprovalLimit(u)]
    BY <1>5 DEF StartDecidePurchaseOrder
  <2>2. q.pc = "decide"
    BY <2>1 DEF Idle
  <2>3. QED
    BY <1>5, <2>1, <2>2, QuietStep DEF StartDecidePurchaseOrder, dbVars
<1>6. CASE SetApprovalLimit(r) \/ DeleteUser(r)
  <2>1. req' = req /\ orders' = orders /\ history' = history
    BY <1>6 DEF SetApprovalLimit, DeleteUser
  <2>2. req' = [req EXCEPT ![r] = Idle]
    BY <1>6, <2>1 DEF SetApprovalLimit, DeleteUser, Begin, TypeInv, TypeOK
  <2>3. Idle.pc = "idle"
    BY DEF Idle
  <2>4. QED
    BY <2>1, <2>2, <2>3, QuietStep
<1>7. QED
  BY <1>1, <1>2, <1>3, <1>4, <1>5, <1>6

LEMMA FinishQuiet ==
  ASSUME NEW r, Finish(r), orders' = orders, history' = history PROVE Quiet(r)
BY QuietStep DEF Finish, Idle

LEMMA QuietContinue ==
  ASSUME TypeInv, NEW r \in Requests,
         ReadLineParent(r) \/ DeleteLine(r) \/ SyncSnapshot(r) \/ SyncSum(r) \/ RefuseDecision(r)
  PROVE  Quiet(r)
<1>1. orders' = orders /\ history' = history
  BY DEF ReadLineParent, DeleteLine, SyncSnapshot, SyncSum, RefuseDecision, dbVars
<1>2. CASE Finish(r)
  BY <1>1, <1>2, FinishQuiet
<1>3. CASE ~Finish(r)
  <2>1. req[r] \in Request
    BY DEF TypeInv, TypeOK
  <2>2. CASE ReadLineParent(r)
    <3>1. PICK por, q : /\ req' = [req EXCEPT ![r] = q]
                        /\ q = [req[r] EXCEPT !.pc = "sync", !.por = por]
      BY <1>3, <2>2 DEF ReadLineParent, TypeInv, TypeOK
    <3>2. q.pc = "sync"
      BY <2>1, <3>1 DEF Request
    <3>3. QED
      BY <1>1, <3>1, <3>2, QuietStep
  <2>3. CASE DeleteLine(r)
    <3>1. PICK q : req' = [req EXCEPT ![r] = q] /\ q = [req[r] EXCEPT !.pc = "sync"]
      BY <1>3, <2>3 DEF DeleteLine, Goto, TypeInv, TypeOK
    <3>2. q.pc = "sync"
      BY <2>1, <3>1 DEF Request
    <3>3. QED
      BY <1>1, <3>1, <3>2, QuietStep
  <2>4. CASE SyncSnapshot(r)
    <3>1. PICK before, q : /\ req' = [req EXCEPT ![r] = q]
                           /\ q = [req[r] EXCEPT !.pc = "sum", !.before = before]
      BY <1>3, <2>4 DEF SyncSnapshot, TypeInv, TypeOK
    <3>2. q.pc = "sum"
      BY <2>1, <3>1 DEF Request
    <3>3. QED
      BY <1>1, <3>1, <3>2, QuietStep
  <2>5. CASE SyncSum(r)
    <3>1. PICK next, q : /\ req' = [req EXCEPT ![r] = q]
                         /\ q = [req[r] EXCEPT !.pc = "derive", !.status = next]
      BY <1>3, <2>5 DEF SyncSum, TypeInv, TypeOK
    <3>2. q.pc = "derive"
      BY <2>1, <3>1 DEF Request
    <3>3. QED
      BY <1>1, <3>1, <3>2, QuietStep
  <2>6. CASE RefuseDecision(r)
    BY <1>3, <2>6 DEF RefuseDecision
  <2>7. QED
    BY <2>2, <2>3, <2>4, <2>5, <2>6
<1>4. QED
  BY <1>2, <1>3

LEMMA QuietStory ==
  ASSUME TypeInv, StoryInv, NEW r \in Requests, Alone(r),
         req[r].pc \notin {"record", "append"}, Quiet(r)
  PROVE  StoryInv'
<1>1. PICK q : req' = [req EXCEPT ![r] = q] /\ q.pc \notin {"record", "append"}
  BY DEF Quiet
<1>2. \A o \in Orders : ~Writes(q, o) /\ ~Writes(req[r], o)
  BY <1>1 DEF Writes
<1>3. orders' = orders /\ history' = history
  BY DEF Quiet
<1>4. \A o \in Orders : orders'[o].live => Told(history'[o], orders', o)
  BY <1>2, <1>3, ToldNow
<1>5. QED
  BY <1>1, <1>2, <1>4, EndStory

LEMMA ToldStatus ==
  ASSUME NEW rows, NEW table, NEW o, table[o].live, Told(rows, table, o)
  PROVE  Chained(rows) /\ LastOf(rows).status = table[o].status
<1>1. LastOf(rows) = [status |-> table[o].status, payment |-> table[o].payment]
  BY DEF Told, SnapshotIn
<1>2. QED
  BY <1>1 DEF Told

LEMMA StartStory ==
  ASSUME OneAtATime, RowsInv, StoryInv, NEW r \in Requests, Start(r)
  PROVE  StoryInv'
<1>1. SerialInv /\ TypeInv /\ UnusedIds /\ UnusedHistories
  BY DEF RowsInv, RecordedInv
<1>2. Begin(r)
  BY DEF Start, InsertOrder, StartUpdateOrder, DeleteOrder, StartSetPOStatus, InsertLine,
         UpdateLine, StartDeleteLine, SubmitPurchaseOrder, StartDecidePurchaseOrder,
         SetApprovalLimit, DeleteUser
<1>3. req[r] = Idle /\ Alone(r)
  BY <1>1, <1>2, BeginsAlone DEF Alone
<1>4. \A o \in Orders : ~Writes(Idle, o) /\ ~Writes(req[r], o)
  BY <1>3, IdleWrites
<1>5. \A o \in Orders : orders[o].live => Told(history[o], orders, o)
  BY <1>3, <1>4, ToldNow
<1>6. /\ orders \in [Orders -> Order] /\ history \in [Orders -> Seq(HistoryRow)]
      /\ req \in [Requests -> Request]
  BY <1>1 DEF TypeInv, TypeOK
<1>7. ASSUME req' = req, \A o \in Orders : orders'[o].live => Told(history'[o], orders', o)
      PROVE  StoryInv'
  <2>1. req' = [req EXCEPT ![r] = Idle]
    BY <1>3, <1>6, <1>7
  <2>2. QED
    BY <1>1, <1>3, <1>4, <1>7, <2>1, EndStory
<1>8. CASE InsertOrder(r)
  <2>1. PICK u, q :
          /\ u \in Users
          /\ req' = [req EXCEPT ![r] = q]
          /\ q = [Idle EXCEPT !.pc = "record", !.user = u, !.por = porSeq + 1]
    BY <1>8 DEF InsertOrder
  <2>2. q.pc = "record" /\ q.por = porSeq + 1 /\ q.before = NoSnapshot
    BY <2>1 DEF Idle
  <2>3. PICK o \in Orders : /\ o = porSeq + 1 /\ o > porSeq
                            /\ \A x \in Orders \ {o} : orders'[x] = orders[x]
                            /\ history' = history
    BY <1>1, <1>8, InsertedOrder
  <2>4. Writes(q, o)
    BY <2>2, <2>3 DEF Writes
  <2>5. history'[o] = << >>
    BY <1>1, <2>3 DEF UnusedHistories
  <2>6. Chained(history'[o]) /\ LastOf(history'[o]) = q.before
    BY <2>2, <2>5, TextsEmpty
  <2>7. QED
    BY <1>1, <1>3, <1>4, <2>1, <2>3, <2>4, <2>6, WriterStory
<1>9. CASE DeleteOrder(r)
  <2>1. PICK o \in Orders :
          /\ ~orders'[o].live
          /\ \A x \in Orders \ {o} : orders'[x] = orders[x] /\ history'[x] = history[x]
    BY <1>1, <1>9, DeletedOrder
  <2>2. \A x \in Orders : orders'[x].live => Told(history'[x], orders', x)
    BY <1>5, <2>1 DEF Told, SnapshotIn
  <2>3. req' = req
    BY <1>9 DEF DeleteOrder
  <2>4. QED
    BY <1>7, <2>2, <2>3
<1>10. CASE SubmitPurchaseOrder(r)
  <2>1. PICK u, o, total, row :
          /\ u \in Users /\ o \in 1..porSeq
          /\ orders[o].live
          /\ orders' = [orders EXCEPT ![o].status = "pending_approval", ![o].total = total]
          /\ history' = AddHistoryRow(o, row)
          /\ row = [previous |-> orders[o].status, status |-> "pending_approval",
                    payment |-> orders[o].payment, user |-> u]
          /\ req' = req
    BY <1>10 DEF SubmitPurchaseOrder
  <2>2. o \in Orders
    <3>1. o \in 1..porSeq
      BY <2>1
    <3>2. QED
      BY <1>1, <3>1, InsertedOrders
  <2>3. /\ \A x \in Orders \ {o} : orders'[x] = orders[x] /\ history'[x] = history[x]
        /\ history'[o] = Append(history[o], row)
    BY <1>6, <2>1, <2>2 DEF AddHistoryRow
  <2>4. /\ orders'[o].live /\ orders'[o].status = "pending_approval"
        /\ orders'[o].payment = orders[o].payment
    BY <1>6, <2>1, <2>2 DEF Order
  <2>5. row \in HistoryRow /\ row.previous = orders[o].status /\ row.status = "pending_approval"
        /\ row.payment = orders[o].payment
    BY <1>6, <2>1, <2>2, Texts DEF Order, HistoryRow
  <2>6. Told(history'[o], orders', o)
    <3>1. Chained(history[o]) /\ LastOf(history[o]).status = row.previous
      BY <1>5, <2>1, <2>2, <2>5, ToldStatus
    <3>2. /\ Chained(history'[o])
          /\ LastOf(history'[o]) = [status |-> row.status, payment |-> row.payment]
      BY <1>6, <2>2, <2>3, <2>5, <3>1, AppendStory
    <3>3. QED
      BY <2>4, <2>5, <3>2 DEF Told, SnapshotIn
  <2>7. \A x \in Orders : orders'[x].live => Told(history'[x], orders', x)
    BY <1>5, <2>3, <2>6 DEF Told, SnapshotIn
  <2>8. QED
    BY <1>7, <2>1, <2>7
<1>11. CASE \/ StartUpdateOrder(r) \/ StartSetPOStatus(r) \/ InsertLine(r) \/ UpdateLine(r)
            \/ StartDeleteLine(r) \/ StartDecidePurchaseOrder(r) \/ SetApprovalLimit(r)
            \/ DeleteUser(r)
  <2>1. req[r].pc \notin {"record", "append"}
    BY <1>3 DEF Idle
  <2>2. QED
    BY <1>1, <1>3, <1>11, <2>1, QuietStart, QuietStory
<1>12. QED
  BY <1>8, <1>9, <1>10, <1>11 DEF Start

LEMMA ContinueStory ==
  ASSUME OneAtATime, RowsInv, UsersLive, StoryInv, NEW r \in Requests, Continue(r)
  PROVE  StoryInv'
<1>1. SerialInv /\ TypeInv
  BY DEF RowsInv, RecordedInv
<1>2. /\ orders \in [Orders -> Order] /\ history \in [Orders -> Seq(HistoryRow)]
      /\ req \in [Requests -> Request] /\ req[r] \in Request
      /\ Sound(req[r], orders, Derived, lines)
      /\ req[r].pc \notin {"idle", "parent"} => req[r].por \in Orders /\ req[r].user \in Users
  BY <1>1 DEF SerialInv, TypeInv, TypeOK, RequestsWellFormed, WellFormed
<1>3. Alone(r)
  <2>1. req[r].pc # "idle"
    BY DEF Continue, UpdateOrder, SetPOStatus, RecordPOStatusChange, AppendHistory,
           ReadLineParent, DeleteLine, SyncSnapshot, SyncSum, SyncDerive, DecidePurchaseOrder,
           RefuseDecision
  <2>2. QED
    BY SMTT(30), <1>1, <2>1 DEF SerialInv, Idle
<1>4. PICK o : o = req[r].por
  OBVIOUS
<1>5. \A x \in Orders : Writes(req[r], x) => x = o
  BY <1>4 DEF Writes
<1>6. ASSUME NEW x \in Orders, orders[x].live, x # o \/ req[r].pc \notin {"record", "append"}
      PROVE  Told(history[x], orders, x)
  BY <1>3, <1>4, <1>6, ToldNow DEF Writes
<1>7. ASSUME Finish(r), \A x \in Orders : orders'[x].live => Told(history'[x], orders', x)
      PROVE  StoryInv'
  BY <1>1, <1>3, <1>7, EndStory, IdleWrites DEF Finish
<1>8. CASE \/ ReadLineParent(r) \/ DeleteLine(r) \/ SyncSnapshot(r) \/ SyncSum(r)
           \/ RefuseDecision(r)
  <2>1. req[r].pc \notin {"record", "append"}
    BY <1>8 DEF ReadLineParent, DeleteLine, SyncSnapshot, SyncSum, RefuseDecision
  <2>2. QED
    BY <1>1, <1>3, <1>8, <2>1, QuietContinue, QuietStory
<1>9. CASE UpdateOrder(r) \/ SetPOStatus(r) \/ SyncDerive(r)
  <2>1. /\ orders' = OrdersWrittenBy(r) /\ history' = history
        /\ req[r].pc \in {"update", "setStatus", "derive"}
        /\ IF req[r].pc = "update" /\ ~orders[o].live THEN Finish(r) ELSE Goto(r, "record")
    BY <1>4, <1>9 DEF UpdateOrder, SetPOStatus, SyncDerive
  <2>2. o \in Orders
    BY <1>2, <1>4, <2>1
  <2>3. /\ \A x \in Orders \ {o} : orders'[x] = orders[x] /\ history'[x] = history[x]
        /\ ~orders[o].live => orders' = orders
    BY <1>1, <1>4, <2>1, <2>2, WrittenIs
  <2>4. CASE ~orders[o].live
    <3>1. Finish(r) /\ orders' = orders
      BY <1>2, <1>4, <2>1, <2>3, <2>4 DEF Sound
    <3>2. QED
      BY <1>6, <1>7, <2>1, <3>1
  <2>5. CASE orders[o].live
    <3>1. PICK q : req' = [req EXCEPT ![r] = q] /\ q = [req[r] EXCEPT !.pc = "record"]
      BY <1>2, <2>1, <2>5 DEF Goto
    <3>2. q.pc = "record" /\ q.por = o /\ q.before = req[r].before
      BY <1>2, <1>4, <3>1 DEF Request
    <3>3. Writes(q, o)
      BY <3>2 DEF Writes
    <3>4. req[r].before = SnapshotIn(orders, o)
      BY <1>2, <1>4, <2>1 DEF Sound
    <3>5. Chained(history'[o]) /\ LastOf(history'[o]) = q.before
      BY <1>6, <2>1, <2>2, <2>5, <3>2, <3>4 DEF Told
    <3>6. QED
      BY <1>1, <1>3, <1>5, <2>2, <2>3, <3>1, <3>3, <3>5, WriterStory
  <2>6. QED
    BY <2>4, <2>5
<1>10. CASE RecordPOStatusChange(r)
  <2>1. req[r].pc = "record" /\ orders' = orders /\ history' = history
    BY <1>10 DEF RecordPOStatusChange, dbVars
  <2>2. o \in Orders /\ orders[o].live /\ Writes(req[r], o)
    BY <1>2, <1>4, <2>1 DEF Sound, Writes
  <2>3. Chained(history[o]) /\ LastOf(history[o]) = req[r].before
    BY <2>2 DEF StoryInv
  <2>4. CASE Moved(req[r].before, PurchaseOrderSnapshot(o))
    <3>1. PICK after, q : /\ req' = [req EXCEPT ![r] = q]
                          /\ q = [req[r] EXCEPT !.pc = "append", !.after = after]
      BY <1>2, <1>4, <1>10, <2>2, <2>4 DEF RecordPOStatusChange
    <3>2. q.pc = "append" /\ q.por = o /\ q.before = req[r].before
      BY <1>2, <1>4, <3>1 DEF Request
    <3>3. Writes(q, o)
      BY <3>2 DEF Writes
    <3>4. QED
      BY <1>1, <1>3, <1>5, <2>1, <2>2, <2>3, <3>1, <3>2, <3>3, WriterStory
  <2>5. CASE ~Moved(req[r].before, PurchaseOrderSnapshot(o))
    <3>1. Finish(r)
      BY <1>4, <1>10, <2>5 DEF RecordPOStatusChange
    <3>2. req[r].before = [status |-> req[r].before.status, payment |-> req[r].before.payment]
      BY <1>2 DEF Request, Snapshot
    <3>3. req[r].before = SnapshotIn(orders, o)
      BY <2>2, <2>5, <3>2 DEF Moved, PurchaseOrderSnapshot, SnapshotIn
    <3>4. Told(history[o], orders, o)
      BY <2>3, <3>3 DEF Told
    <3>5. \A x \in Orders : orders'[x].live => Told(history'[x], orders', x)
      BY <1>6, <2>1, <3>4
    <3>6. QED
      BY <1>7, <3>1, <3>5
  <2>6. QED
    BY <2>4, <2>5
<1>11. CASE AppendHistory(r)
  <2>1. req[r].pc = "append" /\ orders' = orders /\ Finish(r)
    BY <1>11 DEF AppendHistory
  <2>2. o \in Orders /\ orders[o].live /\ users[req[r].user].live /\ Writes(req[r], o)
    BY <1>2, <1>4, <2>1 DEF Sound, Writes, UsersLive
  <2>3. Chained(history[o]) /\ LastOf(history[o]) = req[r].before
    BY <2>2 DEF StoryInv
  <2>4. PICK row : /\ history' = AddHistoryRow(o, row)
                   /\ row = [previous |-> req[r].before.status, status |-> req[r].after.status,
                             payment |-> req[r].after.payment, user |-> req[r].user]
    BY <1>4, <1>11, <2>2 DEF AppendHistory
  <2>5. /\ row \in HistoryRow /\ row.previous = req[r].before.status
        /\ row.status = req[r].after.status /\ row.payment = req[r].after.payment
    BY <1>2, <2>1, <2>4 DEF Request, Snapshot, HistoryRow
  <2>6. /\ \A x \in Orders \ {o} : history'[x] = history[x]
        /\ history'[o] = Append(history[o], row)
    BY <1>2, <2>2, <2>4 DEF AddHistoryRow
  <2>7. req[r].after = SnapshotIn(orders, o)
    BY <1>2, <1>4, <2>1 DEF Sound
  <2>8. /\ Chained(history'[o])
        /\ LastOf(history'[o]) = [status |-> row.status, payment |-> row.payment]
    BY <1>2, <2>2, <2>3, <2>5, <2>6, AppendStory
  <2>9. Told(history'[o], orders', o)
    BY <2>1, <2>2, <2>5, <2>7, <2>8 DEF Told, SnapshotIn
  <2>10. \A x \in Orders : orders'[x].live => Told(history'[x], orders', x)
    BY <1>6, <2>1, <2>6, <2>9
  <2>11. QED
    BY <1>7, <2>1, <2>10
<1>12. CASE DecidePurchaseOrder(r)
  <2>1. req[r].pc = "decide" /\ Finish(r)
    BY <1>12 DEF DecidePurchaseOrder
  <2>2. PICK x \in Orders, row \in HistoryRow :
          /\ orders[x].live /\ orders'[x].live
          /\ row.previous = orders[x].status
          /\ row.status = orders'[x].status /\ row.payment = orders'[x].payment
          /\ history'[x] = Append(history[x], row)
          /\ \A y \in Orders \ {x} : orders'[y] = orders[y] /\ history'[y] = history[y]
    BY ZenonT(30), <1>1, <1>12, DecidedOrder DEF Decides
  <2>3. \A y \in Orders : orders[y].live => Told(history[y], orders, y)
    BY <1>6, <2>1
  <2>4. Told(history'[x], orders', x)
    <3>1. Chained(history[x]) /\ LastOf(history[x]).status = row.previous
      BY <2>2, <2>3, ToldStatus
    <3>2. /\ Chained(history'[x])
          /\ LastOf(history'[x]) = [status |-> row.status, payment |-> row.payment]
      BY <1>2, <2>2, <3>1, AppendStory
    <3>3. QED
      BY <2>2, <3>2 DEF Told, SnapshotIn
  <2>5. \A y \in Orders : orders'[y].live => Told(history'[y], orders', y)
    BY <2>2, <2>3, <2>4 DEF Told, SnapshotIn
  <2>6. QED
    BY <1>7, <2>1, <2>5
<1>13. QED
  BY <1>8, <1>9, <1>10, <1>11, <1>12 DEF Continue

LEMMA OneEntry ==
  ASSUME NEW S, NEW log \in Seq(S), Len(log) = 1
  PROVE  log # << >> /\ log[Len(log)] = log[1] /\ \A i \in 1..Len(log) - 1 : FALSE
BY SMTT(30)

LEMMA StoryOne ==
  ASSUME NEW row, row.previous = ""
  PROVE  /\ Chained(<< row >>)
         /\ LastOf(<< row >>) = [status |-> row.status, payment |-> row.payment]
<1>1. PICK log : log = << row >>
  OBVIOUS
<1>2. log \in Seq({row}) /\ Len(log) = 1 /\ log[1] = row
  BY <1>1, SingletonSeq
<1>3. log # << >> /\ log[Len(log)] = row /\ \A i \in 1..Len(log) - 1 : FALSE
  BY <1>2, OneEntry
<1>4. Chained(log)
  BY <1>2, <1>3 DEF Chained
<1>5. LastOf(log) = [status |-> row.status, payment |-> row.payment]
  BY <1>3 DEF LastOf
<1>6. QED
  BY <1>1, <1>4, <1>5

LEMMA LoadedIs ==
  ASSUME NEW s, NEW u
  PROVE  LoadedOrder(s, u).status = s /\ LoadedOrder(s, u).payment = "unpaid"
BY DEF LoadedOrder

LEMMA StoryInit == Init => UsersLive /\ StoryInv
<1> SUFFICES ASSUME Init PROVE UsersLive /\ StoryInv
  OBVIOUS
<1>1. UsersLive
  BY DEF Init, UsersLive
<1>2. \A x \in Requests, o \in Orders : ~Writes(req[x], o)
  BY IdleWrites DEF Init
<1>3. ASSUME NEW o \in Orders, orders[o].live PROVE Told(history[o], orders, o)
  <2>1. PICK s, u, row :
          /\ s \in LoadedStatuses \cup {""} /\ u \in Users
          /\ orders[o] = LoadedOrder(s, u) /\ history[o] = << row >>
          /\ row = [previous |-> "", status |-> s, payment |-> "unpaid", user |-> u]
    BY <1>3, LoadedHistories
  <2>2. row.previous = "" /\ row.status = s /\ row.payment = "unpaid"
    BY <2>1
  <2>3. orders[o].status = s /\ orders[o].payment = "unpaid"
    <3>1. orders[o] = LoadedOrder(s, u)
      BY <2>1
    <3>2. LoadedOrder(s, u).status = s /\ LoadedOrder(s, u).payment = "unpaid"
      BY LoadedIs
    <3>3. QED
      BY <3>1, <3>2, Zenon
  <2>4. Chained(history[o]) /\ LastOf(history[o]) = [status |-> s, payment |-> "unpaid"]
    BY <2>1, <2>2, StoryOne
  <2>5. QED
    BY <1>3, <2>3, <2>4 DEF Told, SnapshotIn
<1>4. QED
  BY <1>1, <1>2, <1>3 DEF StoryInv

LEMMA StoryIsHistory ==
  ASSUME StoryInv PROVE HistoryComplete
<1> SUFFICES ASSUME AllIdle, NEW o \in Orders, orders[o].live, NEW rows, rows = history[o]
             PROVE  /\ \A i \in 1..Len(rows) - 1 : rows[i + 1].previous = rows[i].status
                    /\ rows # << >> =>
                         /\ rows[1].previous = ""
                         /\ rows[Len(rows)].status = orders[o].status
                         /\ rows[Len(rows)].payment = orders[o].payment
                    /\ rows = << >> => PurchaseOrderSnapshot(o) = NoSnapshot
  BY ZenonT(30) DEF HistoryComplete
<1>1. \A x \in Requests : ~Writes(req[x], o)
  BY IdleWrites DEF AllIdle
<1>2. Chained(rows) /\ LastOf(rows) = SnapshotIn(orders, o)
  BY <1>1 DEF StoryInv, Told
<1>3. SnapshotIn(orders, o) = [status |-> orders[o].status, payment |-> orders[o].payment]
  BY DEF SnapshotIn
<1>4. ASSUME rows # << >>
      PROVE  rows[Len(rows)].status = orders[o].status
             /\ rows[Len(rows)].payment = orders[o].payment
  <2>1. LastOf(rows) = [status |-> rows[Len(rows)].status, payment |-> rows[Len(rows)].payment]
    BY <1>4 DEF LastOf
  <2>2. [status |-> rows[Len(rows)].status, payment |-> rows[Len(rows)].payment]
          = [status |-> orders[o].status, payment |-> orders[o].payment]
    BY <1>2, <1>3, <2>1
  <2>3. QED
    BY <2>2
<1>5. ASSUME rows = << >> PROVE PurchaseOrderSnapshot(o) = NoSnapshot
  BY <1>2, <1>5, SnapshotInIs DEF LastOf
<1>6. QED
  BY <1>2, <1>4, <1>5 DEF Chained

\* A history tells the whole story of its order, while requests come one at a
\* time, none is cut off and no user is deleted: each row starts from the status
\* the row before it left, and when nothing is under way the last row is the order
\* as it is.
THEOREM HistoryCorrect ==
  OneAtATime /\ MaxFaults = 0 /\ DeletableUsers = {} => (Spec => []HistoryComplete)
<1> SUFFICES ASSUME OneAtATime, MaxFaults = 0, DeletableUsers = {} PROVE Spec => []HistoryComplete
  OBVIOUS
<1> DEFINE Inv == RowsInv /\ UsersLive /\ StoryInv /\ faults = 0
<1>1. Init => Inv
  <2>1. Init => faults = 0
    BY DEF Init
  <2>2. QED
    BY <2>1, RowsInit, StoryInit
<1>2. ASSUME Inv, [Next]_vars PROVE Inv'
  <2>1. TypeInv
    BY <1>2 DEF RowsInv, RecordedInv
  <2>2. RowsInv' /\ UsersLive'
    BY <1>2, <2>1, RowsStep, UsersStay
  <2>3. ~Restart /\ \A r \in Requests : ~Abort(r)
    BY <1>2 DEF Restart, Abort
  <2>4. ASSUME UNCHANGED vars PROVE StoryInv'
    BY <1>2, <2>4 DEF StoryInv, vars
  <2>5. StoryInv'
    BY <1>2, <2>3, <2>4, StartStory, ContinueStory DEF Next, AwaitRequest
  <2>6. faults' = 0
    BY <1>2, <2>3, FaultsAreFaults
  <2>7. QED
    BY <2>2, <2>5, <2>6
<1>3. Inv => HistoryComplete
  BY StoryIsHistory
<1>4. QED
  BY <1>1, <1>2, <1>3, PTL DEF Spec
=============================================================================
