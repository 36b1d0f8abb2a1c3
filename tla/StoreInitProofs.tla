-------------------------- MODULE StoreInitProofs --------------------------
(***************************************************************************)
(* What a start of the server does to the orders of an old database,       *)
(* wherever and however often it is cut off: Stops may be all the steps.   *)
(***************************************************************************)
EXTENDS StoreInit, TLAPS

USE DEF At, Go, GoOn

-----------------------------------------------------------------------------
(* The three statements that rewrite rows of purchase_orders.              *)

LEMMA RenamesShape ==
    /\ Len(Renames) = 7
    /\ DOMAIN Renames = 1..7
    /\ \A i \in 1..7 : Renames[i][2] # "paid" /\ Renames[i][2] \in Statuses
  <1>1. Len(Renames) = 7 /\ DOMAIN Renames = 1..7
    BY DEF Renames
  <1>2. \A i \in 1..7 : Renames[i][2] # "paid"
    BY DEF Renames
  <1>3. QED
    BY <1>1, <1>2 DEF Statuses

LEMMA PaidRows ==
    BackfillPaid =>
        orders' = [o \in DOMAIN orders |->
                     IF orders[o].status = "paid"
                     THEN [orders[o] EXCEPT !.payment = "paid"] ELSE orders[o]]
  BY DEF BackfillPaid, Updated

LEMMA RenamedRows ==
    RenameStatuses =>
        orders' = [o \in DOMAIN orders |->
                     IF orders[o].status = Renames[index + 1][1]
                     THEN [orders[o] EXCEPT !.status = Renames[index + 1][2]] ELSE orders[o]]
  BY DEF RenameStatuses, Updated

LEMMA UnpaidRows ==
    DefaultUnpaid =>
        orders' = [o \in DOMAIN orders |->
                     IF orders[o].payment = ""
                     THEN [orders[o] EXCEPT !.payment = "unpaid"] ELSE orders[o]]
  BY DEF DefaultUnpaid, Updated

\* None of them adds a row or takes one away.
LEMMA SameOrders ==
    ASSUME BackfillPaid \/ RenameStatuses \/ DefaultUnpaid
    PROVE  DOMAIN orders' = DOMAIN orders
  BY PaidRows, RenamedRows, UnpaidRows

-----------------------------------------------------------------------------
(* Types.                                                                  *)

\* Where init is in its two lists of statements.
InList ==
    /\ pc = "statuses" => index < Len(Renames)
    /\ pc = "seed" => index < Len(SeedUsers)

TypeInv == OpenTypeOK /\ InList

\* The rewritten rows are rows again.
LEMMA RowTypes ==
    ASSUME TypeInv, BackfillPaid \/ RenameStatuses \/ DefaultUnpaid
    PROVE  \A o \in DOMAIN orders' : orders'[o] \in Row
  <1> SUFFICES ASSUME NEW o \in DOMAIN orders' PROVE orders'[o] \in Row
    OBVIOUS
  <1>1. o \in DOMAIN orders
    BY SameOrders
  <1>2. orders[o] \in Row
    BY <1>1 DEF TypeInv, OpenTypeOK
  <1>3. CASE BackfillPaid
    BY ZenonT(30), <1>1, <1>2, <1>3, PaidRows DEF Row, Payments
  <1>4. CASE RenameStatuses
    <2>1. index + 1 \in 1..7
      BY <1>4, RenamesShape DEF RenameStatuses, TypeInv, OpenTypeOK, InList
    <2>2. Renames[index + 1][2] \in Statuses
      BY <2>1, RenamesShape
    <2>3. QED
      BY <1>1, <1>2, <1>4, <2>2, RenamedRows DEF Row
  <1>5. CASE DefaultUnpaid
    <2>1. orders'[o] = IF orders[o].payment = ""
                       THEN [orders[o] EXCEPT !.payment = "unpaid"] ELSE orders[o]
      BY <1>1, <1>5, UnpaidRows
    <2>2. [orders[o] EXCEPT !.payment = "unpaid"] \in Row
      BY <1>2 DEF Row, Payments
    <2>3. QED
      BY <1>2, <2>1, <2>2
  <1>6. QED
    BY <1>3, <1>4, <1>5

LEMMA InitType == OpenInit => TypeInv
  <1> SUFFICES ASSUME OpenInit PROVE TypeInv
    OBVIOUS
  <1>1. DOMAIN orders \subseteq Orders /\ \A o \in DOMAIN orders : orders[o] \in Row
    BY DEF OpenInit, Row, Statuses, Payments
  <1>2. DOMAIN lines \subseteq Lines /\ \A l \in DOMAIN lines : lines[l] \in Orders
    BY DEF OpenInit
  <1>3. DOMAIN rebuilt \subseteq Orders /\ \A o \in DOMAIN rebuilt : rebuilt[o] \in Row
    BY DEF OpenInit, NoRows
  <1>4. index \in 0..Len(Renames) /\ stops \in 0..MaxStops
    BY StoreInputs, RenamesShape DEF OpenInit
  <1>5. users \subseteq {SeedUsers[i] : i \in DOMAIN SeedUsers} /\ limited \subseteq users
    <2>1. SeedUsers[1] = "admin" /\ 1 \in DOMAIN SeedUsers
      BY DEF SeedUsers
    <2>2. users \subseteq {"admin"} /\ limited = {}
      BY DEF OpenInit
    <2>3. QED
      BY <2>1, <2>2
  <1>6. /\ {present, linked, built, foreignKeys, obsolete} \subseteq BOOLEAN
        /\ retired \subseteq Retired /\ columns \subseteq LateColumns /\ codes \subseteq Codes
        /\ pc \in OpenSteps
    <2>1. present \in BOOLEAN /\ linked \in BOOLEAN /\ built \in BOOLEAN
          /\ foreignKeys \in BOOLEAN /\ obsolete \in BOOLEAN
      BY DEF OpenInit
    <2>2. QED
      BY <2>1 DEF OpenInit, OpenSteps
  <1>7. InList
    BY DEF OpenInit, InList
  <1>8. QED
    BY <1>1, <1>2, <1>3, <1>4, <1>5, <1>6, <1>7 DEF TypeInv, OpenTypeOK

LEMMA NextType == TypeInv /\ [OpenNext]_openVars => TypeInv'
  <1> SUFFICES ASSUME TypeInv, [OpenNext]_openVars PROVE TypeInv'
    OBVIOUS
  <1> USE DEF TypeInv, InList, OpenSteps
  <1>a. 0 \in 0..Len(Renames) /\ Len(SeedUsers) = 3
    BY RenamesShape DEF SeedUsers
  <1>1. CASE Pragma
    BY <1>1, <1>a DEF Pragma, OpenTypeOK, NoRows, tables
  <1>2. CASE CreateTables
    BY <1>2, <1>a DEF CreateTables, OpenTypeOK, NoRows, tables
  <1>3. CASE Linked
    BY <1>3, <1>a DEF Linked, OpenTypeOK, NoRows, tables
  <1>4. CASE ForeignKeysOff
    BY <1>4, <1>a DEF ForeignKeysOff, OpenTypeOK, NoRows, tables
  <1>5. CASE BuildTable
    BY <1>5, <1>a DEF BuildTable, OpenTypeOK, NoRows, tables
  <1>6. CASE CopyOrders
    BY <1>6, <1>a DEF CopyOrders, OpenTypeOK, NoRows, tables
  <1>7. CASE DropOrders
    BY <1>7, <1>a DEF DropOrders, OpenTypeOK, NoRows, tables
  <1>8. CASE RenameTable
    BY <1>8, <1>a DEF RenameTable, OpenTypeOK, NoRows, tables
  <1>9. CASE ForeignKeysOn
    BY <1>9, <1>a DEF ForeignKeysOn, OpenTypeOK, NoRows, tables
  <1>10. CASE DropRetired
    BY <1>10, <1>a DEF DropRetired, OpenTypeOK, NoRows, tables
  <1>11. CASE EnsureColumns
    BY <1>11, <1>a DEF EnsureColumns, OpenTypeOK, NoRows, tables
  <1>12. CASE RenameStatusValue
    BY <1>12, <1>a DEF RenameStatusValue, OpenTypeOK, NoRows, tables
  <1>13. CASE BackfillPaid
    <2>1. DOMAIN orders' \subseteq Orders /\ \A o \in DOMAIN orders' : orders'[o] \in Row
      BY <1>13, SameOrders, RowTypes DEF OpenTypeOK
    <2>2. pc' \in OpenSteps /\ index' \in 0..Len(Renames) /\ InList'
      BY <1>13, <1>a, RenamesShape DEF BackfillPaid, OpenTypeOK
    <2>3. QED
      BY <1>13, <2>1, <2>2 DEF BackfillPaid, OpenTypeOK, OrdersOnly
  <1>14. CASE RenameStatuses
    <2>1. DOMAIN orders' \subseteq Orders /\ \A o \in DOMAIN orders' : orders'[o] \in Row
      BY <1>14, SameOrders, RowTypes DEF OpenTypeOK
    <2>2. pc' \in OpenSteps /\ index' \in 0..Len(Renames) /\ InList'
      BY <1>14, <1>a, RenamesShape DEF RenameStatuses, OpenTypeOK
    <2>3. QED
      BY <1>14, <2>1, <2>2 DEF RenameStatuses, OpenTypeOK, OrdersOnly
  <1>15. CASE DefaultUnpaid
    <2>1. DOMAIN orders' \subseteq Orders /\ \A o \in DOMAIN orders' : orders'[o] \in Row
      BY <1>15, SameOrders, RowTypes DEF OpenTypeOK
    <2>2. pc' \in OpenSteps /\ index' \in 0..Len(Renames) /\ InList'
      BY <1>15, <1>a, RenamesShape DEF DefaultUnpaid, OpenTypeOK
    <2>3. QED
      BY <1>15, <2>1, <2>2 DEF DefaultUnpaid, OpenTypeOK, OrdersOnly
  <1>16. CASE SeedCodes
    BY <1>16, <1>a DEF SeedCodes, OpenTypeOK, NoRows, tables
  <1>17. CASE BackfillLimits
    BY <1>17, <1>a DEF BackfillLimits, OpenTypeOK, NoRows, tables
  <1>18. CASE CountUsers
    BY <1>18, <1>a DEF CountUsers, OpenTypeOK, NoRows, tables
  <1>19. CASE SeedUser
    <2>1. index + 1 \in 1..3 /\ DOMAIN SeedUsers = 1..3
      BY <1>19, <1>a DEF SeedUser, OpenTypeOK, SeedUsers
    <2>2. /\ users' \subseteq {SeedUsers[i] : i \in DOMAIN SeedUsers}
          /\ limited' \subseteq users'
      BY <1>19, <2>1 DEF SeedUser, OpenTypeOK
    <2>3. pc' \in OpenSteps /\ index' \in 0..Len(Renames) /\ InList'
      BY <1>19, <1>a, <2>1, RenamesShape DEF SeedUser, OpenTypeOK
    <2>4. QED
      BY <1>19, <2>2, <2>3 DEF SeedUser, OpenTypeOK
  <1>20. CASE Start
    BY <1>20, <1>a DEF Start, OpenTypeOK, NoRows, tables
  <1>21. CASE Stop
    BY <1>21, <1>a, StoreInputs DEF Stop, OpenTypeOK, tables
  <1>22. CASE Serve
    BY <1>22, <1>a DEF Serve, OpenTypeOK, openVars, tables
  <1>23. CASE UNCHANGED openVars
    BY <1>23 DEF OpenTypeOK, openVars, tables
  <1>24. QED
    BY <1>1, <1>2, <1>3, <1>4, <1>5, <1>6, <1>7, <1>8, <1>9, <1>10, <1>11, <1>12, <1>13, <1>14, <1>15, <1>16, <1>17, <1>18, <1>19, <1>20, <1>21, <1>22, <1>23 DEF OpenNext, InitStep

\* Every variable has its type at every step of every instance.
THEOREM TypeCorrect == OpenSpec => []OpenTypeOK
  <1>1. TypeInv => OpenTypeOK
    BY DEF TypeInv
  <1>2. QED
    BY <1>1, InitType, NextType, PTL DEF OpenSpec

-----------------------------------------------------------------------------
(***************************************************************************)
(* OrdersSurvive.  Until the drop the rows are in purchase_orders; at the  *)
(* drop the copy has them too; and a start that finds no purchase_orders   *)
(* makes one beside that copy, without the link, so that nothing is copied *)
(* over it any more.                                                       *)
(***************************************************************************)

\* A table that is not there has no rows and no column.
Absent == ~present => DOMAIN orders = {} /\ ~linked

\* Only a table with the link is rebuilt, and it has every old order.
Rebuildable ==
    /\ linked => DOMAIN old.orders \subseteq DOMAIN orders
    /\ pc \in {"keysOff", "build", "copy", "drop"} => linked
    /\ pc = "drop" => rebuilt = orders
    /\ pc = "rename" => DOMAIN old.orders \subseteq DOMAIN rebuilt

Somewhere ==
    \/ DOMAIN old.orders \subseteq DOMAIN orders
    \/ DOMAIN old.orders \subseteq DOMAIN rebuilt

OrdersInv == Absent /\ Rebuildable /\ Somewhere

LEMMA InitOrders == OpenInit => OrdersInv
  <1> SUFFICES ASSUME OpenInit PROVE OrdersInv
    OBVIOUS
  <1>1. ~present => orders = NoRows /\ ~linked
    BY DEF OpenInit
  <1>2. DOMAIN NoRows = {}
    BY DEF NoRows
  <1>3. Absent
    BY <1>1, <1>2 DEF Absent
  <1>4. Rebuildable /\ Somewhere
    BY DEF OpenInit, Rebuildable, Somewhere
  <1>5. QED
    BY <1>3, <1>4 DEF OrdersInv

LEMMA NextOrders == OrdersInv /\ [OpenNext]_openVars => OrdersInv'
  <1> SUFFICES ASSUME OrdersInv, [OpenNext]_openVars PROVE OrdersInv'
    OBVIOUS
  <1> USE DEF OrdersInv, Absent, Rebuildable, Somewhere
  <1>1. CASE Pragma
    BY <1>1 DEF Pragma, NoRows, tables, openVars
  <1>2. CASE CreateTables
    BY <1>2 DEF CreateTables, NoRows, tables, openVars
  <1>3. CASE Linked
    BY <1>3 DEF Linked, NoRows, tables, openVars
  <1>4. CASE ForeignKeysOff
    BY <1>4 DEF ForeignKeysOff, NoRows, tables, openVars
  <1>5. CASE BuildTable
    BY <1>5 DEF BuildTable, NoRows, tables, openVars
  <1>6. CASE CopyOrders
    BY <1>6 DEF CopyOrders, NoRows, tables, openVars
  <1>7. CASE DropOrders
    BY <1>7 DEF DropOrders, NoRows, tables, openVars
  <1>8. CASE RenameTable
    BY <1>8 DEF RenameTable, NoRows, tables, openVars
  <1>9. CASE ForeignKeysOn
    BY <1>9 DEF ForeignKeysOn, NoRows, tables, openVars
  <1>10. CASE DropRetired
    BY <1>10 DEF DropRetired, NoRows, tables, openVars
  <1>11. CASE EnsureColumns
    BY <1>11 DEF EnsureColumns, NoRows, tables, openVars
  <1>12. CASE RenameStatusValue
    BY <1>12 DEF RenameStatusValue, NoRows, tables, openVars
  <1>13. CASE BackfillPaid
    BY <1>13, SameOrders DEF BackfillPaid, OrdersOnly
  <1>14. CASE RenameStatuses
    BY <1>14, SameOrders DEF RenameStatuses, OrdersOnly
  <1>15. CASE DefaultUnpaid
    BY <1>15, SameOrders DEF DefaultUnpaid, OrdersOnly
  <1>16. CASE SeedCodes
    BY <1>16 DEF SeedCodes, NoRows, tables, openVars
  <1>17. CASE BackfillLimits
    BY <1>17 DEF BackfillLimits, NoRows, tables, openVars
  <1>18. CASE CountUsers
    BY <1>18 DEF CountUsers, NoRows, tables, openVars
  <1>19. CASE SeedUser
    BY <1>19 DEF SeedUser, NoRows, tables, openVars
  <1>20. CASE Start
    BY <1>20 DEF Start, NoRows, tables, openVars
  <1>21. CASE Stop
    BY <1>21 DEF Stop, tables
  <1>22. CASE Serve
    BY <1>22 DEF Serve, NoRows, tables, openVars
  <1>23. CASE UNCHANGED openVars
    BY <1>23 DEF openVars, tables
  <1>24. QED
    BY <1>1, <1>2, <1>3, <1>4, <1>5, <1>6, <1>7, <1>8, <1>9, <1>10, <1>11, <1>12, <1>13, <1>14, <1>15, <1>16, <1>17, <1>18, <1>19, <1>20, <1>21, <1>22, <1>23 DEF OpenNext, InitStep

\* Wherever starts are cut off, an old order is in purchase_orders or in the
\* table of the rebuild: it can be brought back.
THEOREM OrdersSurviveCorrect == OpenSpec => []OrdersSurvive
  <1>1. OrdersInv => OrdersSurvive
    BY DEF OrdersInv, Somewhere, OrdersSurvive
  <1>2. QED
    BY <1>1, InitOrders, NextOrders, PTL DEF OpenSpec

-----------------------------------------------------------------------------
(* LinesSurvive: the keys are off whenever the table is dropped.           *)

LinesInv ==
    /\ lines = old.lines
    /\ pc \in {"build", "copy", "drop"} => ~foreignKeys

LEMMA InitLines == OpenInit => LinesInv
  BY DEF OpenInit, LinesInv

LEMMA NextLines == LinesInv /\ [OpenNext]_openVars => LinesInv'
  <1> SUFFICES ASSUME LinesInv, [OpenNext]_openVars PROVE LinesInv'
    OBVIOUS
  <1> USE DEF LinesInv
  <1>1. CASE Pragma
    BY <1>1 DEF Pragma, tables, openVars
  <1>2. CASE CreateTables
    BY <1>2 DEF CreateTables, tables, openVars
  <1>3. CASE Linked
    BY <1>3 DEF Linked, tables, openVars
  <1>4. CASE ForeignKeysOff
    BY <1>4 DEF ForeignKeysOff, tables, openVars
  <1>5. CASE BuildTable
    BY <1>5 DEF BuildTable, tables, openVars
  <1>6. CASE CopyOrders
    BY <1>6 DEF CopyOrders, tables, openVars
  <1>7. CASE DropOrders
    BY <1>7 DEF DropOrders, tables, openVars
  <1>8. CASE RenameTable
    BY <1>8 DEF RenameTable, tables, openVars
  <1>9. CASE ForeignKeysOn
    BY <1>9 DEF ForeignKeysOn, tables, openVars
  <1>10. CASE DropRetired
    BY <1>10 DEF DropRetired, tables, openVars
  <1>11. CASE EnsureColumns
    BY <1>11 DEF EnsureColumns, tables, openVars
  <1>12. CASE RenameStatusValue
    BY <1>12 DEF RenameStatusValue, tables, openVars
  <1>13. CASE BackfillPaid
    BY <1>13 DEF BackfillPaid, OrdersOnly
  <1>14. CASE RenameStatuses
    BY <1>14 DEF RenameStatuses, OrdersOnly
  <1>15. CASE DefaultUnpaid
    BY <1>15 DEF DefaultUnpaid, OrdersOnly
  <1>16. CASE SeedCodes
    BY <1>16 DEF SeedCodes, tables, openVars
  <1>17. CASE BackfillLimits
    BY <1>17 DEF BackfillLimits, tables, openVars
  <1>18. CASE CountUsers
    BY <1>18 DEF CountUsers, tables, openVars
  <1>19. CASE SeedUser
    BY <1>19 DEF SeedUser, tables, openVars
  <1>20. CASE Start
    BY <1>20 DEF Start, tables, openVars
  <1>21. CASE Stop
    BY <1>21 DEF Stop, tables, openVars
  <1>22. CASE Serve
    BY <1>22 DEF Serve, tables, openVars
  <1>23. CASE UNCHANGED openVars
    BY <1>23 DEF openVars, tables
  <1>24. QED
    BY <1>1, <1>2, <1>3, <1>4, <1>5, <1>6, <1>7, <1>8, <1>9, <1>10, <1>11, <1>12, <1>13, <1>14, <1>15, <1>16, <1>17, <1>18, <1>19, <1>20, <1>21, <1>22, <1>23 DEF OpenNext, InitStep

\* No start removes or changes a line of an order, cut off or not.
THEOREM LinesSurviveCorrect == OpenSpec => []LinesSurvive
  <1>1. LinesInv => LinesSurvive
    BY DEF LinesInv, LinesSurvive
  <1>2. QED
    BY <1>1, InitLines, NextLines, PTL DEF OpenSpec

-----------------------------------------------------------------------------
(* PaidStaysPaid: the tag is there before the first status is renamed.     *)

Shows(rows) ==
    \A o \in DOMAIN old.orders \intersect DOMAIN rows :
        old.orders[o].status = "paid" => "paid" \in {rows[o].status, rows[o].payment}

PaidInv ==
    /\ Shows(orders)
    /\ Shows(rebuilt)
    /\ pc = "statuses" =>
           \A o \in DOMAIN orders : orders[o].status = "paid" => orders[o].payment = "paid"

LEMMA InitPaid == OpenInit => PaidInv
  BY DEF OpenInit, PaidInv, Shows, NoRows

LEMMA NextPaid == TypeInv /\ PaidInv /\ [OpenNext]_openVars => PaidInv'
  <1> SUFFICES ASSUME TypeInv, PaidInv, [OpenNext]_openVars PROVE PaidInv'
    OBVIOUS
  <1> USE DEF PaidInv, Shows
  <1>r. \A o \in DOMAIN orders : orders[o] \in Row
    BY DEF TypeInv, OpenTypeOK
  <1>1. CASE Pragma
    BY <1>1 DEF Pragma, NoRows, tables, openVars
  <1>2. CASE CreateTables
    BY <1>2 DEF CreateTables, NoRows, tables, openVars
  <1>3. CASE Linked
    BY <1>3 DEF Linked, NoRows, tables, openVars
  <1>4. CASE ForeignKeysOff
    BY <1>4 DEF ForeignKeysOff, NoRows, tables, openVars
  <1>5. CASE BuildTable
    BY <1>5 DEF BuildTable, NoRows, tables, openVars
  <1>6. CASE CopyOrders
    BY <1>6 DEF CopyOrders, NoRows, tables, openVars
  <1>7. CASE DropOrders
    BY <1>7 DEF DropOrders, NoRows, tables, openVars
  <1>8. CASE RenameTable
    BY <1>8 DEF RenameTable, NoRows, tables, openVars
  <1>9. CASE ForeignKeysOn
    BY <1>9 DEF ForeignKeysOn, NoRows, tables, openVars
  <1>10. CASE DropRetired
    BY <1>10 DEF DropRetired, NoRows, tables, openVars
  <1>11. CASE EnsureColumns
    BY <1>11 DEF EnsureColumns, NoRows, tables, openVars
  <1>12. CASE RenameStatusValue
    BY <1>12 DEF RenameStatusValue, NoRows, tables, openVars
  <1>13. CASE BackfillPaid
    <2>1. \A o \in DOMAIN orders :
             /\ orders'[o].status = orders[o].status
             /\ orders'[o].payment = IF orders[o].status = "paid" THEN "paid"
                                     ELSE orders[o].payment
      BY <1>13, <1>r, PaidRows DEF Row
    <2>2. DOMAIN orders' = DOMAIN orders /\ old' = old /\ rebuilt' = rebuilt
      BY <1>13, SameOrders DEF BackfillPaid, OrdersOnly
    <2>3. \A o \in DOMAIN orders' : orders'[o].status = "paid" => orders'[o].payment = "paid"
      BY <2>1, <2>2
    <2>4. Shows(orders)'
      BY <2>1, <2>2
    <2>5. QED
      BY <2>2, <2>3, <2>4
  <1>14. CASE RenameStatuses
    <2>1. index + 1 \in 1..7
      BY <1>14, RenamesShape DEF RenameStatuses, TypeInv, OpenTypeOK, InList
    <2>2. Renames[index + 1][2] # "paid"
      BY <2>1, RenamesShape
    <2>3. \A o \in DOMAIN orders : orders[o].status = "paid" => orders[o].payment = "paid"
      BY <1>14 DEF RenameStatuses
    <2>4. \A o \in DOMAIN orders :
             /\ orders'[o].payment = orders[o].payment
             /\ orders'[o].status \in {orders[o].status, Renames[index + 1][2]}
      BY <1>14, <1>r, RenamedRows DEF Row
    <2>5. DOMAIN orders' = DOMAIN orders /\ old' = old /\ rebuilt' = rebuilt
      BY <1>14, SameOrders DEF RenameStatuses, OrdersOnly
    <2>6. \A o \in DOMAIN orders' : orders'[o].status = "paid" => orders'[o].payment = "paid"
      BY <2>2, <2>3, <2>4, <2>5
    <2>7. Shows(orders)'
      BY <2>3, <2>4, <2>5
    <2>8. QED
      BY <2>5, <2>6, <2>7
  <1>15. CASE DefaultUnpaid
    <2>1. \A o \in DOMAIN orders :
             /\ orders'[o].status = orders[o].status
             /\ orders[o].payment # "" => orders'[o].payment = orders[o].payment
      BY <1>15, <1>r, UnpaidRows DEF Row
    <2>2. DOMAIN orders' = DOMAIN orders /\ old' = old /\ rebuilt' = rebuilt
      BY <1>15, SameOrders DEF DefaultUnpaid, OrdersOnly
    <2>3. Shows(orders)'
      BY <2>1, <2>2
    <2>4. QED
      BY <1>15, <2>2, <2>3 DEF DefaultUnpaid
  <1>16. CASE SeedCodes
    BY <1>16 DEF SeedCodes, NoRows, tables, openVars
  <1>17. CASE BackfillLimits
    BY <1>17 DEF BackfillLimits, NoRows, tables, openVars
  <1>18. CASE CountUsers
    BY <1>18 DEF CountUsers, NoRows, tables, openVars
  <1>19. CASE SeedUser
    BY <1>19 DEF SeedUser, NoRows, tables, openVars
  <1>20. CASE Start
    BY <1>20 DEF Start, NoRows, tables, openVars
  <1>21. CASE Stop
    BY <1>21 DEF Stop, NoRows, tables, openVars
  <1>22. CASE Serve
    BY <1>22 DEF Serve, NoRows, tables, openVars
  <1>23. CASE UNCHANGED openVars
    BY <1>23 DEF openVars, tables
  <1>24. QED
    BY <1>1, <1>2, <1>3, <1>4, <1>5, <1>6, <1>7, <1>8, <1>9, <1>10, <1>11, <1>12, <1>13, <1>14, <1>15, <1>16, <1>17, <1>18, <1>19, <1>20, <1>21, <1>22, <1>23 DEF OpenNext, InitStep

\* At no moment of a start, cut off or not, is it forgotten that an order was
\* paid: the status is renamed only when the tag is there.
THEOREM PaidStaysPaidCorrect == OpenSpec => []PaidStaysPaid
  <1>1. PaidInv => PaidStaysPaid
    BY DEF PaidInv, Shows, PaidStaysPaid
  <1>2. OpenInit => TypeInv /\ PaidInv
    BY InitType, InitPaid
  <1>3. TypeInv /\ PaidInv /\ [OpenNext]_openVars => (TypeInv /\ PaidInv)'
    BY NextType, NextPaid
  <1>4. QED
    BY <1>1, <1>2, <1>3, PTL DEF OpenSpec

-----------------------------------------------------------------------------
(* SeededWithAdmin: the admin is the first of the users a start inserts.   *)

\* A seeding that is past its first user has made the admin.
AdminInv ==
    /\ SeededWithAdmin
    /\ pc = "seed" => index = 0 \/ users # {}

LEMMA NextAdmin == TypeInv /\ AdminInv /\ [OpenNext]_openVars => AdminInv'
  <1> SUFFICES ASSUME TypeInv, AdminInv, [OpenNext]_openVars PROVE AdminInv'
    OBVIOUS
  <1> USE DEF AdminInv, SeededWithAdmin
  <1>1. CASE SeedUser
    <2>1. index = 0 => SeedUsers[index + 1] = "admin"
      BY DEF SeedUsers
    <2>2. "admin" \in users'
      BY <1>1, <2>1 DEF SeedUser
    <2>3. QED
      BY <2>2
  <1>2. CASE CountUsers
    BY <1>2 DEF CountUsers, Go, tables
  <1>3. CASE /\ InitStep \/ Stop \/ Serve \/ UNCHANGED openVars
             /\ ~SeedUser /\ ~CountUsers
    <2>1. users' = users
      BY <1>3 DEF InitStep, Pragma, CreateTables, Linked, ForeignKeysOff, BuildTable, CopyOrders,
         DropOrders, RenameTable, ForeignKeysOn, DropRetired, EnsureColumns, RenameStatusValue,
         BackfillPaid, RenameStatuses, DefaultUnpaid, SeedCodes, BackfillLimits, Start, Stop, Serve,
         OrdersOnly, tables, openVars
    <2>2. pc' = "seed" => UNCHANGED openVars
      BY <1>3 DEF InitStep, Pragma, CreateTables, Linked, ForeignKeysOff, BuildTable, CopyOrders,
         DropOrders, RenameTable, ForeignKeysOn, DropRetired, EnsureColumns, RenameStatusValue,
         BackfillPaid, RenameStatuses, DefaultUnpaid, SeedCodes, BackfillLimits, Start, Stop, Serve,
         Go, GoOn
    <2>3. QED
      BY <2>1, <2>2 DEF openVars
  <1>4. QED
    BY <1>1, <1>2, <1>3 DEF OpenNext

\* However often a seeding is cut off, once there are users one is the admin:
\* no later start seeds a table that has a user in it.
THEOREM SeededCorrect == OpenSpec => []SeededWithAdmin
  <1>1. OpenInit => TypeInv /\ AdminInv
    BY InitType DEF OpenInit, AdminInv, SeededWithAdmin
  <1>2. TypeInv /\ AdminInv /\ [OpenNext]_openVars => (TypeInv /\ AdminInv)'
    BY NextType, NextAdmin
  <1>3. AdminInv => SeededWithAdmin
    BY DEF AdminInv
  <1>4. QED
    BY <1>1, <1>2, <1>3, PTL DEF OpenSpec
-----------------------------------------------------------------------------
(***************************************************************************)
(* What a start that came to its end leaves behind, wherever and however   *)
(* often starts before it were cut off.                                    *)
(***************************************************************************)

\* The steps at which the rebuild, the retired tables, the columns, the old
\* name of a status value and the rows of orders are done with.
AfterOrders == {"codes", "limits", "count", "seed", "ready"}
AfterObsolete == {"paid", "statuses", "unpaid"} \union AfterOrders
AfterColumns == {"obsolete"} \union AfterObsolete
AfterRetired == {"columns"} \union AfterColumns
AfterRebuild == {"retire"} \union AfterRetired

SchemaInv ==
    /\ pc \in AfterRetired => retired = {}
    /\ pc \in AfterColumns => columns = LateColumns
    /\ pc \in AfterObsolete => ~obsolete
    /\ pc \in {"limits", "count", "seed", "ready"} => codes = Codes

\* An admin gets the limit where the users are counted, or is seeded with it.
LimitsInv ==
    /\ pc = "count" => users \intersect {"admin"} \subseteq limited
    /\ pc = "seed" => index = 0 \/ "admin" \in limited
    /\ pc = "ready" => "admin" \in limited

LEMMA StepSets ==
    /\ AfterOrders \subseteq AfterObsolete /\ AfterObsolete \subseteq AfterColumns
    /\ AfterColumns \subseteq AfterRetired /\ AfterRetired \subseteq AfterRebuild
    /\ {"stopped", "pragma", "create", "linked", "keysOff", "build", "copy", "drop", "rename",
        "keysOn"} \intersect AfterRebuild = {}
  BY DEF AfterOrders, AfterObsolete, AfterColumns, AfterRetired, AfterRebuild

LEMMA NextSchema == SchemaInv /\ [OpenNext]_openVars => SchemaInv'
  <1> SUFFICES ASSUME SchemaInv, [OpenNext]_openVars PROVE SchemaInv'
    OBVIOUS
  <1> USE DEF SchemaInv, AfterOrders, AfterObsolete, AfterColumns, AfterRetired
  <1>1. CASE Pragma
    BY <1>1 DEF Pragma, tables, openVars
  <1>2. CASE CreateTables
    BY <1>2 DEF CreateTables, tables, openVars
  <1>3. CASE Linked
    BY <1>3 DEF Linked, tables, openVars
  <1>4. CASE ForeignKeysOff
    BY <1>4 DEF ForeignKeysOff, tables, openVars
  <1>5. CASE BuildTable
    BY <1>5 DEF BuildTable, tables, openVars
  <1>6. CASE CopyOrders
    BY <1>6 DEF CopyOrders, tables, openVars
  <1>7. CASE DropOrders
    BY <1>7 DEF DropOrders, tables, openVars
  <1>8. CASE RenameTable
    BY <1>8 DEF RenameTable, tables, openVars
  <1>9. CASE ForeignKeysOn
    BY <1>9 DEF ForeignKeysOn, tables, openVars
  <1>10. CASE DropRetired
    BY <1>10 DEF DropRetired, tables, openVars
  <1>11. CASE EnsureColumns
    BY <1>11 DEF EnsureColumns, tables, openVars
  <1>12. CASE RenameStatusValue
    BY <1>12 DEF RenameStatusValue, tables, openVars
  <1>13. CASE BackfillPaid
    BY <1>13 DEF BackfillPaid, OrdersOnly, tables, openVars
  <1>14. CASE RenameStatuses
    BY <1>14 DEF RenameStatuses, OrdersOnly, tables, openVars
  <1>15. CASE DefaultUnpaid
    BY <1>15 DEF DefaultUnpaid, OrdersOnly, tables, openVars
  <1>16. CASE SeedCodes
    BY <1>16 DEF SeedCodes, tables, openVars
  <1>17. CASE BackfillLimits
    BY <1>17 DEF BackfillLimits, tables, openVars
  <1>18. CASE CountUsers
    BY <1>18 DEF CountUsers, tables, openVars
  <1>19. CASE SeedUser
    BY <1>19 DEF SeedUser, tables, openVars
  <1>20. CASE Start
    BY <1>20 DEF Start, tables, openVars
  <1>21. CASE Stop
    BY <1>21 DEF Stop, tables, openVars
  <1>22. CASE Serve
    BY <1>22 DEF Serve, tables, openVars
  <1>23. CASE UNCHANGED openVars
    BY <1>23 DEF openVars, tables
  <1>24. QED
    BY <1>1, <1>2, <1>3, <1>4, <1>5, <1>6, <1>7, <1>8, <1>9, <1>10, <1>11, <1>12, <1>13, <1>14, <1>15, <1>16, <1>17, <1>18, <1>19, <1>20, <1>21, <1>22, <1>23 DEF OpenNext, InitStep

LEMMA NextLimits == TypeInv /\ AdminInv /\ LimitsInv /\ [OpenNext]_openVars => LimitsInv'
  <1> SUFFICES ASSUME TypeInv, AdminInv, LimitsInv, [OpenNext]_openVars PROVE LimitsInv'
    OBVIOUS
  <1> USE DEF LimitsInv
  <1>1. CASE Pragma
    BY <1>1 DEF Pragma, tables, openVars
  <1>2. CASE CreateTables
    BY <1>2 DEF CreateTables, tables, openVars
  <1>3. CASE Linked
    BY <1>3 DEF Linked, tables, openVars
  <1>4. CASE ForeignKeysOff
    BY <1>4 DEF ForeignKeysOff, tables, openVars
  <1>5. CASE BuildTable
    BY <1>5 DEF BuildTable, tables, openVars
  <1>6. CASE CopyOrders
    BY <1>6 DEF CopyOrders, tables, openVars
  <1>7. CASE DropOrders
    BY <1>7 DEF DropOrders, tables, openVars
  <1>8. CASE RenameTable
    BY <1>8 DEF RenameTable, tables, openVars
  <1>9. CASE ForeignKeysOn
    BY <1>9 DEF ForeignKeysOn, tables, openVars
  <1>10. CASE DropRetired
    BY <1>10 DEF DropRetired, tables, openVars
  <1>11. CASE EnsureColumns
    BY <1>11 DEF EnsureColumns, tables, openVars
  <1>12. CASE RenameStatusValue
    BY <1>12 DEF RenameStatusValue, tables, openVars
  <1>13. CASE BackfillPaid
    BY <1>13 DEF BackfillPaid, OrdersOnly, tables, openVars
  <1>14. CASE RenameStatuses
    BY <1>14 DEF RenameStatuses, OrdersOnly, tables, openVars
  <1>15. CASE DefaultUnpaid
    BY <1>15 DEF DefaultUnpaid, OrdersOnly, tables, openVars
  <1>16. CASE SeedCodes
    BY <1>16 DEF SeedCodes, tables, openVars
  <1>17. CASE BackfillLimits
    BY <1>17 DEF BackfillLimits, tables, openVars
  <1>18. CASE CountUsers
    BY <1>18 DEF CountUsers, AdminInv, SeededWithAdmin, tables
  <1>19. CASE SeedUser
    <2>1. index = 0 => SeedUsers[index + 1] = "admin"
      BY DEF SeedUsers
    <2>2. index \in Nat /\ pc = "seed"
      BY <1>19 DEF SeedUser, TypeInv, OpenTypeOK
    <2>3. "admin" \in limited'
      BY <1>19, <2>1, <2>2 DEF SeedUser
    <2>4. QED
      BY <1>19, <2>2, <2>3 DEF SeedUser
  <1>20. CASE Start
    BY <1>20 DEF Start, tables, openVars
  <1>21. CASE Stop
    BY <1>21 DEF Stop, tables, openVars
  <1>22. CASE Serve
    BY <1>22 DEF Serve, tables, openVars
  <1>23. CASE UNCHANGED openVars
    BY <1>23 DEF openVars, tables
  <1>24. QED
    BY <1>1, <1>2, <1>3, <1>4, <1>5, <1>6, <1>7, <1>8, <1>9, <1>10, <1>11, <1>12, <1>13, <1>14, <1>15, <1>16, <1>17, <1>18, <1>19, <1>20, <1>21, <1>22, <1>23 DEF OpenNext, InitStep

-----------------------------------------------------------------------------
(***************************************************************************)
(* The orders stay where they are through a start, but for one cut: a stop *)
(* between the drop and the rename leaves them in the table of the         *)
(* rebuild, as they were, and later starts do not look there.              *)
(***************************************************************************)

LeftBehind == built /\ ~linked

PlaceInv ==
    /\ orders = [o \in DOMAIN orders |-> orders[o]]
    /\ old.orders = [o \in DOMAIN old.orders |-> old.orders[o]]
    /\ ~present => DOMAIN orders = {} /\ ~linked
    /\ linked => orders = old.orders
    /\ pc \in {"keysOff", "build", "copy", "drop"} => linked
    /\ pc \in {"copy", "drop"} => built
    /\ pc = "drop" => rebuilt = old.orders
    /\ pc = "rename" => LeftBehind
    /\ pc \in {"keysOn"} \union AfterRebuild => ~linked
    /\ IF LeftBehind THEN DOMAIN orders = {} /\ rebuilt = old.orders
       ELSE DOMAIN orders = DOMAIN old.orders

LEMMA InitPlace == OpenInit => PlaceInv
  <1> SUFFICES ASSUME OpenInit PROVE PlaceInv
    OBVIOUS
  <1>1. ~present => orders = NoRows /\ ~linked
    BY DEF OpenInit
  <1>2. DOMAIN NoRows = {}
    BY DEF NoRows
  <1>3. /\ orders = [o \in DOMAIN orders |-> orders[o]] /\ orders = old.orders
        /\ old.orders = [o \in DOMAIN old.orders |-> old.orders[o]]
    BY DEF OpenInit
  <1>4. ~built /\ pc = "pragma"
    BY DEF OpenInit
  <1>5. QED
    BY <1>1, <1>2, <1>3, <1>4, StepSets DEF PlaceInv, LeftBehind

LEMMA NextPlace == PlaceInv /\ [OpenNext]_openVars => PlaceInv'
  <1> SUFFICES ASSUME PlaceInv, [OpenNext]_openVars PROVE PlaceInv'
    OBVIOUS
  <1> USE DEF PlaceInv, LeftBehind, AfterRebuild, AfterRetired, AfterColumns, AfterObsolete,
              AfterOrders
  <1>1. CASE Pragma
    BY <1>1 DEF Pragma, NoRows, tables, openVars
  <1>2. CASE CreateTables
    BY <1>2 DEF CreateTables, NoRows, tables, openVars
  <1>3. CASE Linked
    BY <1>3 DEF Linked, NoRows, tables, openVars
  <1>4. CASE ForeignKeysOff
    BY <1>4 DEF ForeignKeysOff, NoRows, tables, openVars
  <1>5. CASE BuildTable
    BY <1>5 DEF BuildTable, NoRows, tables, openVars
  <1>6. CASE CopyOrders
    BY <1>6 DEF CopyOrders, NoRows, tables, openVars
  <1>7. CASE DropOrders
    BY <1>7 DEF DropOrders, NoRows, tables, openVars
  <1>8. CASE RenameTable
    BY <1>8 DEF RenameTable, NoRows, tables, openVars
  <1>9. CASE ForeignKeysOn
    BY <1>9 DEF ForeignKeysOn, NoRows, tables, openVars
  <1>10. CASE DropRetired
    BY <1>10 DEF DropRetired, NoRows, tables, openVars
  <1>11. CASE EnsureColumns
    BY <1>11 DEF EnsureColumns, NoRows, tables, openVars
  <1>12. CASE RenameStatusValue
    BY <1>12 DEF RenameStatusValue, NoRows, tables, openVars
  <1>13. CASE BackfillPaid
    <2>1. DOMAIN orders' = DOMAIN orders
      BY <1>13, SameOrders
    <2>2. orders' = [o \in DOMAIN orders' |-> orders'[o]]
      BY <1>13, PaidRows
    <2>3. ~linked /\ pc \in AfterRebuild /\ old' = old
      BY <1>13 DEF BackfillPaid, OrdersOnly
    <2>4. QED
      BY <1>13, <2>1, <2>2, <2>3 DEF BackfillPaid, OrdersOnly
  <1>14. CASE RenameStatuses
    <2>1. DOMAIN orders' = DOMAIN orders
      BY <1>14, SameOrders
    <2>2. orders' = [o \in DOMAIN orders' |-> orders'[o]]
      BY <1>14, RenamedRows
    <2>3. ~linked /\ pc \in AfterRebuild /\ old' = old
      BY <1>14 DEF RenameStatuses, OrdersOnly
    <2>4. QED
      BY <1>14, <2>1, <2>2, <2>3 DEF RenameStatuses, OrdersOnly
  <1>15. CASE DefaultUnpaid
    <2>1. DOMAIN orders' = DOMAIN orders
      BY <1>15, SameOrders
    <2>2. orders' = [o \in DOMAIN orders' |-> orders'[o]]
      BY <1>15, UnpaidRows
    <2>3. ~linked /\ pc \in AfterRebuild /\ old' = old
      BY <1>15 DEF DefaultUnpaid, OrdersOnly
    <2>4. QED
      BY <1>15, <2>1, <2>2, <2>3 DEF DefaultUnpaid, OrdersOnly
  <1>16. CASE SeedCodes
    BY <1>16 DEF SeedCodes, NoRows, tables, openVars
  <1>17. CASE BackfillLimits
    BY <1>17 DEF BackfillLimits, NoRows, tables, openVars
  <1>18. CASE CountUsers
    BY <1>18 DEF CountUsers, NoRows, tables, openVars
  <1>19. CASE SeedUser
    BY <1>19 DEF SeedUser, NoRows, tables, openVars
  <1>20. CASE Start
    BY <1>20 DEF Start, NoRows, tables, openVars
  <1>21. CASE Stop
    BY <1>21 DEF Stop, NoRows, tables, openVars
  <1>22. CASE Serve
    BY <1>22 DEF Serve, NoRows, tables, openVars
  <1>23. CASE UNCHANGED openVars
    BY <1>23 DEF openVars, tables
  <1>24. QED
    BY <1>1, <1>2, <1>3, <1>4, <1>5, <1>6, <1>7, <1>8, <1>9, <1>10, <1>11, <1>12, <1>13, <1>14, <1>15, <1>16, <1>17, <1>18, <1>19, <1>20, <1>21, <1>22, <1>23 DEF OpenNext, InitStep

-----------------------------------------------------------------------------
(* The row of an order on its way to what Migrated makes of the old one.   *)

LEMMA NewNames ==
    /\ \A i \in 1..7 : NewName(Renames[i][1]) = Renames[i][2]
    /\ \A status : (\A i \in 1..7 : Renames[i][1] # status) => NewName(status) = status
    /\ \A i, j \in 1..7 : Renames[i][2] # Renames[j][1]
    /\ NewName("paid") # "paid"
  <1>1. \A i, j \in 1..7 : Renames[i][1] = Renames[j][1] => i = j
    BY DEF Renames
  <1>2. \A i, j \in 1..7 : Renames[i][2] # Renames[j][1]
    BY DEF Renames
  <1>3. ASSUME NEW i \in 1..7 PROVE NewName(Renames[i][1]) = Renames[i][2]
    <2>1. (CHOOSE j \in DOMAIN Renames : Renames[j][1] = Renames[i][1]) = i
      BY <1>1, RenamesShape
    <2>2. QED
      BY <2>1, RenamesShape DEF NewName
  <1>4. \A status : (\A i \in 1..7 : Renames[i][1] # status) => NewName(status) = status
    BY RenamesShape DEF NewName
  <1>5. 5 \in 1..7 /\ Renames[5][1] = "paid"
    BY DEF Renames
  <1>6. NewName("paid") # "paid"
    BY <1>3, <1>5, RenamesShape
  <1>7. QED
    BY <1>2, <1>3, <1>4, <1>6

\* Both columns are the old ones or the new ones, the tag being written first.
OnTheWay(row, was) ==
    /\ row \in Row
    /\ row.status \in {was.status, NewName(was.status)}
    /\ row.payment \in {was.payment, Migrated(was).payment}
    /\ was.status = "paid" /\ row.status # "paid" => row.payment = "paid"

Tagged(row) == row.status = "paid" => row.payment = "paid"
NotRenamedBy(row, n) == \A i \in 1..n : row.status # Renames[i][1]

RowsInv ==
    /\ DOMAIN orders \subseteq DOMAIN old.orders
    /\ \A o \in DOMAIN old.orders : old.orders[o] \in Row
    /\ \A o \in DOMAIN orders :
           /\ OnTheWay(orders[o], old.orders[o])
           /\ pc = "statuses" => Tagged(orders[o]) /\ NotRenamedBy(orders[o], index)
           /\ pc = "unpaid" => orders[o].status = NewName(old.orders[o].status)
           /\ pc \in AfterOrders => orders[o] = Migrated(old.orders[o])

LEMMA AtTheStart == ASSUME NEW was \in Row PROVE OnTheWay(was, was)
  BY DEF OnTheWay

\* The three statements, on one row.
LEMMA PaidOnTheWay ==
    ASSUME NEW was \in Row, NEW row, OnTheWay(row, was),
           NEW new,
           new = IF row.status = "paid" THEN [row EXCEPT !.payment = "paid"] ELSE row
    PROVE  OnTheWay(new, was) /\ Tagged(new)
  <1>1. row \in Row /\ new \in Row
    BY DEF OnTheWay, Row, Payments
  <1>2. new.status = row.status
        /\ new.payment = IF row.status = "paid" THEN "paid" ELSE row.payment
    BY <1>1 DEF Row
  <1>3. row.status = "paid" => was.status = "paid"
    <2>1. NewName(was.status) = "paid" => was.status = "paid"
      BY NewNames, RenamesShape
    <2>2. QED
      BY <2>1 DEF OnTheWay
  <1>4. was.status = "paid" => Migrated(was).payment = "paid"
    BY DEF Migrated
  <1>5. OnTheWay(new, was)
    BY <1>1, <1>2, <1>3, <1>4 DEF OnTheWay
  <1>6. QED
    BY <1>2, <1>5 DEF Tagged

LEMMA RenamedOnTheWay ==
    ASSUME NEW was \in Row, NEW row, OnTheWay(row, was), Tagged(row),
           NEW n \in 1..7, NotRenamedBy(row, n - 1),
           NEW new,
           new = IF row.status = Renames[n][1] THEN [row EXCEPT !.status = Renames[n][2]] ELSE row
    PROVE  OnTheWay(new, was) /\ Tagged(new) /\ NotRenamedBy(new, n)
  <1>1. row \in Row /\ new \in Row
    BY RenamesShape DEF OnTheWay, Row
  <1>2. /\ new.payment = row.payment
        /\ new.status = IF row.status = Renames[n][1] THEN Renames[n][2] ELSE row.status
    BY <1>1 DEF Row
  <1>3. row.status = Renames[n][1] => was.status = row.status
    <2>1. NewName(was.status) = Renames[n][1] => was.status = Renames[n][1]
      <3>1. CASE \A i \in 1..7 : Renames[i][1] # was.status
        BY <3>1, NewNames
      <3>2. CASE \E i \in 1..7 : Renames[i][1] = was.status
        BY <3>2, NewNames
      <3>3. QED
        BY <3>1, <3>2
    <2>2. QED
      BY <2>1 DEF OnTheWay
  <1>4. OnTheWay(new, was)
    BY <1>1, <1>2, <1>3, NewNames, RenamesShape DEF OnTheWay, Tagged
  <1>5. Tagged(new)
    BY <1>2, RenamesShape DEF Tagged
  <1>6. NotRenamedBy(new, n)
    <2> SUFFICES ASSUME NEW i \in 1..n PROVE new.status # Renames[i][1]
      BY DEF NotRenamedBy
    <2>1. i \in 1..7 /\ (i = n \/ i \in 1..(n - 1))
      OBVIOUS
    <2>2. QED
      BY <1>2, <2>1, NewNames DEF NotRenamedBy
  <1>7. QED
    BY <1>4, <1>5, <1>6

\* After the last rename every status has its new name.
LEMMA AllRenamed ==
    ASSUME NEW was \in Row, NEW row, OnTheWay(row, was), NotRenamedBy(row, 7)
    PROVE  row.status = NewName(was.status)
  <1>1. CASE \A i \in 1..7 : Renames[i][1] # was.status
    BY <1>1, NewNames DEF OnTheWay
  <1>2. CASE \E i \in 1..7 : Renames[i][1] = was.status
    BY <1>2 DEF OnTheWay, NotRenamedBy
  <1>3. QED
    BY <1>1, <1>2

LEMMA UnpaidOnTheWay ==
    ASSUME NEW was \in Row, NEW row, OnTheWay(row, was), row.status = NewName(was.status),
           NEW new \in Row, new.status = row.status,
           new.payment = IF row.payment = "" THEN "unpaid" ELSE row.payment
    PROVE  OnTheWay(new, was) /\ new = Migrated(was)
  <1>1. was.status = "paid" => row.payment = "paid"
    BY NewNames DEF OnTheWay
  <1>2. new.payment = Migrated(was).payment
    BY <1>1 DEF OnTheWay, Migrated
  <1>3. new.status = Migrated(was).status
    BY DEF Migrated
  <1>4. new = Migrated(was)
    BY <1>2, <1>3 DEF Row, Migrated
  <1>5. was.status = "paid" => new.payment = "paid"
    BY <1>1
  <1>6. OnTheWay(new, was)
    BY <1>2, <1>5 DEF OnTheWay
  <1>7. QED
    BY <1>4, <1>6

LEMMA InitRows == OpenInit => RowsInv
  <1> SUFFICES ASSUME OpenInit PROVE RowsInv
    OBVIOUS
  <1>1. orders = old.orders /\ pc = "pragma"
    BY DEF OpenInit
  <1>2. \A o \in DOMAIN orders : orders[o] \in Row
    BY InitType DEF TypeInv, OpenTypeOK
  <1>3. QED
    BY <1>1, <1>2, AtTheStart, StepSets DEF RowsInv, AfterOrders

LEMMA NextRows == TypeInv /\ PlaceInv /\ RowsInv /\ [OpenNext]_openVars => RowsInv'
  <1> SUFFICES ASSUME TypeInv, PlaceInv, RowsInv, [OpenNext]_openVars PROVE RowsInv'
    OBVIOUS
  <1> USE DEF RowsInv, AfterOrders
  <1>a. \A o \in DOMAIN old.orders : OnTheWay(old.orders[o], old.orders[o])
    BY AtTheStart
  <1>1. CASE Pragma
    BY <1>1 DEF Pragma, NoRows, tables, openVars
  <1>2. CASE CreateTables
    BY <1>2 DEF CreateTables, NoRows, tables, openVars
  <1>3. CASE Linked
    BY <1>3 DEF Linked, NoRows, tables, openVars
  <1>4. CASE ForeignKeysOff
    BY <1>4 DEF ForeignKeysOff, NoRows, tables, openVars
  <1>5. CASE BuildTable
    BY <1>5 DEF BuildTable, NoRows, tables, openVars
  <1>6. CASE CopyOrders
    BY <1>6 DEF CopyOrders, NoRows, tables, openVars
  <1>7. CASE DropOrders
    BY <1>7 DEF DropOrders, NoRows, tables, openVars
  <1>8. CASE RenameTable
    <2>1. orders' = old.orders /\ old' = old /\ pc' = "keysOn"
      BY <1>8 DEF RenameTable, PlaceInv, LeftBehind
    <2>2. QED
      BY <1>a, <2>1
  <1>9. CASE ForeignKeysOn
    BY <1>9 DEF ForeignKeysOn, NoRows, tables, openVars
  <1>10. CASE DropRetired
    BY <1>10 DEF DropRetired, NoRows, tables, openVars
  <1>11. CASE EnsureColumns
    BY <1>11 DEF EnsureColumns, NoRows, tables, openVars
  <1>12. CASE RenameStatusValue
    BY <1>12 DEF RenameStatusValue, NoRows, tables, openVars
  <1>13. CASE BackfillPaid
    <2>1. DOMAIN orders' = DOMAIN orders /\ old' = old /\ pc' = "statuses" /\ index' = 0
      BY <1>13, SameOrders DEF BackfillPaid, OrdersOnly
    <2>2. SUFFICES ASSUME NEW o \in DOMAIN orders
                   PROVE  /\ OnTheWay(orders'[o], old.orders[o])
                          /\ Tagged(orders'[o]) /\ NotRenamedBy(orders'[o], 0)
      BY <2>1
    <2>3. orders'[o] = IF orders[o].status = "paid" THEN [orders[o] EXCEPT !.payment = "paid"]
                       ELSE orders[o]
      BY <1>13, PaidRows
    <2>4. NotRenamedBy(orders'[o], 0)
      BY DEF NotRenamedBy
    <2>5. old.orders[o] \in Row /\ OnTheWay(orders[o], old.orders[o])
      OBVIOUS
    <2>6. QED
      BY <2>3, <2>4, <2>5, PaidOnTheWay
  <1>14. CASE RenameStatuses
    <2>1. DOMAIN orders' = DOMAIN orders /\ old' = old /\ pc = "statuses"
      BY <1>14, SameOrders DEF RenameStatuses, OrdersOnly
    <2>2. PICK n \in 1..7 : n = index + 1 /\ n - 1 = index
      BY <1>14, RenamesShape DEF RenameStatuses, TypeInv, OpenTypeOK, InList
    <2>3. \/ pc' = "unpaid" /\ n = 7
          \/ pc' = "statuses" /\ index' = n
      BY <1>14, <2>2, RenamesShape DEF RenameStatuses
    <2>4. ASSUME NEW o \in DOMAIN orders
          PROVE  /\ OnTheWay(orders'[o], old.orders[o])
                 /\ Tagged(orders'[o]) /\ NotRenamedBy(orders'[o], n)
      <3>1. orders'[o] = IF orders[o].status = Renames[n][1]
                         THEN [orders[o] EXCEPT !.status = Renames[n][2]] ELSE orders[o]
        BY <1>14, <2>2, RenamedRows
      <3>2. old.orders[o] \in Row /\ OnTheWay(orders[o], old.orders[o])
            /\ Tagged(orders[o]) /\ NotRenamedBy(orders[o], n - 1)
        BY <2>1, <2>2
      <3>3. QED
        BY <3>1, <3>2, RenamedOnTheWay
    <2>5. CASE pc' = "unpaid" /\ n = 7
      <3>1. \A o \in DOMAIN orders : orders'[o].status = NewName(old.orders[o].status)
        BY <2>4, <2>5, AllRenamed
      <3>2. QED
        BY <2>1, <2>4, <2>5, <3>1
    <2>6. CASE pc' = "statuses" /\ index' = n
      BY <2>1, <2>4, <2>6
    <2>7. QED
      BY <2>3, <2>5, <2>6
  <1>15. CASE DefaultUnpaid
    <2>1. DOMAIN orders' = DOMAIN orders /\ old' = old /\ pc = "unpaid" /\ pc' = "codes"
      BY <1>15, SameOrders DEF DefaultUnpaid, OrdersOnly
    <2>2. SUFFICES ASSUME NEW o \in DOMAIN orders
                   PROVE  /\ OnTheWay(orders'[o], old.orders[o])
                          /\ orders'[o] = Migrated(old.orders[o])
      BY <2>1
    <2>3. /\ orders'[o] \in Row /\ orders'[o].status = orders[o].status
          /\ orders'[o].payment = IF orders[o].payment = "" THEN "unpaid" ELSE orders[o].payment
      <3>1. orders'[o] \in Row /\ orders[o] \in Row
        BY <1>15, <2>1, RowTypes DEF TypeInv, OpenTypeOK
      <3>2. orders'[o] = IF orders[o].payment = "" THEN [orders[o] EXCEPT !.payment = "unpaid"]
                         ELSE orders[o]
        BY <1>15, UnpaidRows
      <3>3. orders[o].payment = "" =>
               orders'[o].status = orders[o].status /\ orders'[o].payment = "unpaid"
        BY <3>1, <3>2 DEF Row
      <3>4. orders[o].payment # "" => orders'[o] = orders[o]
        BY <3>2
      <3>5. QED
        BY <3>1, <3>3, <3>4
    <2>4. old.orders[o] \in Row /\ OnTheWay(orders[o], old.orders[o])
          /\ orders[o].status = NewName(old.orders[o].status)
      BY <2>1
    <2>5. QED
      BY <2>3, <2>4, UnpaidOnTheWay
  <1>16. CASE SeedCodes
    BY <1>16 DEF SeedCodes, NoRows, tables, openVars
  <1>17. CASE BackfillLimits
    BY <1>17 DEF BackfillLimits, NoRows, tables, openVars
  <1>18. CASE CountUsers
    BY <1>18 DEF CountUsers, NoRows, tables, openVars
  <1>19. CASE SeedUser
    BY <1>19 DEF SeedUser, NoRows, tables, openVars
  <1>20. CASE Start
    BY <1>20 DEF Start, NoRows, tables, openVars
  <1>21. CASE Stop
    BY <1>21 DEF Stop, NoRows, tables, openVars
  <1>22. CASE Serve
    BY <1>22 DEF Serve, NoRows, tables, openVars
  <1>23. CASE UNCHANGED openVars
    BY <1>23 DEF openVars, tables
  <1>24. QED
    BY <1>1, <1>2, <1>3, <1>4, <1>5, <1>6, <1>7, <1>8, <1>9, <1>10, <1>11, <1>12, <1>13, <1>14, <1>15, <1>16, <1>17, <1>18, <1>19, <1>20, <1>21, <1>22, <1>23 DEF OpenNext, InitStep

-----------------------------------------------------------------------------
StartInv == TypeInv /\ AdminInv /\ SchemaInv /\ LimitsInv /\ PlaceInv /\ RowsInv

LEMMA InitStart == OpenInit => StartInv
  <1> SUFFICES ASSUME OpenInit PROVE StartInv
    OBVIOUS
  <1>1. AdminInv
    BY DEF OpenInit, AdminInv, SeededWithAdmin
  <1>2. pc = "pragma"
    BY DEF OpenInit
  <1>3. SchemaInv /\ LimitsInv
    BY <1>2, StepSets DEF SchemaInv, LimitsInv
  <1>4. QED
    BY <1>1, <1>3, InitType, InitPlace, InitRows DEF StartInv

LEMMA NextStart == StartInv /\ [OpenNext]_openVars => StartInv'
  BY NextType, NextAdmin, NextSchema, NextLimits, NextPlace, NextRows DEF StartInv

\* What holds of the database once init has come to its end.
CompletedStart ==
    At("ready") =>
        /\ ~linked /\ ~obsolete
        /\ retired = {} /\ columns = LateColumns /\ codes = Codes
        /\ "admin" \in limited
        /\ \/ /\ ~built
              /\ orders = [o \in DOMAIN old.orders |-> Migrated(old.orders[o])]
           \/ /\ built
              /\ DOMAIN orders = {}
              /\ rebuilt = old.orders

LEMMA ReadyDatabase == StartInv => CompletedStart
  <1> SUFFICES ASSUME StartInv, pc = "ready" PROVE CompletedStart
    BY DEF CompletedStart
  <1>1. /\ retired = {} /\ columns = LateColumns /\ ~obsolete /\ codes = Codes
        /\ "admin" \in limited
    BY DEF StartInv, SchemaInv, LimitsInv, AfterRetired, AfterColumns, AfterObsolete, AfterOrders
  <1>2. /\ ~linked /\ orders = [o \in DOMAIN orders |-> orders[o]]
        /\ IF built THEN DOMAIN orders = {} /\ rebuilt = old.orders
           ELSE DOMAIN orders = DOMAIN old.orders
    <2>1. pc \in AfterRebuild
      BY DEF AfterRebuild, AfterRetired, AfterColumns, AfterObsolete, AfterOrders
    <2>2. QED
      BY <2>1 DEF StartInv, PlaceInv, LeftBehind
  <1>3. \A o \in DOMAIN orders : orders[o] = Migrated(old.orders[o])
    BY DEF StartInv, RowsInv, AfterOrders
  <1>4. ~built => orders = [o \in DOMAIN old.orders |-> Migrated(old.orders[o])]
    BY <1>2, <1>3
  <1>5. built \in BOOLEAN
    BY DEF StartInv, TypeInv, OpenTypeOK
  <1>6. QED
    BY <1>1, <1>2, <1>4, <1>5 DEF CompletedStart

\* A start that comes to its end leaves the current schema and an admin who
\* can sign; and either every order of the old database, as Migrated says, or,
\* after a stop before the rename, all of them untouched in the other table.
THEOREM CompletedStartCorrect == OpenSpec => []CompletedStart
  BY InitStart, NextStart, ReadyDatabase, PTL DEF OpenSpec

\* The table of the rebuild stands for the orders only between drop and rename.
RenamedInTime == LeftBehind => pc = "rename"

LEMMA NextInTime ==
    "rename" \notin Stops => (PlaceInv /\ RenamedInTime /\ [OpenNext]_openVars => RenamedInTime')
  <1> SUFFICES ASSUME "rename" \notin Stops, PlaceInv, RenamedInTime, [OpenNext]_openVars
               PROVE  RenamedInTime'
    OBVIOUS
  <1> USE DEF RenamedInTime, LeftBehind
  <1>1. CASE Pragma
    BY <1>1 DEF Pragma, PlaceInv, tables, openVars
  <1>2. CASE CreateTables
    BY <1>2 DEF CreateTables, PlaceInv, tables, openVars
  <1>3. CASE Linked
    BY <1>3 DEF Linked, PlaceInv, tables, openVars
  <1>4. CASE ForeignKeysOff
    BY <1>4 DEF ForeignKeysOff, PlaceInv, tables, openVars
  <1>5. CASE BuildTable
    BY <1>5 DEF BuildTable, PlaceInv, tables, openVars
  <1>6. CASE CopyOrders
    BY <1>6 DEF CopyOrders, PlaceInv, tables, openVars
  <1>7. CASE DropOrders
    BY <1>7 DEF DropOrders, PlaceInv, tables, openVars
  <1>8. CASE RenameTable
    BY <1>8 DEF RenameTable, PlaceInv, tables, openVars
  <1>9. CASE ForeignKeysOn
    BY <1>9 DEF ForeignKeysOn, PlaceInv, tables, openVars
  <1>10. CASE DropRetired
    BY <1>10 DEF DropRetired, PlaceInv, tables, openVars
  <1>11. CASE EnsureColumns
    BY <1>11 DEF EnsureColumns, PlaceInv, tables, openVars
  <1>12. CASE RenameStatusValue
    BY <1>12 DEF RenameStatusValue, PlaceInv, tables, openVars
  <1>13. CASE BackfillPaid
    BY <1>13 DEF BackfillPaid, OrdersOnly, PlaceInv, tables, openVars
  <1>14. CASE RenameStatuses
    BY <1>14 DEF RenameStatuses, OrdersOnly, PlaceInv, tables, openVars
  <1>15. CASE DefaultUnpaid
    BY <1>15 DEF DefaultUnpaid, OrdersOnly, PlaceInv, tables, openVars
  <1>16. CASE SeedCodes
    BY <1>16 DEF SeedCodes, PlaceInv, tables, openVars
  <1>17. CASE BackfillLimits
    BY <1>17 DEF BackfillLimits, PlaceInv, tables, openVars
  <1>18. CASE CountUsers
    BY <1>18 DEF CountUsers, PlaceInv, tables, openVars
  <1>19. CASE SeedUser
    BY <1>19 DEF SeedUser, PlaceInv, tables, openVars
  <1>20. CASE Start
    BY <1>20 DEF Start, PlaceInv, tables, openVars
  <1>21. CASE Stop
    BY <1>21 DEF Stop, PlaceInv, tables, openVars
  <1>22. CASE Serve
    BY <1>22 DEF Serve, PlaceInv, tables, openVars
  <1>23. CASE UNCHANGED openVars
    BY <1>23 DEF openVars, tables
  <1>24. QED
    BY <1>1, <1>2, <1>3, <1>4, <1>5, <1>6, <1>7, <1>8, <1>9, <1>10, <1>11, <1>12, <1>13, <1>14, <1>15, <1>16, <1>17, <1>18, <1>19, <1>20, <1>21, <1>22, <1>23 DEF OpenNext, InitStep

ReadyIsCurrent == At("ready") => Current

\* Without a stop at that one step, whatever the other stops: once the server
\* serves, every old order is there and migrated.
THEOREM ReadyIsCurrentCorrect ==
    "rename" \notin Stops => (OpenSpec => [](ReadyIsCurrent /\ OrdersCarriedOver))
  <1> SUFFICES ASSUME "rename" \notin Stops
               PROVE  OpenSpec => [](ReadyIsCurrent /\ OrdersCarriedOver)
    OBVIOUS
  <1>1. OpenInit => StartInv /\ RenamedInTime
    BY InitStart DEF OpenInit, RenamedInTime, LeftBehind
  <1>2. StartInv /\ RenamedInTime /\ [OpenNext]_openVars => (StartInv /\ RenamedInTime)'
    BY NextStart, NextInTime DEF StartInv
  <1>3. StartInv /\ RenamedInTime => ReadyIsCurrent /\ OrdersCarriedOver
    <2> SUFFICES ASSUME StartInv, RenamedInTime, pc = "ready" PROVE Current /\ OrdersCarriedOver
      BY DEF ReadyIsCurrent, OrdersCarriedOver
    <2>1. CompletedStart
      BY ReadyDatabase
    <2>2. ~built
      BY <2>1 DEF CompletedStart, RenamedInTime, LeftBehind
    <2>3. QED
      BY <2>1, <2>2 DEF CompletedStart, Current, OrdersCarriedOver
  <1>4. QED
    BY <1>1, <1>2, <1>3, PTL DEF OpenSpec
=============================================================================
