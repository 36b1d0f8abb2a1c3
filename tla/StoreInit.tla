----------------------------- MODULE StoreInit -----------------------------
(***************************************************************************)
(* store.Open: what init does to a database that an older version wrote,   *)
(* statement by statement.  No statement of init is in a transaction with  *)
(* another one, so the process may stop between any two of them and the    *)
(* next start goes through all of them again on what it finds.             *)
(*                                                                         *)
(* Orders stand for the rows of purchase_orders, lines for the rows of the *)
(* tables that point at them.  Of a row, the status and the payment tag    *)
(* are kept, the two columns the migration changes.                        *)
(***************************************************************************)
EXTENDS Naturals, Sequences, FiniteSets

CONSTANTS
    Orders,         \* rows the old database may hold
    Lines,          \* rows of po_components it may hold
    OldStatuses,    \* statuses its orders may have
    OldPayments,    \* payment tags its orders may have; "" for NULL
    LateColumns,    \* columns that ensureColumn adds
    Codes,          \* designationDefaults
    MaxStops,       \* bound on the times the process stops during a start
    Stops           \* steps before which it may stop

Retired == {"prq_components", "purchase_requisitions", "approvals", "approval_rules"}

\* The renames of migratePOStatuses, in their order.
Renames == << <<"sent", "issued">>, <<"prepared", "confirmed">>, <<"shipped", "confirmed">>,
              <<"delivered", "received">>, <<"paid", "closed">>, <<"complete", "closed">>,
              <<"inactive", "cancelled">> >>

\* Mutant: the users come in another order.
SeedUsersByName == <<"guest", "user", "admin">>

\* defaultUsers, by login name, in their order.
SeedUsers == <<"admin", "user", "guest">>

Payments == OldPayments \union {"", "paid", "unpaid"}
Statuses == OldStatuses \union {Renames[i][2] : i \in DOMAIN Renames}
Row == [status : Statuses, payment : Payments]

OpenSteps == {"stopped", "pragma", "create", "linked", "keysOff", "build", "copy", "drop", "rename",
          "keysOn", "retire", "columns", "obsolete", "paid", "statuses", "unpaid", "codes",
          "limits", "count", "seed", "ready"}

ASSUME StoreInputs ==
    /\ MaxStops \in Nat
    /\ Stops \subseteq OpenSteps

VARIABLES
    pc,             \* the statement init runs next
    index,          \* how far it is in a list of statements
    present,        \* the table purchase_orders is there
    orders,         \* its rows: a function from their ids
    linked,         \* it has the column prq_id
    built,          \* the table purchase_orders_rebuilt is there
    rebuilt,        \* its rows
    lines,          \* po_components: the order every row points at
    foreignKeys,    \* PRAGMA foreign_keys of the connection
    retired,        \* retired tables that are there
    columns,        \* late columns that are there
    obsolete,       \* a status column still holds "Absolete"
    codes,          \* rows of designation_codes
    users,          \* rows of users, by login name
    limited,        \* the users with an approval limit
    stops,          \* counts the stops, for the bound only
    old             \* the orders and lines of the old database

tables == <<present, orders, linked, built, rebuilt, lines, retired, columns, obsolete, codes,
            users, limited>>
openVars == <<pc, index, tables, foreignKeys, stops, old>>

OpenTypeOK ==
    /\ pc \in OpenSteps
    /\ index \in 0..Len(Renames)
    /\ DOMAIN orders \subseteq Orders /\ \A o \in DOMAIN orders : orders[o] \in Row
    /\ DOMAIN rebuilt \subseteq Orders /\ \A o \in DOMAIN rebuilt : rebuilt[o] \in Row
    /\ DOMAIN lines \subseteq Lines /\ \A l \in DOMAIN lines : lines[l] \in Orders
    /\ {present, linked, built, foreignKeys, obsolete} \subseteq BOOLEAN
    /\ retired \subseteq Retired
    /\ columns \subseteq LateColumns
    /\ codes \subseteq Codes
    /\ users \subseteq {SeedUsers[i] : i \in DOMAIN SeedUsers}
    /\ limited \subseteq users
    /\ stops \in 0..MaxStops

NoRows == [o \in {} |-> ""]

\* A database of a version before the requisitions were retired, of one
\* after, or an empty file.
OpenInit ==
    /\ pc = "pragma"
    /\ index = 0
    /\ \E rows \in SUBSET Orders :
           /\ orders \in [rows -> [status : OldStatuses, payment : OldPayments]]
           /\ \E kept \in SUBSET Lines : lines \in [kept -> rows]
    /\ linked \in BOOLEAN
    /\ retired \in IF linked THEN {Retired} ELSE {{}, Retired}
    /\ columns \in {{}, LateColumns}
    /\ obsolete \in BOOLEAN
    /\ codes = {}
    /\ present = (orders # NoRows \/ linked)
    /\ users \in {{}, {"admin"}}
    /\ limited = {}
    /\ built = FALSE
    /\ rebuilt = NoRows
    /\ foreignKeys = FALSE
    /\ stops = 0
    /\ old = [orders |-> orders, lines |-> lines]

-----------------------------------------------------------------------------
At(step) == pc = step
Go(step) == pc' = step /\ index' = 0
GoOn(step) == pc' = step /\ index' = index + 1

\* PRAGMA foreign_keys = ON, for the connection of this process.
Pragma ==
    /\ At("pragma")
    /\ Go("create")
    /\ foreignKeys' = TRUE
    /\ UNCHANGED <<tables, stops, old>>

\* CREATE TABLE IF NOT EXISTS, statement after statement; the model looks at
\* the one for purchase_orders, which has no column prq_id.
CreateTables ==
    /\ At("create")
    /\ Go("linked")
    /\ present' = TRUE
    /\ IF present
       THEN UNCHANGED <<orders, linked>>
       ELSE orders' = NoRows /\ linked' = FALSE
    /\ UNCHANGED <<built, rebuilt, lines, retired, columns, obsolete, codes, users,
                   limited, foreignKeys, stops, old>>

\* hasColumn(purchase_orders, prq_id)
Linked ==
    /\ At("linked")
    /\ Go(IF linked THEN "keysOff" ELSE "retire")
    /\ UNCHANGED <<tables, foreignKeys, stops, old>>

-----------------------------------------------------------------------------
(* rebuildPurchaseOrdersWithoutRequisitionLink                             *)

\* Mutant: the foreign keys stay on.
ForeignKeysStay ==
    /\ At("keysOff")
    /\ Go("build")
    /\ UNCHANGED <<tables, foreignKeys, stops, old>>

ForeignKeysOff ==
    /\ At("keysOff")
    /\ Go("build")
    /\ foreignKeys' = FALSE
    /\ UNCHANGED <<tables, stops, old>>

\* CREATE TABLE without IF NOT EXISTS: on a table that is there the start
\* fails, with the keys turned on again and the database closed.
BuildTable ==
    /\ At("build")
    /\ \/ /\ ~built
          /\ Go("copy")
          /\ built' = TRUE
       \/ /\ built
          /\ Go("stopped")
          /\ UNCHANGED built
    /\ UNCHANGED <<present, orders, linked, rebuilt, lines, retired, columns, obsolete, codes, users,
                   limited, foreignKeys, stops, old>>

\* Mutant: the copy takes the orders that are not closed.
CopyOpenOrders ==
    /\ At("copy")
    /\ Go("drop")
    /\ rebuilt' = [o \in {x \in DOMAIN orders : orders[x].status # "paid"} |-> orders[o]]
    /\ UNCHANGED <<present, orders, linked, built, lines, retired, columns, obsolete, codes, users,
                   limited, foreignKeys, stops, old>>

CopyOrders ==
    /\ At("copy")
    /\ Go("drop")
    /\ rebuilt' = orders
    /\ UNCHANGED <<present, orders, linked, built, lines, retired, columns, obsolete, codes, users,
                   limited, foreignKeys, stops, old>>

\* DROP TABLE deletes the rows first; with the keys on, the rows that point at
\* them go too.
DropOrders ==
    /\ At("drop")
    /\ Go("rename")
    /\ present' = FALSE
    /\ orders' = NoRows
    /\ linked' = FALSE
    /\ lines' = IF foreignKeys THEN NoRows ELSE lines
    /\ UNCHANGED <<built, rebuilt, retired, columns, obsolete, codes, users,
                   limited, foreignKeys, stops, old>>

RenameTable ==
    /\ At("rename")
    /\ Go("keysOn")
    /\ present' = TRUE
    /\ orders' = rebuilt
    /\ rebuilt' = NoRows
    /\ built' = FALSE
    /\ UNCHANGED <<linked, lines, retired, columns, obsolete, codes, users,
                   limited, foreignKeys, stops, old>>

ForeignKeysOn ==
    /\ At("keysOn")
    /\ Go("retire")
    /\ foreignKeys' = TRUE
    /\ UNCHANGED <<tables, stops, old>>

-----------------------------------------------------------------------------
(* The rest of the migration: lists of statements, each one idempotent.    *)

\* Mutant: DROP TABLE without IF EXISTS.
DropRetiredPresent ==
    /\ At("retire")
    /\ \/ /\ retired = {}
          /\ Go("stopped")
          /\ UNCHANGED retired
       \/ \E table \in retired :
             /\ retired' = retired \ {table}
             /\ IF retired' = {} THEN Go("columns") ELSE Go("retire")
    /\ UNCHANGED <<present, orders, linked, built, rebuilt, lines, columns, obsolete, codes, users,
                   limited, foreignKeys, stops, old>>

\* DROP TABLE IF EXISTS, one table after the other.
DropRetired ==
    /\ At("retire")
    /\ \/ /\ retired = {}
          /\ Go("columns")
          /\ UNCHANGED retired
       \/ /\ \E table \in retired : retired' = retired \ {table}
          /\ Go("retire")
    /\ UNCHANGED <<present, orders, linked, built, rebuilt, lines, columns, obsolete, codes, users,
                   limited, foreignKeys, stops, old>>

\* ensureColumn, one column after the other.
EnsureColumns ==
    /\ At("columns")
    /\ \/ /\ columns = LateColumns
          /\ Go("obsolete")
          /\ UNCHANGED columns
       \/ /\ \E c \in LateColumns \ columns : columns' = columns \union {c}
          /\ Go("columns")
    /\ UNCHANGED <<present, orders, linked, built, rebuilt, lines, retired, obsolete, codes, users,
                   limited, foreignKeys, stops, old>>

RenameStatusValue ==
    /\ At("obsolete")
    /\ Go("paid")
    /\ obsolete' = FALSE
    /\ UNCHANGED <<present, orders, linked, built, rebuilt, lines, retired, columns, codes, users,
                   limited, foreignKeys, stops, old>>

\* UPDATE purchase_orders SET column = value WHERE where = is
Updated(column, value, where, is) ==
    [o \in DOMAIN orders |-> IF orders[o][where] = is THEN [orders[o] EXCEPT ![column] = value]
                             ELSE orders[o]]

OrdersOnly ==
    UNCHANGED <<present, linked, built, rebuilt, lines, retired, columns, obsolete, codes, users,
                limited, foreignKeys, stops, old>>

\* Mutant: the tag is written for orders that are closed already.
BackfillClosed ==
    /\ At("paid")
    /\ Go("statuses")
    /\ orders' = Updated("payment", "paid", "status", "closed")
    /\ OrdersOnly

\* "paid" carried both meanings: the tag is written before the status goes.
BackfillPaid ==
    /\ At("paid")
    /\ Go("statuses")
    /\ orders' = Updated("payment", "paid", "status", "paid")
    /\ OrdersOnly

RenameStatuses ==
    /\ At("statuses")
    /\ LET rename == Renames[index + 1] IN
           orders' = Updated("status", rename[2], "status", rename[1])
    /\ IF index + 1 = Len(Renames) THEN Go("unpaid") ELSE GoOn("statuses")
    /\ OrdersOnly

DefaultUnpaid ==
    /\ At("unpaid")
    /\ Go("codes")
    /\ orders' = Updated("payment", "unpaid", "payment", "")
    /\ OrdersOnly

-----------------------------------------------------------------------------
(* seedDefaults                                                            *)

\* INSERT OR IGNORE, one code after the other.
SeedCodes ==
    /\ At("codes")
    /\ \/ /\ codes = Codes
          /\ Go("limits")
          /\ UNCHANGED codes
       \/ /\ \E c \in Codes \ codes : codes' = codes \union {c}
          /\ Go("codes")
    /\ UNCHANGED <<present, orders, linked, built, rebuilt, lines, retired, columns, obsolete,
                   users, limited, foreignKeys, stops, old>>

\* An admin without an approval limit gets one, at every start.
BackfillLimits ==
    /\ At("limits")
    /\ Go("count")
    /\ limited' = limited \union (users \intersect {"admin"})
    /\ UNCHANGED <<present, orders, linked, built, rebuilt, lines, retired, columns, obsolete,
                   codes, users, foreignKeys, stops, old>>

CountUsers ==
    /\ At("count")
    /\ Go(IF users = {} THEN "seed" ELSE "ready")
    /\ UNCHANGED <<tables, foreignKeys, stops, old>>

SeedUser ==
    /\ At("seed")
    /\ users' = users \union {SeedUsers[index + 1]}
    /\ limited' = limited \union ({SeedUsers[index + 1]} \intersect {"admin"})
    /\ IF index + 1 = Len(SeedUsers) THEN Go("ready") ELSE GoOn("seed")
    /\ UNCHANGED <<present, orders, linked, built, rebuilt, lines, retired, columns, obsolete, codes,
                   foreignKeys, stops, old>>

-----------------------------------------------------------------------------
\* The process stops between two statements; what is in the file stays.
Stop ==
    /\ pc \in Stops
    /\ stops < MaxStops
    /\ stops' = stops + 1
    /\ Go("stopped")
    /\ UNCHANGED <<tables, foreignKeys, old>>

\* Somebody starts it again.
Start ==
    /\ At("stopped")
    /\ Go("pragma")
    /\ foreignKeys' = FALSE
    /\ UNCHANGED <<tables, stops, old>>

\* The server serves: init has nothing more to do.
Serve == At("ready") /\ UNCHANGED openVars

InitStep ==
    \/ Pragma \/ CreateTables \/ Linked
    \/ ForeignKeysOff \/ BuildTable \/ CopyOrders \/ DropOrders \/ RenameTable \/ ForeignKeysOn
    \/ DropRetired \/ EnsureColumns \/ RenameStatusValue
    \/ BackfillPaid \/ RenameStatuses \/ DefaultUnpaid
    \/ SeedCodes \/ BackfillLimits \/ CountUsers \/ SeedUser
    \/ Start

OpenNext == InitStep \/ Stop \/ Serve

OpenSpec == OpenInit /\ [][OpenNext]_openVars

\* init goes on, and a server that stopped is started again.
OpenFairSpec == OpenSpec /\ WF_openVars(InitStep)

-----------------------------------------------------------------------------
(* Properties.                                                             *)

\* The row a current database has for an old one: the statuses of the old
\* lifecycle by their new names, and "paid" split into status and tag.
NewName(status) ==
    IF \E i \in DOMAIN Renames : Renames[i][1] = status
    THEN Renames[CHOOSE i \in DOMAIN Renames : Renames[i][1] = status][2]
    ELSE status

Migrated(row) ==
    [status |-> NewName(row.status),
     payment |-> IF row.status = "paid" THEN "paid"
                 ELSE IF row.payment = "" THEN "unpaid" ELSE row.payment]

Current ==
    /\ orders = [o \in DOMAIN old.orders |-> Migrated(old.orders[o])]
    /\ ~linked /\ ~obsolete
    /\ retired = {} /\ columns = LateColumns /\ codes = Codes
    /\ "admin" \in limited

\* However often a start is cut off, the server comes to serve, and then on a
\* database in which every old order has become what one uninterrupted start
\* makes of it, nothing retired is left and an admin can sign.
MigrationCompletes == <>[](At("ready") /\ Current)

\* Wherever a start is cut off, an old order is in one of the two tables.
OrdersSurvive ==
    \A o \in DOMAIN old.orders : o \in DOMAIN orders \/ o \in DOMAIN rebuilt

\* The lines of an order outlive the table their order is moved out of.
LinesSurvive == lines = old.lines

\* At no moment has the status "paid" gone while the tag is not yet there.
PaidStaysPaid ==
    \A o \in DOMAIN old.orders \intersect DOMAIN orders :
        old.orders[o].status = "paid" => "paid" \in {orders[o].status, orders[o].payment}

\* Once there are users there is an admin, a seeding that was cut off included.
SeededWithAdmin == users # {} => "admin" \in users

\* "copies purchase_orders into a table built from the current schema": once
\* the server serves, the orders of the old database are in purchase_orders.
OrdersCarriedOver == At("ready") => DOMAIN orders = DOMAIN old.orders
=============================================================================
