------------------------------ MODULE Records ------------------------------
(***************************************************************************)
(* The generic table operations of StockIt: a record is decoded from a     *)
(* JSON payload (REST and MCP), a form or a line of a CSV file, checked    *)
(* against the schema and the business rules, and written with one SQL     *)
(* statement.  Between two statements of a request any other request runs. *)
(*                                                                         *)
(* Of the tables of metadata.go six are kept, of their columns those that  *)
(* are required, that refer to another table, that carry a business rule   *)
(* or that name the creator.                                               *)
(***************************************************************************)
EXTENDS Integers, Sequences, FiniteSets

CONSTANTS
    Null,           \* no value: SQL NULL, JSON null, nil
    Blank,          \* the empty text, and a cell or an input left empty
    Bad,            \* a value that does not parse as what the column holds
    Texts, Numbers, \* other values clients send
    Users,          \* the users who send them
    RoleOf,         \* their roles
    Requests,       \* requests that may be in flight at once
    Calls,          \* what the clients may ask for
    Loaded,         \* the rows of the database that is opened
    MaxRequests,    \* bound on the requests
    MaxFaults       \* bound on the requests whose client goes away

-----------------------------------------------------------------------------
(* metadata.go and the schema statements of sqlite.go.                     *)

Column(kind, required, notNull, ref) ==
    [kind |-> kind, required |-> required, notNull |-> notNull, ref |-> ref]

RequiredText == Column("text", TRUE, TRUE, "")
RequiredInteger == Column("integer", TRUE, TRUE, "")
Ref(table) == Column("foreign", FALSE, FALSE, table)
ParentRef(table) == Column("foreign", FALSE, TRUE, table)
Creator == Column("foreign", FALSE, FALSE, "users")

Locations == [loc_name |-> RequiredText, usr_id |-> Creator]
Adjustments == [adj_doc_number |-> RequiredText, usr_id |-> Creator]
AdjustmentComponents == [adj_id |-> ParentRef("adjustments"), loc_id |-> Ref("locations")]
StockMoves == [stm_doc_number |-> RequiredText, usr_id |-> Creator,
               stm_src_loc_id |-> Ref("locations"), stm_dst_loc_id |-> Ref("locations"),
               adj_id |-> Ref("adjustments")]
FinancialObligations == [fob_label |-> RequiredText, fob_amount_minor |-> RequiredInteger,
                         usr_id |-> Creator]
BankTransactions == [btx_amount_minor |-> RequiredInteger, usr_id |-> Creator,
                     fob_id |-> Ref("financial_obligations")]

Schema == [locations |-> Locations, adjustments |-> Adjustments,
           adjustment_components |-> AdjustmentComponents, stock_moves |-> StockMoves,
           financial_obligations |-> FinancialObligations, bank_transactions |-> BankTransactions]

Tables == DOMAIN Schema
Columns(table) == DOMAIN Schema[table]
WriteRoles == {"admin", "user"}

\* The subtable, by its parent field; its rows go with their parent.
ParentField == [adjustment_components |-> "adj_id"]
Subtables == DOMAIN ParentField

-----------------------------------------------------------------------------
Ids == Nat \ {0}
Keys == Tables \X Ids

\* What a column holds when it holds a value.
Contents(table, column) ==
    IF Schema[table][column].kind = "text" THEN Texts \union {Blank}
    ELSE IF Schema[table][column].kind = "integer" THEN Numbers
    ELSE IF Schema[table][column].ref = "users" THEN Users
    ELSE Ids

IsRow(table, row) ==
    /\ DOMAIN row = Columns(table)
    /\ \A c \in Columns(table) : row[c] \in Contents(table, c) \union {Null}

\* A line of values a client sends, by column: of the columns it names each
\* holds a value, an explicit null, nothing, or what does not parse.
IsInput(table, line) ==
    /\ DOMAIN line \subseteq Columns(table) \union {"created_at"}
    /\ \A c \in DOMAIN line \intersect Columns(table) :
           line[c] \in Contents(table, c) \union {Null, Blank, Bad}

\* A call: "api" is REST or MCP, "csv" an import from any surface; parent is the
\* id of the selected parent of a form.
CallTypes == {<<"api", "create">>, <<"api", "update">>, <<"api", "delete">>,
              <<"form", "create">>, <<"form", "update">>, <<"csv", "import">>}

ASSUME RecordInputs ==
    /\ MaxRequests \in Nat /\ MaxFaults \in Nat
    /\ Numbers \subseteq Int
    /\ Null \notin Texts \union Numbers \union Users \union Nat \union {Blank, Bad}
    /\ Blank \notin Texts \union Numbers \union Users \union Nat
    /\ Bad \notin Texts \union Numbers \union Users \union Nat \union {Blank}
    /\ \A c \in Calls :
           /\ <<c.surface, c.op>> \in CallTypes
           /\ c.table \in Tables
           /\ c.id \in Nat /\ (c.op = "update" \/ c.op = "delete" => c.id \in Ids)
           /\ c.parent \in Nat /\ (c.parent # 0 => c.surface = "form" /\ c.table \in Subtables)
           /\ Len(c.lines) \in Nat /\ DOMAIN c.lines = 1 .. Len(c.lines)
           /\ \A i \in DOMAIN c.lines : IsInput(c.table, c.lines[i])
           /\ c.op = "create" \/ c.op = "update" => Len(c.lines) = 1
           /\ c.surface = "form" => DOMAIN c.lines[1] = Columns(c.table)
           /\ c.surface = "csv" => \A i \in DOMAIN c.lines : DOMAIN c.lines[i] \subseteq Columns(c.table)

VARIABLES
    rows,       \* the rows of all tables: a function from table and id
    lastId,     \* AUTOINCREMENT, table by table
    req,        \* the requests in flight, and the last answer of each
    story,      \* history: who made a row, and how
    started, faults     \* count requests and faults, for the bounds only

vars == <<rows, lastId, req, story, started, faults>>

Steps == {"idle", "parent", "write", "read", "answered"}
NoCall == [surface |-> "", op |-> "", table |-> "", id |-> 0, parent |-> 0, lines |-> <<>>]
NoUser == Null

\* What is remembered of a row: who made it, and whether it came from a file.
Story(creator, imported) == [creator |-> creator, imported |-> imported]
Stories == [creator : Users \union {NoUser}, imported : BOOLEAN]

\* A request: what it was asked, the line it is at, the ids of the rows it has
\* written, and the answer it gave.
Handler(pc, call, user, line, landed, answer) ==
    [pc |-> pc, call |-> call, user |-> user, line |-> line, landed |-> landed, answer |-> answer]
Idle == Handler("idle", NoCall, NoUser, 1, <<>>, "none")

TypeOK ==
    /\ DOMAIN rows \subseteq Keys
    /\ \A k \in DOMAIN rows : IsRow(k[1], rows[k])
    /\ lastId \in [Tables -> Nat]
    /\ req \in [Requests -> [pc : Steps, call : Calls \union {NoCall}, user : Users \union {NoUser},
                             line : Ids, landed : Seq(Ids), answer : {"none", "ok", "error"}]]
    /\ DOMAIN story = DOMAIN rows
    /\ \A k \in DOMAIN story : story[k] \in Stories
    /\ started \in Nat /\ faults \in Nat

\* A row that is there already: its creator is the one it names.
FirstStory(k) ==
    Story(IF "usr_id" \in Columns(k[1]) THEN Loaded[k]["usr_id"] ELSE NoUser, FALSE)

Init ==
    /\ rows = Loaded
    /\ lastId = [t \in Tables |-> Cardinality({k \in DOMAIN Loaded : k[1] = t})]
    /\ req = [r \in Requests |-> Idle]
    /\ story = [k \in DOMAIN Loaded |-> FirstStory(k)]
    /\ started = 0
    /\ faults = 0

-----------------------------------------------------------------------------

(* Decoding.                                                               *)

Kind(table, column) == Schema[table][column].kind
Required(table, column) == Schema[table][column].required

\* ParseFieldValue: an empty input is the empty text for a text column and no
\* value for any other; Null stands for the nil it returns.
ParseFieldValue(table, column, raw) ==
    IF raw = Blank /\ Kind(table, column) # "text" THEN Null ELSE raw

\* isAutomaticUserField: the creator is not for the client to give.
Automatic(column) == column = "usr_id"

\* parseAPIValues: an unknown column, a required one missing, null or empty, or
\* a value that does not parse.
ApiRefuses(table, raw, create) ==
    \/ \E c \in DOMAIN raw : c \notin Columns(table)
    \/ \E c \in {x \in Columns(table) : ~Automatic(x)} :
           \/ create /\ Required(table, c) /\ c \notin DOMAIN raw
           \/ /\ c \in DOMAIN raw
              /\ \/ raw[c] = Bad
                 \/ Required(table, c) /\ ParseFieldValue(table, c, raw[c]) \in {Null, Blank}

\* Mutant: the creator is taken from the payload when it is there.
ApiColumnsGiven(table, raw) ==
    {c \in DOMAIN raw : raw[c] = Null \/ ParseFieldValue(table, c, raw[c]) # Null}

\* An explicit null is a value of its own, an input that parses to nil is not.
ApiColumns(table, raw) ==
    {c \in DOMAIN raw : ~Automatic(c) /\ (raw[c] = Null \/ ParseFieldValue(table, c, raw[c]) # Null)}

\* parseFormValues: a form sends every column, and one left empty changes nothing.
FormRefuses(table, raw) ==
    \E c \in {x \in Columns(table) : ~Automatic(x)} :
        \/ raw[c] = Bad
        \/ Required(table, c) /\ ParseFieldValue(table, c, raw[c]) \in {Null, Blank}

FormColumns(table, raw) ==
    {c \in DOMAIN raw : ~Automatic(c) /\ ParseFieldValue(table, c, raw[c]) # Null}

\* ImportCSV: a cell has to parse, and no more; the file may name the creator.
CsvRefuses(raw) == \E c \in DOMAIN raw : raw[c] = Bad
CsvColumns(table, raw) == {c \in DOMAIN raw : ParseFieldValue(table, c, raw[c]) # Null}

Refuses(call, raw) ==
    CASE call.surface = "api" -> ApiRefuses(call.table, raw, call.op = "create")
      [] call.surface = "form" -> FormRefuses(call.table, raw)
      [] OTHER -> CsvRefuses(raw)

ColumnsSent(call, raw) ==
    CASE call.surface = "api" -> ApiColumns(call.table, raw)
      [] call.surface = "form" -> FormColumns(call.table, raw)
      [] OTHER -> CsvColumns(call.table, raw)

\* applyAutomaticUserID, on a creation only; a CSV import does not call it.
AutomaticColumns(call) == IF call.op = "create" THEN {"usr_id"} \intersect Columns(call.table) ELSE {}

\* The parent of a form goes over what the form sends.
ParentColumns(call) == IF call.parent # 0 THEN {ParentField[call.table]} ELSE {}

\* The values a line comes to, by column.
ValuesOf(call, user, raw) ==
    [c \in ColumnsSent(call, raw) \union AutomaticColumns(call) \union ParentColumns(call) |->
        IF c \in ParentColumns(call) THEN call.parent
        ELSE IF c \in AutomaticColumns(call) THEN user
        ELSE raw[c]]

-----------------------------------------------------------------------------
(* Rules and constraints.                                                  *)

Gives(values, column) == column \in DOMAIN values /\ values[column] # Null

\* Mutant: the locations of a stock move are not compared.
BreaksAmountRules(table, values) ==
    \/ /\ table = "financial_obligations"
       /\ Gives(values, "fob_amount_minor") /\ values["fob_amount_minor"] <= 0
    \/ /\ table = "bank_transactions"
       /\ Gives(values, "btx_amount_minor") /\ values["btx_amount_minor"] = 0

\* Mutant: the amount of an obligation may be zero.
BreaksOtherRules(table, values) ==
    \/ /\ table = "stock_moves"
       /\ Gives(values, "stm_src_loc_id") /\ Gives(values, "stm_dst_loc_id")
       /\ values["stm_src_loc_id"] = values["stm_dst_loc_id"]
    \/ /\ table = "bank_transactions"
       /\ Gives(values, "btx_amount_minor") /\ values["btx_amount_minor"] = 0

\* validateBusinessRules looks at the columns of this write only.
BreaksBusinessRules(table, values) ==
    \/ /\ table = "stock_moves"
       /\ Gives(values, "stm_src_loc_id") /\ Gives(values, "stm_dst_loc_id")
       /\ values["stm_src_loc_id"] = values["stm_dst_loc_id"]
    \/ /\ table = "financial_obligations"
       /\ Gives(values, "fob_amount_minor") /\ values["fob_amount_minor"] <= 0
    \/ /\ table = "bank_transactions"
       /\ Gives(values, "btx_amount_minor") /\ values["btx_amount_minor"] = 0

\* NOT NULL and FOREIGN KEY: what SQLite itself refuses.  Users are not deleted
\* here, Accounts has that.
Storable(table, row) ==
    \A c \in Columns(table) :
        LET column == Schema[table][c] IN
        /\ column.notNull => row[c] # Null
        /\ column.ref \in Tables /\ row[c] # Null => <<column.ref, row[c]>> \in DOMAIN rows

\* The rows that refer to a row, as the schema statements declare it.
Referrers(key) ==
    {k \in DOMAIN rows : \E c \in Columns(k[1]) :
        Schema[k[1]][c].ref = key[1] /\ rows[k][c] = key[2]}

\* Those of the subtable: ON DELETE CASCADE.
Children(key) ==
    {k \in DOMAIN rows :
        /\ k[1] \in Subtables
        /\ Schema[k[1]][ParentField[k[1]]].ref = key[1]
        /\ rows[k][ParentField[k[1]]] = key[2]}

-----------------------------------------------------------------------------
(* Statements of the store.                                                *)

NewRow(table, values) ==
    [c \in Columns(table) |-> IF c \in DOMAIN values THEN values[c] ELSE Null]

\* Mutant: an UPDATE that writes every column.
WholeRow(table, old, values) == NewRow(table, values)

\* UPDATE writes the columns that have a value and leaves the others alone.
ChangedRow(table, old, values) ==
    [c \in Columns(table) |-> IF c \in DOMAIN values THEN values[c] ELSE old[c]]

Put(key, row) == rows' = [k \in DOMAIN rows \union {key} |-> IF k = key THEN row ELSE rows[k]]

Tell(key, tale) == story' = [k \in DOMAIN rows \union {key} |-> IF k = key THEN tale ELSE story[k]]

Become(r, handler) == req' = [req EXCEPT ![r] = handler]
Answer(r, answer) ==
    Become(r, Handler("answered", req[r].call, req[r].user, req[r].line, req[r].landed, answer))
GoTo(r, pc) ==
    Become(r, Handler(pc, req[r].call, req[r].user, req[r].line, req[r].landed, "none"))

Line(r) == req[r].call.lines[req[r].line]
LineValues(r) == ValuesOf(req[r].call, req[r].user, Line(r))
Broken(r) == BreaksBusinessRules(req[r].call.table, LineValues(r))

-----------------------------------------------------------------------------
(* The handlers.                                                           *)

\* authorizeTable, resolveTableForRole, then what comes before the first
\* statement: of a form with a parent nothing, of an import the header.
Begin(r) ==
    /\ req[r].pc \in {"idle", "answered"}
    /\ started < MaxRequests
    /\ \E call \in Calls, u \in Users :
           LET Asked(pc, answer) == Become(r, Handler(pc, call, u, 1, <<>>, answer))
               refused == \/ RoleOf[u] \notin WriteRoles
                          \/ /\ call.op \in {"create", "update"} /\ call.parent = 0
                             /\ \/ Refuses(call, call.lines[1])
                                \/ BreaksBusinessRules(call.table, ValuesOf(call, u, call.lines[1]))
           IN \/ refused /\ Asked("answered", "error")
              \/ ~refused /\ call.parent # 0 /\ Asked("parent", "none")
              \/ ~refused /\ call.parent = 0 /\ call.op = "import" /\ call.lines = <<>>
                    /\ Asked("answered", "ok")
              \/ ~refused /\ call.parent = 0 /\ (call.op = "import" => call.lines # <<>>)
                    /\ Asked("write", "none")
    /\ started' = started + 1
    /\ UNCHANGED <<rows, lastId, story, faults>>

\* resolveParentContext reads the parent; parseFormValues and the rules follow.
ResolveParentContext(r) ==
    /\ req[r].pc = "parent"
    /\ LET call == req[r].call
           parent == <<Schema[call.table][ParentField[call.table]].ref, call.parent>>
       IN IF parent \in DOMAIN rows /\ ~Refuses(call, Line(r)) /\ ~Broken(r)
          THEN GoTo(r, "write")
          ELSE Answer(r, "error")
    /\ UNCHANGED <<rows, lastId, story, started, faults>>

\* The row an INSERT leaves, and what a request does with its id.
InsertRow(r, table, values) ==
    LET id == lastId[table] + 1
        tale == Story(req[r].user, req[r].call.surface = "csv")
    IN /\ Put(<<table, id>>, NewRow(table, values))
       /\ Tell(<<table, id>>, tale)
       /\ lastId' = [lastId EXCEPT ![table] = id]

Landed(r) == Append(req[r].landed, lastId[req[r].call.table] + 1)

\* apiCreateRecord and handleTableSave without an id; the API reads the row back.
Insert(r) ==
    /\ req[r].pc = "write" /\ req[r].call.op = "create"
    /\ LET call == req[r].call IN
       IF Storable(call.table, NewRow(call.table, LineValues(r)))
       THEN /\ InsertRow(r, call.table, LineValues(r))
            /\ IF call.surface = "api"
               THEN Become(r, Handler("read", call, req[r].user, 1, Landed(r), "none"))
               ELSE Become(r, Handler("answered", call, req[r].user, 1, Landed(r), "ok"))
       ELSE Answer(r, "error") /\ UNCHANGED <<rows, lastId, story>>
    /\ UNCHANGED <<started, faults>>

\* apiUpdateRecord and handleTableSave with an id.  Without columns Update is no
\* statement, and nobody looks whether the row is there; the API finds out.
Update(r) ==
    /\ req[r].pc = "write" /\ req[r].call.op = "update"
    /\ LET call == req[r].call
           key == <<call.table, call.id>>
           values == LineValues(r)
           row == ChangedRow(call.table, rows[key], values)
           Done(landed) ==
               IF call.surface = "api"
               THEN Become(r, Handler("read", call, req[r].user, 1, landed, "none"))
               ELSE Become(r, Handler("answered", call, req[r].user, 1, landed, "ok"))
       IN \/ /\ DOMAIN values = {}
             /\ Done(<<>>)
             /\ UNCHANGED <<rows, story>>
          \/ /\ DOMAIN values # {}
             /\ key \in DOMAIN rows /\ Storable(call.table, row)
             /\ Put(key, row)
             /\ UNCHANGED story
             /\ Done(<<call.id>>)
          \/ /\ DOMAIN values # {}
             /\ key \in DOMAIN rows => ~Storable(call.table, row)
             /\ Answer(r, "error")
             /\ UNCHANGED <<rows, story>>
    /\ UNCHANGED <<lastId, started, faults>>

\* Delete: rows of the subtable go along, any other row that refers to this one
\* forbids it.
Delete(r) ==
    /\ req[r].pc = "write" /\ req[r].call.op = "delete"
    /\ LET key == <<req[r].call.table, req[r].call.id>>
           kept == DOMAIN rows \ (Children(key) \union {key})
       IN IF key \in DOMAIN rows /\ Referrers(key) = Children(key)
          THEN /\ rows' = [k \in kept |-> rows[k]]
               /\ story' = [k \in kept |-> story[k]]
               /\ Answer(r, "ok")
          ELSE Answer(r, "error") /\ UNCHANGED <<rows, story>>
    /\ UNCHANGED <<lastId, started, faults>>

\* The answer of the API is the row as it is by then.
ReadBack(r) ==
    /\ req[r].pc = "read"
    /\ LET call == req[r].call
           id == IF call.op = "create" THEN req[r].landed[1] ELSE call.id
       IN Answer(r, IF <<call.table, id>> \in DOMAIN rows THEN "ok" ELSE "error")
    /\ UNCHANGED <<rows, lastId, story, started, faults>>

\* The line of a file that cannot be stored: a cell that does not parse, a rule
\* or a constraint.
CannotStore(r) ==
    \/ Refuses(req[r].call, Line(r)) \/ Broken(r)
    \/ ~Storable(req[r].call.table, NewRow(req[r].call.table, LineValues(r)))

\* After a line comes the next one or, at the end of the file, the answer.
NextLine(r, landed) ==
    LET call == req[r].call IN
    IF req[r].line = Len(call.lines)
    THEN Become(r, Handler("answered", call, req[r].user, req[r].line, landed, "ok"))
    ELSE Become(r, Handler("write", call, req[r].user, req[r].line + 1, landed, "none"))

\* Mutant: a line that cannot be stored is passed over.
ImportGoodLines(r) ==
    /\ req[r].pc = "write" /\ req[r].call.op = "import"
    /\ IF CannotStore(r)
       THEN NextLine(r, req[r].landed) /\ UNCHANGED <<rows, lastId, story>>
       ELSE InsertRow(r, req[r].call.table, LineValues(r)) /\ NextLine(r, Landed(r))
    /\ UNCHANGED <<started, faults>>

\* ImportCSV: line by line, without a transaction, up to one that cannot be
\* stored; the lines before it stay and the answer does not tell of them.
ImportLine(r) ==
    /\ req[r].pc = "write" /\ req[r].call.op = "import"
    /\ IF CannotStore(r)
       THEN Answer(r, "error") /\ UNCHANGED <<rows, lastId, story>>
       ELSE InsertRow(r, req[r].call.table, LineValues(r)) /\ NextLine(r, Landed(r))
    /\ UNCHANGED <<started, faults>>

\* The client goes away: the context of the request ends, the next statement
\* fails and nobody hears of it.
Abort(r) ==
    /\ req[r].pc \in {"parent", "write", "read"}
    /\ faults < MaxFaults
    /\ faults' = faults + 1
    /\ Become(r, Idle)
    /\ UNCHANGED <<rows, lastId, story, started>>

\* The server waits for the next request.
AwaitRequest ==
    /\ \A r \in Requests : req[r].pc \in {"idle", "answered"}
    /\ UNCHANGED vars

Next ==
    \/ \E r \in Requests :
          \/ Begin(r) \/ ResolveParentContext(r)
          \/ Insert(r) \/ Update(r) \/ Delete(r) \/ ReadBack(r) \/ ImportLine(r)
          \/ Abort(r)
    \/ AwaitRequest

Spec == Init /\ [][Next]_vars

-----------------------------------------------------------------------------
(* Properties.                                                             *)

\* The rules of validateBusinessRules, of a row instead of a write.
KeepsAmounts(table, row) ==
    /\ table = "financial_obligations" => row["fob_amount_minor"] > 0
    /\ table = "bank_transactions" => row["btx_amount_minor"] # 0

MovesSomewhere(table, row) ==
    table = "stock_moves" /\ row["stm_src_loc_id"] # Null =>
        row["stm_src_loc_id"] # row["stm_dst_loc_id"]

KeepsRules(table, row) == KeepsAmounts(table, row) /\ MovesSomewhere(table, row)

\* A required column has a value, and an empty one only in a row from a file.
KeepsRequired(table, row, tale) ==
    \A c \in Columns(table) : Required(table, c) => row[c] # Null /\ (row[c] = Blank => tale.imported)

\* The row names the user who made it.
KeepsCreator(table, row, tale) ==
    "usr_id" \in Columns(table) /\ ~tale.imported => row["usr_id"] = tale.creator

\* The database that is opened was written by the program.
ASSUME LoadedRows ==
    /\ DOMAIN Loaded \subseteq Keys /\ IsFiniteSet(DOMAIN Loaded)
    /\ \A k \in DOMAIN Loaded :
           /\ IsRow(k[1], Loaded[k])
           /\ KeepsAmounts(k[1], Loaded[k]) /\ KeepsRequired(k[1], Loaded[k], FirstStory(k))
           /\ k[2] <= Cardinality({j \in DOMAIN Loaded : j[1] = k[1]})

\* The rules "must hold regardless of whether the request came from REST, MCP,
\* the HTML form, or CSV import": no row breaks one, however many writes it took
\* to get there.  The code looks at one write at a time and breaks this: a change
\* that names one location of a stock move is not compared with the other one.
RowsKeepRules == \A k \in DOMAIN rows : KeepsRules(k[1], rows[k])

\* What is left of it: amounts need no second column, so no row comes to have
\* one that is excluded, nor to lack a required value, however many writes of
\* whatever surface it went through.
AmountsKeepRules ==
    \A k \in DOMAIN rows :
        KeepsAmounts(k[1], rows[k]) /\ KeepsRequired(k[1], rows[k], story[k])

\* And a row that is new breaks no rule at all, from whatever surface it came and
\* however long after the check it is written: a creation and a line of a file
\* have both locations to compare.
CreationsKeepRules ==
    [][\A k \in DOMAIN rows' \ DOMAIN rows : KeepsRules(k[1], rows'[k])]_vars

\* A row names the user who made it, for as long as it lives, unless it came
\* from a file: no payload, form or later change sets the creator, and a row
\* that was there before keeps its own.
AttributedToCreator == \A k \in DOMAIN rows : KeepsCreator(k[1], rows[k], story[k])

\* An import lands the lines of the file one by one from the first: all of them
\* when it is answered with a count, fewer when with an error.
ImportLandsPrefix ==
    \A r \in Requests : req[r].call.op = "import" =>
        LET landed == req[r].landed
            size == Len(req[r].call.lines)
        IN /\ req[r].pc = "write" => Len(landed) = req[r].line - 1
           /\ req[r].answer = "ok" => Len(landed) = size
           /\ req[r].answer = "error" => Len(landed) < size \/ size = 0
           /\ \A i, j \in DOMAIN landed : i < j => landed[i] < landed[j]

\* A change touches only what its client sent, so two clients that change
\* different columns of a row side by side both keep their change.
UntouchedColumnsStay ==
    [][\A k \in DOMAIN rows \intersect DOMAIN rows' :
           rows'[k] # rows[k] =>
               \E r \in Requests :
                   /\ req'[r] # req[r]
                   /\ <<req[r].call.table, req[r].call.id>> = k
                   /\ \A c \in Columns(k[1]) : rows'[k][c] # rows[k][c] =>
                          \/ c \in DOMAIN Line(r)
                          \/ req[r].call.parent # 0 /\ c = ParentField[k[1]]]_vars
=============================================================================
