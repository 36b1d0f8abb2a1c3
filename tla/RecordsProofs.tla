--------------------------- MODULE RecordsProofs ---------------------------
(***************************************************************************)
(* What is proved of Records: types, that the rows keep the rules and      *)
(* their creator, what an import leaves, and that a change touches what it *)
(* was sent, whatever the clients ask for and in whatever order.           *)
(***************************************************************************)
EXTENDS Records, FiniteSetTheorems, TLAPS

-----------------------------------------------------------------------------
(* The schema.                                                             *)

LEMMA OneSubtable ==
    Subtables = {"adjustment_components"} /\ ParentField["adjustment_components"] = "adj_id"
  BY DEF Subtables, ParentField

LEMMA SchemaTables ==
    /\ Tables = {"locations", "adjustments", "adjustment_components",
                  "stock_moves", "financial_obligations", "bank_transactions"}
    /\ Schema["locations"] = Locations
    /\ Schema["adjustments"] = Adjustments
    /\ Schema["adjustment_components"] = AdjustmentComponents
    /\ Schema["stock_moves"] = StockMoves
    /\ Schema["financial_obligations"] = FinancialObligations
    /\ Schema["bank_transactions"] = BankTransactions
  BY DEF Tables, Schema

\* What the columns are made of.
LEMMA ColumnForms ==
    /\ RequiredText.kind = "text" /\ RequiredText.notNull /\ RequiredText.required
    /\ RequiredInteger.kind = "integer" /\ RequiredInteger.notNull /\ RequiredInteger.required
    /\ ~Creator.required
    /\ \A t : ~Ref(t).required /\ ~ParentRef(t).required
  BY DEF Column, RequiredText, RequiredInteger, Ref, ParentRef, Creator

\* The columns of the tables.
LEMMA TableColumns ==
    /\ Columns("locations") = {"loc_name", "usr_id"}
    /\ Columns("adjustments") = {"adj_doc_number", "usr_id"}
    /\ Columns("adjustment_components") = {"adj_id", "loc_id"}
    /\ Columns("stock_moves") =
           {"stm_doc_number", "usr_id", "stm_src_loc_id", "stm_dst_loc_id", "adj_id"}
    /\ Columns("financial_obligations") = {"fob_label", "fob_amount_minor", "usr_id"}
    /\ Columns("bank_transactions") = {"btx_amount_minor", "usr_id", "fob_id"}
  BY SchemaTables DEF Columns, Locations, Adjustments, AdjustmentComponents, StockMoves,
     FinancialObligations, BankTransactions

\* A required column is NOT NULL, and neither the creator nor a parent field.
LEMMA RequiredColumns ==
    ASSUME NEW t \in Tables, NEW c \in Columns(t), Required(t, c)
    PROVE  Schema[t][c].notNull /\ c # "usr_id" /\ c # "adj_id"
  <1> USE DEF Required
  <1>1. CASE t = "locations"
    <2>1. Schema[t]["loc_name"] = RequiredText /\ Schema[t]["usr_id"] = Creator
      BY <1>1, SchemaTables DEF Locations
    <2>2. QED
      BY <1>1, <2>1, TableColumns, ColumnForms
  <1>2. CASE t = "adjustments"
    <2>1. Schema[t]["adj_doc_number"] = RequiredText /\ Schema[t]["usr_id"] = Creator
      BY <1>2, SchemaTables DEF Adjustments
    <2>2. QED
      BY <1>2, <2>1, TableColumns, ColumnForms
  <1>3. CASE t = "adjustment_components"
    <2>1. Schema[t]["adj_id"] = ParentRef("adjustments") /\ Schema[t]["loc_id"] = Ref("locations")
      BY <1>3, SchemaTables DEF AdjustmentComponents
    <2>2. QED
      BY <1>3, <2>1, TableColumns, ColumnForms
  <1>4. CASE t = "stock_moves"
    <2>1. /\ Schema[t]["stm_doc_number"] = RequiredText /\ Schema[t]["usr_id"] = Creator
          /\ Schema[t]["stm_src_loc_id"] = Ref("locations")
          /\ Schema[t]["stm_dst_loc_id"] = Ref("locations")
          /\ Schema[t]["adj_id"] = Ref("adjustments")
      BY <1>4, SchemaTables DEF StockMoves
    <2>2. QED
      BY <1>4, <2>1, TableColumns, ColumnForms
  <1>5. CASE t = "financial_obligations"
    <2>1. /\ Schema[t]["fob_label"] = RequiredText /\ Schema[t]["usr_id"] = Creator
          /\ Schema[t]["fob_amount_minor"] = RequiredInteger
      BY <1>5, SchemaTables DEF FinancialObligations
    <2>2. QED
      BY <1>5, <2>1, TableColumns, ColumnForms
  <1>6. CASE t = "bank_transactions"
    <2>1. /\ Schema[t]["btx_amount_minor"] = RequiredInteger /\ Schema[t]["usr_id"] = Creator
          /\ Schema[t]["fob_id"] = Ref("financial_obligations")
      BY <1>6, SchemaTables DEF BankTransactions
    <2>2. QED
      BY <1>6, <2>1, TableColumns, ColumnForms
  <1>7. QED
    BY <1>1, <1>2, <1>3, <1>4, <1>5, <1>6, SchemaTables

\* The creator is a user.
LEMMA CreatorColumn ==
    ASSUME NEW t \in Tables, "usr_id" \in Columns(t)
    PROVE  Schema[t]["usr_id"].kind = "foreign" /\ Schema[t]["usr_id"].ref = "users"
  <1>1. Schema[t]["usr_id"] = Creator
    <2> USE DEF Columns
    <2>1. CASE t = "locations"
      BY <2>1, SchemaTables DEF Locations
    <2>2. CASE t = "adjustments"
      BY <2>2, SchemaTables DEF Adjustments
    <2>3. CASE t = "adjustment_components"
      BY <2>3, SchemaTables DEF AdjustmentComponents
    <2>4. CASE t = "stock_moves"
      BY <2>4, SchemaTables DEF StockMoves
    <2>5. CASE t = "financial_obligations"
      BY <2>5, SchemaTables DEF FinancialObligations
    <2>6. CASE t = "bank_transactions"
      BY <2>6, SchemaTables DEF BankTransactions
    <2>7. QED
      BY <2>1, <2>2, <2>3, <2>4, <2>5, <2>6, SchemaTables
  <1>2. QED
    BY <1>1 DEF Creator, Column

\* The parent field refers to a row of the parent.
LEMMA ParentColumn ==
    LET column == Schema["adjustment_components"]["adj_id"] IN
    /\ "adj_id" \in Columns("adjustment_components")
    /\ column.kind = "foreign" /\ column.ref = "adjustments"
  BY SchemaTables DEF Columns, AdjustmentComponents, ParentRef, Column

\* The columns of the business rules.
LEMMA RuleColumns ==
    /\ "fob_amount_minor" \in Columns("financial_obligations")
    /\ Schema["financial_obligations"]["fob_amount_minor"] = RequiredInteger
    /\ "btx_amount_minor" \in Columns("bank_transactions")
    /\ Schema["bank_transactions"]["btx_amount_minor"] = RequiredInteger
    /\ {"stm_src_loc_id", "stm_dst_loc_id"} \subseteq Columns("stock_moves")
  BY SchemaTables DEF Columns, FinancialObligations, BankTransactions, StockMoves

-----------------------------------------------------------------------------
(* What comes of a line of values.                                         *)

\* What the configuration says of a call and its lines.
LEMMA CallFacts ==
    ASSUME NEW call \in Calls
    PROVE  /\ <<call.surface, call.op>> \in CallTypes
           /\ call.table \in Tables
           /\ call.id \in Nat /\ (call.op = "update" \/ call.op = "delete" => call.id \in Ids)
           /\ call.parent \in Nat
           /\ call.parent # 0 => call.surface = "form" /\ call.table = "adjustment_components"
           /\ Len(call.lines) \in Nat /\ DOMAIN call.lines = 1 .. Len(call.lines)
           /\ call.op \in {"create", "update"} => Len(call.lines) = 1
           /\ call.surface = "form" => DOMAIN call.lines[1] = Columns(call.table)
           /\ \A i \in DOMAIN call.lines :
                  /\ IsInput(call.table, call.lines[i])
                  /\ call.surface = "csv" => DOMAIN call.lines[i] \subseteq Columns(call.table)
  BY RecordInputs, OneSubtable

\* A file that is not empty has a first line.
LEMMA LinesThere ==
    ASSUME NEW call \in Calls, call.lines # <<>>
    PROVE  1 \in DOMAIN call.lines
  <1>1. Len(call.lines) \in Nat /\ DOMAIN call.lines = 1 .. Len(call.lines)
    BY CallFacts
  <1>2. QED
    BY <1>1

\* The three values that stand for none differ.
LEMMA NoValues == Null # Blank /\ Null # Bad /\ Blank # Bad
  BY RecordInputs

\* A text column holds a text or the empty one.
LEMMA TextContents ==
    ASSUME NEW t, NEW c, Schema[t][c].kind = "text"
    PROVE  Contents(t, c) = Texts \union {Blank}
  BY DEF Contents

\* What a cell that is there and parses comes to is a value of its column, or null.
LEMMA ParsedFits ==
    ASSUME NEW t \in Tables, NEW c \in Columns(t), NEW v,
           v \in Contents(t, c) \union {Null, Blank, Bad},
           v # Bad, v = Null \/ ParseFieldValue(t, c, v) # Null
    PROVE  v \in Contents(t, c) \union {Null}
  <1>1. CASE v = Blank
    <2>1. Kind(t, c) = "text"
      BY <1>1, NoValues DEF ParseFieldValue
    <2>2. Contents(t, c) = Texts \union {Blank}
      BY <2>1, TextContents DEF Kind
    <2>3. QED
      BY <1>1, <2>2
  <1>2. CASE v # Blank
    BY <1>2
  <1>3. QED
    BY <1>1, <1>2

\* A line the handler takes: what is sent fits its column, and but for a file
\* neither names the creator nor empties a required column.
LEMMA SentFits ==
    ASSUME NEW call \in Calls, NEW raw, IsInput(call.table, raw),
           call.surface = "form" => DOMAIN raw = Columns(call.table),
           call.surface = "csv" => DOMAIN raw \subseteq Columns(call.table),
           ~Refuses(call, raw)
    PROVE  LET t == call.table
               sent == ColumnsSent(call, raw)
           IN /\ sent \subseteq Columns(t)
              /\ \A c \in sent : raw[c] \in Contents(t, c) \union {Null}
              /\ call.surface # "csv" =>
                    /\ "usr_id" \notin sent
                    /\ \A c \in sent : Required(t, c) => raw[c] # Null /\ raw[c] # Blank
  <1> DEFINE t == call.table
             sent == ColumnsSent(call, raw)
  <1>0. t \in Tables /\ <<call.surface, call.op>> \in CallTypes
    BY CallFacts
  <1>1. \A c \in DOMAIN raw \intersect Columns(t) : raw[c] \in Contents(t, c) \union {Null, Blank, Bad}
    BY DEF IsInput
  <1>2. CASE call.surface = "api"
    <2>1. /\ DOMAIN raw \subseteq Columns(t)
          /\ \A c \in Columns(t) : ~Automatic(c) /\ c \in DOMAIN raw =>
                /\ raw[c] # Bad
                /\ Required(t, c) => ParseFieldValue(t, c, raw[c]) # Null /\ ParseFieldValue(t, c, raw[c]) # Blank
      BY <1>2 DEF Refuses, ApiRefuses
    <2>2. sent = {c \in DOMAIN raw : ~Automatic(c) /\ (raw[c] = Null \/ ParseFieldValue(t, c, raw[c]) # Null)}
      BY <1>2 DEF ColumnsSent, ApiColumns
    <2>3. sent \subseteq Columns(t) /\ "usr_id" \notin sent
      BY <2>1, <2>2 DEF Automatic
    <2>4. ASSUME NEW c \in sent PROVE raw[c] \in Contents(t, c) \union {Null}
      BY <1>0, <1>1, <2>1, <2>2, <2>3, ParsedFits
    <2>5. ASSUME NEW c \in sent, Required(t, c) PROVE raw[c] # Null /\ raw[c] # Blank
      BY <2>1, <2>2, <2>3, <2>5 DEF ParseFieldValue
    <2>6. QED
      BY <2>3, <2>4, <2>5
  <1>3. CASE call.surface = "form"
    <2>1. /\ DOMAIN raw = Columns(t)
          /\ \A c \in Columns(t) : ~Automatic(c) =>
                /\ raw[c] # Bad
                /\ Required(t, c) => ParseFieldValue(t, c, raw[c]) # Null /\ ParseFieldValue(t, c, raw[c]) # Blank
      BY <1>3 DEF Refuses, FormRefuses
    <2>2. sent = {c \in DOMAIN raw : ~Automatic(c) /\ ParseFieldValue(t, c, raw[c]) # Null}
      BY <1>3 DEF ColumnsSent, FormColumns
    <2>3. sent \subseteq Columns(t) /\ "usr_id" \notin sent
      BY <2>1, <2>2 DEF Automatic
    <2>4. ASSUME NEW c \in sent PROVE raw[c] \in Contents(t, c) \union {Null}
      BY <1>0, <1>1, <2>1, <2>2, <2>3, ParsedFits
    <2>5. ASSUME NEW c \in sent, Required(t, c) PROVE raw[c] # Null /\ raw[c] # Blank
      BY <2>1, <2>2, <2>3, <2>5 DEF ParseFieldValue
    <2>6. QED
      BY <2>3, <2>4, <2>5
  <1>4. CASE call.surface = "csv"
    <2>1. DOMAIN raw \subseteq Columns(t) /\ \A c \in DOMAIN raw : raw[c] # Bad
      BY <1>4 DEF Refuses, CsvRefuses
    <2>2. sent = {c \in DOMAIN raw : ParseFieldValue(t, c, raw[c]) # Null}
      BY <1>4 DEF ColumnsSent, CsvColumns
    <2>3. sent \subseteq Columns(t)
      BY <2>1, <2>2
    <2>4. ASSUME NEW c \in sent PROVE raw[c] \in Contents(t, c) \union {Null}
      BY <1>0, <1>1, <2>1, <2>2, <2>3, ParsedFits
    <2>5. QED
      BY <1>4, <2>3, <2>4
  <1>5. QED
    BY <1>0, <1>2, <1>3, <1>4 DEF CallTypes

\* So are the values it comes to; a creation names its user as the creator, a
\* change names none.
Fits(call, u, values) ==
    /\ DOMAIN values \subseteq Columns(call.table)
    /\ \A c \in DOMAIN values : values[c] \in Contents(call.table, c) \union {Null}
    /\ call.surface # "csv" =>
           \A c \in DOMAIN values : Required(call.table, c) => values[c] # Null /\ values[c] # Blank
    /\ call.op = "create" /\ "usr_id" \in Columns(call.table) =>
           "usr_id" \in DOMAIN values /\ values["usr_id"] = u
    /\ call.op = "update" => "usr_id" \notin DOMAIN values

LEMMA ValuesFit ==
    ASSUME NEW call \in Calls, NEW u \in Users, NEW i \in DOMAIN call.lines,
           ~Refuses(call, call.lines[i]), call.op # "delete"
    PROVE  Fits(call, u, ValuesOf(call, u, call.lines[i]))
  <1> DEFINE t == call.table
             raw == call.lines[i]
             sent == ColumnsSent(call, raw)
             auto == AutomaticColumns(call)
             par == ParentColumns(call)
             values == ValuesOf(call, u, raw)
  <1>1. /\ t \in Tables /\ <<call.surface, call.op>> \in CallTypes /\ call.parent \in Nat
        /\ IsInput(t, raw)
        /\ call.surface = "csv" => DOMAIN raw \subseteq Columns(t)
        /\ call.parent # 0 => call.surface = "form" /\ t = "adjustment_components"
    BY CallFacts
  <1>2. call.surface = "form" => DOMAIN raw = Columns(t)
    <2>1. SUFFICES ASSUME call.surface = "form" PROVE i = 1 /\ DOMAIN call.lines[1] = Columns(t)
      OBVIOUS
    <2>2. call.op \in {"create", "update"}
      BY <1>1, <2>1 DEF CallTypes
    <2>3. Len(call.lines) = 1 /\ DOMAIN call.lines = 1 .. Len(call.lines)
      BY <2>2, CallFacts
    <2>4. i = 1
      BY <2>3
    <2>5. DOMAIN call.lines[1] = Columns(t)
      BY <2>1, CallFacts
    <2>6. QED
      BY <2>4, <2>5
  <1>3. /\ sent \subseteq Columns(t)
        /\ \A c \in sent : raw[c] \in Contents(t, c) \union {Null}
        /\ call.surface # "csv" =>
              /\ "usr_id" \notin sent
              /\ \A c \in sent : Required(t, c) => raw[c] # Null /\ raw[c] # Blank
    BY <1>1, <1>2, SentFits
  <1>4. /\ auto = IF call.op = "create" THEN {"usr_id"} \intersect Columns(t) ELSE {}
        /\ par = IF call.parent # 0 THEN {"adj_id"} ELSE {}
    BY <1>1, OneSubtable DEF AutomaticColumns, ParentColumns
  <1>5. DOMAIN values = sent \union auto \union par
    BY DEF ValuesOf
  <1>6. \A c \in DOMAIN values :
            values[c] = IF c \in par THEN call.parent ELSE IF c \in auto THEN u ELSE raw[c]
    BY DEF ValuesOf
  <1> HIDE DEF values, sent, auto, par
  <1>7. par \subseteq Columns(t) /\ (par # {} => Contents(t, "adj_id") = Ids /\ call.parent \in Ids)
    BY <1>1, <1>4, ParentColumn DEF Contents, Ids, Tables
  <1>8. auto # {} => Contents(t, "usr_id") = Users
    BY <1>1, <1>4, CreatorColumn DEF Contents
  <1>9. DOMAIN values \subseteq Columns(t)
    BY <1>3, <1>4, <1>5, <1>7
  <1>10. ASSUME NEW c \in DOMAIN values PROVE values[c] \in Contents(t, c) \union {Null}
    BY <1>3, <1>4, <1>5, <1>6, <1>7, <1>8
  <1>11. ASSUME call.surface # "csv", NEW c \in DOMAIN values, Required(t, c)
         PROVE  values[c] # Null /\ values[c] # Blank
    <2>1. c # "usr_id" /\ c # "adj_id"
      BY <1>1, <1>9, <1>11, RequiredColumns
    <2>2. QED
      BY <1>3, <1>4, <1>5, <1>6, <1>11, <2>1
  <1>12. call.op = "create" /\ "usr_id" \in Columns(t) => "usr_id" \in DOMAIN values /\ values["usr_id"] = u
    BY <1>4, <1>5, <1>6
  <1>13. call.op = "update" => "usr_id" \notin DOMAIN values
    BY <1>1, <1>3, <1>4, <1>5 DEF CallTypes
  <1>14. QED
    <2>1. Fits(call, u, values)
      BY <1>9, <1>10, <1>11, <1>12, <1>13 DEF Fits
    <2>2. QED
      BY <2>1 DEF values

-----------------------------------------------------------------------------
(* What comes of a row.                                                    *)

\* An inserted row is a row.
LEMMA NewRowIsRow ==
    ASSUME NEW t \in Tables, NEW values,
           \A c \in DOMAIN values : values[c] \in Contents(t, c) \union {Null}
    PROVE  IsRow(t, NewRow(t, values))
  BY DEF IsRow, NewRow

\* So is a row that is changed.
LEMMA ChangedRowIsRow ==
    ASSUME NEW t \in Tables, NEW values, NEW old, IsRow(t, old),
           \A c \in DOMAIN values : values[c] \in Contents(t, c) \union {Null}
    PROVE  IsRow(t, ChangedRow(t, old, values))
  BY DEF IsRow, ChangedRow

\* What NOT NULL sees to.
LEMMA StoredRequired ==
    ASSUME NEW t \in Tables, NEW row, Storable(t, row), NEW c \in Columns(t), Required(t, c)
    PROVE  row[c] # Null
  BY RequiredColumns DEF Storable

\* The amounts of a row that may be stored are numbers.
LEMMA AmountsAreNumbers ==
    ASSUME NEW t \in Tables, NEW row, IsRow(t, row), Storable(t, row)
    PROVE  /\ t = "financial_obligations" => row["fob_amount_minor"] \in Int
           /\ t = "bank_transactions" => row["btx_amount_minor"] \in Int
  <1>1. CASE t = "financial_obligations"
    <2>1. Required(t, "fob_amount_minor") /\ "fob_amount_minor" \in Columns(t)
      BY <1>1, RuleColumns, ColumnForms DEF Required
    <2>2. row["fob_amount_minor"] # Null
      BY <2>1, StoredRequired
    <2>3. Contents(t, "fob_amount_minor") = Numbers
      BY <1>1, RuleColumns, ColumnForms DEF Contents
    <2>4. row["fob_amount_minor"] \in Numbers
      BY <2>1, <2>2, <2>3 DEF IsRow
    <2>5. QED
      BY <1>1, <2>4, RecordInputs
  <1>2. CASE t = "bank_transactions"
    <2>1. Required(t, "btx_amount_minor") /\ "btx_amount_minor" \in Columns(t)
      BY <1>2, RuleColumns, ColumnForms DEF Required
    <2>2. row["btx_amount_minor"] # Null
      BY <2>1, StoredRequired
    <2>3. Contents(t, "btx_amount_minor") = Numbers
      BY <1>2, RuleColumns, ColumnForms DEF Contents
    <2>4. row["btx_amount_minor"] \in Numbers
      BY <2>1, <2>2, <2>3 DEF IsRow
    <2>5. QED
      BY <1>2, <2>4, RecordInputs
  <1>3. QED
    BY <1>1, <1>2

\* A row inserted by the rules keeps them.
LEMMA NewRowKeepsRules ==
    ASSUME NEW t \in Tables, NEW values,
           IsRow(t, NewRow(t, values)), Storable(t, NewRow(t, values)),
           ~BreaksBusinessRules(t, values)
    PROVE  KeepsRules(t, NewRow(t, values))
  <1> DEFINE row == NewRow(t, values)
  <1>1. \A c \in Columns(t) : row[c] = IF c \in DOMAIN values THEN values[c] ELSE Null
    BY DEF NewRow
  <1>2. CASE t = "financial_obligations"
    <2>1. row["fob_amount_minor"] \in Int /\ row["fob_amount_minor"] # Null
      BY <1>2, AmountsAreNumbers, StoredRequired, RuleColumns, ColumnForms DEF Required
    <2>2. Gives(values, "fob_amount_minor") /\ row["fob_amount_minor"] = values["fob_amount_minor"]
      BY <1>1, <1>2, <2>1, RuleColumns DEF Gives
    <2>3. ~(values["fob_amount_minor"] <= 0)
      BY <1>2, <2>2 DEF BreaksBusinessRules
    <2>4. row["fob_amount_minor"] > 0
      BY <2>1, <2>2, <2>3
    <2>5. QED
      BY <1>2, <2>4 DEF KeepsRules, KeepsAmounts, MovesSomewhere
  <1>3. CASE t = "bank_transactions"
    <2>1. row["btx_amount_minor"] # Null
      BY <1>3, StoredRequired, RuleColumns, ColumnForms DEF Required
    <2>2. Gives(values, "btx_amount_minor") /\ row["btx_amount_minor"] = values["btx_amount_minor"]
      BY <1>1, <1>3, <2>1, RuleColumns DEF Gives
    <2>3. values["btx_amount_minor"] # 0
      BY <1>3, <2>2 DEF BreaksBusinessRules
    <2>4. QED
      BY <1>3, <2>2, <2>3 DEF KeepsRules, KeepsAmounts, MovesSomewhere
  <1>4. CASE t = "stock_moves"
    <2>1. Gives(values, "stm_src_loc_id") /\ Gives(values, "stm_dst_loc_id") =>
              values["stm_src_loc_id"] # values["stm_dst_loc_id"]
      BY <1>4 DEF BreaksBusinessRules
    <2>2. row["stm_src_loc_id"] = Null \/ row["stm_src_loc_id"] # row["stm_dst_loc_id"]
      BY <1>1, <1>4, <2>1, RuleColumns DEF Gives
    <2>3. QED
      BY <1>4, <2>2 DEF KeepsRules, KeepsAmounts, MovesSomewhere
  <1>5. QED
    BY <1>2, <1>3, <1>4 DEF KeepsRules, KeepsAmounts, MovesSomewhere

\* One that is changed by them keeps those of its amount, when it kept them before.
LEMMA ChangedRowKeepsAmounts ==
    ASSUME NEW t \in Tables, NEW values, NEW old,
           KeepsAmounts(t, old),
           IsRow(t, ChangedRow(t, old, values)), Storable(t, ChangedRow(t, old, values)),
           ~BreaksBusinessRules(t, values)
    PROVE  KeepsAmounts(t, ChangedRow(t, old, values))
  <1> DEFINE row == ChangedRow(t, old, values)
  <1>1. \A c \in Columns(t) : row[c] = IF c \in DOMAIN values THEN values[c] ELSE old[c]
    BY DEF ChangedRow
  <1>2. CASE t = "financial_obligations"
    <2>1. row["fob_amount_minor"] \in Int /\ row["fob_amount_minor"] # Null
      BY <1>2, AmountsAreNumbers, StoredRequired, RuleColumns, ColumnForms DEF Required
    <2>2. CASE "fob_amount_minor" \in DOMAIN values
      <3>1. Gives(values, "fob_amount_minor") /\ row["fob_amount_minor"] = values["fob_amount_minor"]
        BY <1>1, <1>2, <2>1, <2>2, RuleColumns DEF Gives
      <3>2. ~(values["fob_amount_minor"] <= 0)
        BY <1>2, <3>1 DEF BreaksBusinessRules
      <3>3. row["fob_amount_minor"] > 0
        BY <2>1, <3>1, <3>2
      <3>4. QED
        BY <1>2, <3>3 DEF KeepsAmounts
    <2>3. CASE "fob_amount_minor" \notin DOMAIN values
      <3>1. row["fob_amount_minor"] = old["fob_amount_minor"]
        BY <1>1, <1>2, <2>3, RuleColumns
      <3>2. QED
        BY <1>2, <3>1 DEF KeepsAmounts
    <2>4. QED
      BY <2>2, <2>3
  <1>3. CASE t = "bank_transactions"
    <2>1. row["btx_amount_minor"] # Null
      BY <1>3, StoredRequired, RuleColumns, ColumnForms DEF Required
    <2>2. CASE "btx_amount_minor" \in DOMAIN values
      <3>1. Gives(values, "btx_amount_minor") /\ row["btx_amount_minor"] = values["btx_amount_minor"]
        BY <1>1, <1>3, <2>1, <2>2, RuleColumns DEF Gives
      <3>2. values["btx_amount_minor"] # 0
        BY <1>3, <3>1 DEF BreaksBusinessRules
      <3>3. QED
        BY <1>3, <3>1, <3>2 DEF KeepsAmounts
    <2>3. CASE "btx_amount_minor" \notin DOMAIN values
      <3>1. row["btx_amount_minor"] = old["btx_amount_minor"]
        BY SMTT(30), <1>1, <1>3, <2>3, RuleColumns
      <3>2. QED
        BY <1>3, <3>1 DEF KeepsAmounts
    <2>4. QED
      BY <2>2, <2>3
  <1>4. QED
    BY <1>2, <1>3 DEF KeepsAmounts

-----------------------------------------------------------------------------
(* The inductive invariant.                                                *)

\* The rows and what is told of them.
RowsOK ==
    /\ DOMAIN rows \subseteq Keys
    /\ DOMAIN story = DOMAIN rows
    /\ \A k \in DOMAIN rows :
           /\ IsRow(k[1], rows[k])
           /\ story[k] \in Stories
           /\ KeepsAmounts(k[1], rows[k])
           /\ KeepsRequired(k[1], rows[k], story[k])
           /\ KeepsCreator(k[1], rows[k], story[k])

Handlers == [pc : Steps, call : Calls \union {NoCall}, user : Users \union {NoUser},
             line : Ids, landed : Seq(Ids), answer : {"none", "ok", "error"}]

\* A line that went through the handler's tests.
Passed(call, user, raw) ==
    ~Refuses(call, raw) /\ ~BreaksBusinessRules(call.table, ValuesOf(call, user, raw))

\* What is known of a request that is being worked on.  Only the tests of a file
\* and of a form with a parent are still to come.
RequestOK(h) ==
    h.pc \in {"parent", "write", "read"} =>
        /\ h.call \in Calls /\ h.user \in Users
        /\ h.pc # "read" /\ h.call.op # "delete" => h.line \in DOMAIN h.call.lines
        /\ h.pc = "parent" => h.call.op \in {"create", "update"} /\ h.call.parent # 0
        /\ h.pc = "read" => h.call.op # "import"
        /\ h.pc = "write" /\ h.call.op \in {"create", "update"} =>
               h.line = 1 /\ Passed(h.call, h.user, h.call.lines[1])

RequestsOK ==
    req \in [Requests -> Handlers] /\ \A r \in Requests : RequestOK(req[r])

CountsOK == lastId \in [Tables -> Nat] /\ started \in Nat /\ faults \in Nat

IInv == RowsOK /\ RequestsOK /\ CountsOK

\* A request that moves on.
LEMMA BecomeOK ==
    ASSUME RequestsOK, NEW r \in Requests, NEW h \in Handlers, RequestOK(h), Become(r, h)
    PROVE  RequestsOK'
  <1>1. req' = [req EXCEPT ![r] = h] /\ req \in [Requests -> Handlers]
    BY DEF Become, RequestsOK
  <1>2. req' \in [Requests -> Handlers]
    BY <1>1
  <1>3. \A q \in Requests : RequestOK(req[q])
    BY DEF RequestsOK
  <1>4. ASSUME NEW q \in Requests PROVE RequestOK(req'[q])
    BY <1>1, <1>3
  <1>5. QED
    BY ZenonT(30), <1>2, <1>4 DEF RequestsOK, RequestOK, Passed, Refuses, BreaksBusinessRules, ValuesOf

\* An answered request.
LEMMA AnswerOK ==
    ASSUME RequestsOK, NEW r \in Requests, NEW a \in {"ok", "error"}, Answer(r, a)
    PROVE  RequestsOK'
  <1> DEFINE h == Handler("answered", req[r].call, req[r].user, req[r].line, req[r].landed, a)
  <1>1. req[r] \in Handlers
    BY DEF RequestsOK
  <1>2. h \in Handlers /\ h.pc = "answered"
    BY <1>1 DEF Handlers, Handler, Steps
  <1>3. RequestOK(h)
    BY <1>2 DEF RequestOK
  <1>4. Become(r, h)
    BY DEF Answer
  <1>5. QED
    BY <1>2, <1>3, <1>4, BecomeOK

\* A row that is put in its place, with what is told of it.
LEMMA PutOK ==
    ASSUME RowsOK, NEW key \in Keys, NEW row, NEW tale \in Stories,
           IsRow(key[1], row), KeepsAmounts(key[1], row),
           KeepsRequired(key[1], row, tale), KeepsCreator(key[1], row, tale),
           Put(key, row), DOMAIN story' = DOMAIN rows \union {key},
           \A k \in DOMAIN story' : story'[k] = IF k = key THEN tale ELSE story[k]
    PROVE  RowsOK'
  <1>1. /\ DOMAIN rows' = DOMAIN rows \union {key}
        /\ \A k \in DOMAIN rows' : rows'[k] = IF k = key THEN row ELSE rows[k]
    BY DEF Put
  <1>2. /\ DOMAIN rows' \subseteq Keys
        /\ DOMAIN story' = DOMAIN rows'
    BY <1>1 DEF RowsOK
  <1>3. ASSUME NEW k \in DOMAIN rows'
        PROVE  /\ IsRow(k[1], rows'[k])
               /\ story'[k] \in Stories
               /\ KeepsAmounts(k[1], rows'[k])
               /\ KeepsRequired(k[1], rows'[k], story'[k])
               /\ KeepsCreator(k[1], rows'[k], story'[k])
    <2>1. CASE k = key
      <3>1. rows'[k] = row /\ story'[k] = tale
        BY <1>1, <1>2, <2>1
      <3>2. QED
        BY <2>1, <3>1
    <2>2. CASE k # key
      <3>1. k \in DOMAIN rows /\ rows'[k] = rows[k] /\ story'[k] = story[k]
        BY <1>1, <1>2, <2>2
      <3>2. QED
        BY <3>1 DEF RowsOK
    <2>3. QED
      BY <2>1, <2>2
  <1>4. QED
    BY <1>2, <1>3 DEF RowsOK, IsRow, KeepsAmounts, KeepsRequired, KeepsCreator

\* Nothing of the rows changes.
LEMMA RowsStay ==
    ASSUME RowsOK, UNCHANGED <<rows, story>>
    PROVE  RowsOK'
  BY DEF RowsOK, IsRow, KeepsAmounts, KeepsRequired, KeepsCreator

-----------------------------------------------------------------------------
(* The steps.                                                              *)

\* The first state: the database that is opened, and no request.
LEMMA InitOK ==
    ASSUME Init
    PROVE  IInv
  <1>1. RowsOK
    <2>1. /\ rows = Loaded /\ story = [k \in DOMAIN Loaded |-> FirstStory(k)]
          /\ DOMAIN Loaded \subseteq Keys
      BY LoadedRows DEF Init
    <2>2. ASSUME NEW k \in DOMAIN Loaded
          PROVE  /\ IsRow(k[1], Loaded[k]) /\ FirstStory(k) \in Stories
                 /\ KeepsAmounts(k[1], Loaded[k])
                 /\ KeepsRequired(k[1], Loaded[k], FirstStory(k))
                 /\ KeepsCreator(k[1], Loaded[k], FirstStory(k))
      <3>1. /\ IsRow(k[1], Loaded[k]) /\ k[1] \in Tables
            /\ KeepsAmounts(k[1], Loaded[k])
            /\ KeepsRequired(k[1], Loaded[k], FirstStory(k))
        BY LoadedRows, <2>1 DEF Keys
      <3>2. /\ FirstStory(k).creator = IF "usr_id" \in Columns(k[1]) THEN Loaded[k]["usr_id"] ELSE NoUser
            /\ FirstStory(k) = [creator |-> FirstStory(k).creator, imported |-> FALSE]
        BY DEF FirstStory, Story
      <3>3. FirstStory(k).creator \in Users \union {NoUser}
        <4>1. CASE "usr_id" \in Columns(k[1])
          <5>1. Contents(k[1], "usr_id") = Users
            BY <3>1, <4>1, CreatorColumn DEF Contents
          <5>2. QED
            BY <3>1, <3>2, <4>1, <5>1 DEF IsRow, NoUser
        <4>2. QED
          BY <3>2, <4>1
      <3>4. FirstStory(k) \in Stories
        <4>1. ASSUME NEW c \in Users \union {NoUser}
              PROVE  [creator |-> c, imported |-> FALSE] \in Stories
          BY DEF Stories
        <4>2. QED
          BY <3>2, <3>3, <4>1
      <3>5. KeepsCreator(k[1], Loaded[k], FirstStory(k))
        BY <3>2 DEF KeepsCreator
      <3>6. QED
        BY <3>1, <3>4, <3>5
    <2>3. QED
      BY <2>1, <2>2 DEF RowsOK
  <1>2. RequestsOK
    <2>1. req = [r \in Requests |-> Idle]
      BY DEF Init
    <2>2. Idle \in Handlers /\ Idle.pc = "idle"
      BY DEF Idle, Handler, Handlers, Steps, Ids, NoUser
    <2>3. QED
      BY <2>1, <2>2 DEF RequestsOK, RequestOK
  <1>3. CountsOK
    <2>1. ASSUME NEW t \in Tables PROVE Cardinality({k \in DOMAIN Loaded : k[1] = t}) \in Nat
      <3>1. IsFiniteSet(DOMAIN Loaded)
        BY LoadedRows
      <3>2. IsFiniteSet({k \in DOMAIN Loaded : k[1] = t})
        BY <3>1, FS_Subset
      <3>3. QED
        BY <3>2, FS_CardinalityType
    <2>2. QED
      BY <2>1 DEF Init, CountsOK
  <1>4. QED
    BY <1>1, <1>2, <1>3 DEF IInv

\* A request comes in.
LEMMA BeginOK ==
    ASSUME IInv, NEW r \in Requests, Begin(r)
    PROVE  IInv'
  <1>1. PICK call \in Calls, u \in Users :
            LET Asked(pc, answer) == Become(r, Handler(pc, call, u, 1, <<>>, answer))
                refused == \/ RoleOf[u] \notin WriteRoles
                           \/ /\ call.op \in {"create", "update"} /\ call.parent = 0
                              /\ \/ Refuses(call, call.lines[1])
                                 \/ BreaksBusinessRules(call.table, ValuesOf(call, u, call.lines[1]))
            IN \/ refused /\ Asked("answered", "error")
               \/ ~refused /\ call.parent # 0 /\ Asked("parent", "none")
               \/ ~refused /\ call.parent = 0 /\ call.op = "import" /\ call.lines = <<>>
                     /\ Asked("answered", "ok")
               \/ ~refused /\ call.parent = 0 /\ (call.op = "import" => call.lines # <<>>)
                     /\ Asked("write", "none")
    BY DEF Begin
  <1> DEFINE H(pc, answer) == Handler(pc, call, u, 1, <<>>, answer)
  <1>2. ASSUME NEW pc \in Steps, NEW answer \in {"none", "ok", "error"}
        PROVE  /\ H(pc, answer) \in Handlers
               /\ H(pc, answer).pc = pc /\ H(pc, answer).call = call
               /\ H(pc, answer).user = u /\ H(pc, answer).line = 1
    BY DEF Handler, Handlers, Ids
  <1>3. /\ <<call.surface, call.op>> \in CallTypes
        /\ call.parent # 0 => call.surface = "form"
        /\ call.op \in {"create", "update"} => Len(call.lines) = 1
        /\ Len(call.lines) \in Nat /\ DOMAIN call.lines = 1 .. Len(call.lines)
    BY CallFacts
  <1>4. ASSUME call.op \in {"create", "update"} PROVE 1 \in DOMAIN call.lines
    <2>1. Len(call.lines) = 1 /\ DOMAIN call.lines = 1 .. Len(call.lines)
      BY <1>3, <1>4
    <2>2. QED
      BY <2>1
  <1> HIDE DEF H
  <1>5. ASSUME Become(r, H("answered", "error")) \/ Become(r, H("answered", "ok"))
        PROVE  RequestsOK'
    <2>1. ASSUME NEW answer \in {"ok", "error"}, Become(r, H("answered", answer)) PROVE RequestsOK'
      <3>1. H("answered", answer) \in Handlers /\ H("answered", answer).pc = "answered"
        BY <1>2 DEF Steps
      <3>2. RequestOK(H("answered", answer))
        BY <3>1 DEF RequestOK
      <3>3. QED
        BY <2>1, <3>1, <3>2, BecomeOK DEF IInv
    <2>2. QED
      BY <1>5, <2>1
  <1>6. ASSUME call.parent # 0, Become(r, H("parent", "none"))
        PROVE  RequestsOK'
    <2>1. /\ H("parent", "none") \in Handlers /\ H("parent", "none").pc = "parent"
          /\ H("parent", "none").call = call /\ H("parent", "none").user = u
          /\ H("parent", "none").line = 1
      BY <1>2 DEF Steps
    <2>2. call.op \in {"create", "update"}
      BY <1>3, <1>6 DEF CallTypes
    <2>3. RequestOK(H("parent", "none"))
      BY <1>4, <1>6, <2>1, <2>2 DEF RequestOK
    <2>4. QED
      BY <1>6, <2>1, <2>3, BecomeOK DEF IInv
  <1>7. ASSUME Become(r, H("write", "none")), call.op = "import" => call.lines # <<>>,
               call.op \in {"create", "update"} => Passed(call, u, call.lines[1])
        PROVE  RequestsOK'
    <2>1. /\ H("write", "none") \in Handlers /\ H("write", "none").pc = "write"
          /\ H("write", "none").call = call /\ H("write", "none").user = u
          /\ H("write", "none").line = 1
      BY <1>2 DEF Steps
    <2>2. call.op # "delete" => 1 \in DOMAIN call.lines
      <3>1. CASE call.op = "import"
        BY <1>3, <1>7, <3>1, LinesThere
      <3>2. QED
        BY <1>3, <1>4, <3>1 DEF CallTypes
    <2>3. RequestOK(H("write", "none"))
      BY <1>7, <2>1, <2>2 DEF RequestOK
    <2>4. QED
      BY <1>7, <2>1, <2>3, BecomeOK DEF IInv
  <1>8. RequestsOK'
    BY <1>1, <1>5, <1>6, <1>7 DEF H, Passed
  <1>9. RowsOK'
    BY RowsStay DEF Begin, IInv
  <1>10. CountsOK'
    BY DEF Begin, IInv, CountsOK
  <1>11. QED
    BY <1>8, <1>9, <1>10 DEF IInv

\* The parent is looked up, and the tests of the line follow.
LEMMA ResolveParentOK ==
    ASSUME IInv, NEW r \in Requests, ResolveParentContext(r)
    PROVE  IInv'
  <1> DEFINE call == req[r].call
             h == Handler("write", req[r].call, req[r].user, req[r].line, req[r].landed, "none")
  <1>1. req[r] \in Handlers /\ RequestOK(req[r]) /\ req[r].pc = "parent"
    BY DEF IInv, RequestsOK, ResolveParentContext
  <1>2. /\ call \in Calls /\ req[r].user \in Users
        /\ req[r].line \in DOMAIN call.lines /\ call.op \in {"create", "update"}
    BY <1>1 DEF RequestOK
  <1>3. req[r].line = 1
    <2>1. Len(call.lines) = 1 /\ DOMAIN call.lines = 1 .. Len(call.lines)
      BY <1>2, CallFacts
    <2>2. QED
      BY <1>2, <2>1
  <1>4. \/ ~Refuses(call, Line(r)) /\ ~Broken(r) /\ GoTo(r, "write")
        \/ Answer(r, "error")
    BY DEF ResolveParentContext
  <1>5. ASSUME ~Refuses(call, Line(r)), ~Broken(r), GoTo(r, "write")
        PROVE  RequestsOK'
    <2>1. h \in Handlers
      BY <1>1 DEF Handlers, Handler, Steps
    <2>2. /\ h.pc = "write" /\ h.call = call /\ h.user = req[r].user /\ h.line = req[r].line
      BY DEF Handler
    <2>3. Passed(call, req[r].user, call.lines[1])
      BY SMTT(30), <1>3, <1>5 DEF Passed, Line, Broken, LineValues
    <2>4. RequestOK(h)
      BY <1>2, <1>3, <2>2, <2>3 DEF RequestOK
    <2>5. Become(r, h)
      BY <1>5 DEF GoTo
    <2>6. QED
      BY <2>1, <2>4, <2>5, BecomeOK DEF IInv
  <1>6. RequestsOK'
    BY <1>4, <1>5, AnswerOK DEF IInv
  <1>7. RowsOK' /\ CountsOK'
    BY RowsStay DEF ResolveParentContext, IInv, CountsOK
  <1>8. QED
    BY <1>6, <1>7 DEF IInv

\* The row of a line that passed the tests and the constraints.
LEMMA InsertRowOK ==
    ASSUME IInv, NEW r \in Requests,
           req[r].call \in Calls, req[r].user \in Users,
           req[r].line \in DOMAIN req[r].call.lines,
           req[r].call.op \in {"create", "import"},
           ~Refuses(req[r].call, Line(r)), ~Broken(r),
           Storable(req[r].call.table, NewRow(req[r].call.table, LineValues(r))),
           InsertRow(r, req[r].call.table, LineValues(r))
    PROVE  RowsOK' /\ lastId' \in [Tables -> Nat] /\ Landed(r) \in Seq(Ids)
  <1> DEFINE call == req[r].call
             t == call.table
             values == LineValues(r)
             row == NewRow(t, values)
             id == lastId[t] + 1
             tale == Story(req[r].user, call.surface = "csv")
  <1>1. t \in Tables /\ <<call.surface, call.op>> \in CallTypes
    BY CallFacts
  <1>2. id \in Ids /\ lastId \in [Tables -> Nat]
    BY <1>1 DEF IInv, CountsOK, Ids
  <1>3. /\ DOMAIN values \subseteq Columns(t)
        /\ \A c \in DOMAIN values : values[c] \in Contents(t, c) \union {Null}
        /\ call.surface # "csv" =>
               \A c \in DOMAIN values : Required(t, c) => values[c] # Null /\ values[c] # Blank
        /\ call.op = "create" /\ "usr_id" \in Columns(t) =>
               "usr_id" \in DOMAIN values /\ values["usr_id"] = req[r].user
    <2>1. ~Refuses(call, call.lines[req[r].line]) /\ call.op # "delete"
      BY DEF Line
    <2>2. Fits(call, req[r].user, ValuesOf(call, req[r].user, call.lines[req[r].line]))
      BY SMTT(30), <2>1, ValuesFit
    <2>3. Fits(call, req[r].user, values)
      BY <2>2 DEF LineValues, Line
    <2> HIDE DEF values
    <2>4. QED
      BY <2>3 DEF Fits
  <1>4. Put(<<t, id>>, row) /\ Tell(<<t, id>>, tale) /\ lastId' = [lastId EXCEPT ![t] = id]
    BY DEF InsertRow
  <1>5. tale \in Stories /\ tale.creator = req[r].user /\ tale.imported = (call.surface = "csv")
    BY DEF Story, Stories
  <1>6. ~BreaksBusinessRules(t, values) /\ Storable(t, row)
    BY DEF Broken
  <1> HIDE DEF values, tale, id
  <1>7. IsRow(t, row)
    BY <1>1, <1>3, NewRowIsRow
  <1>8. KeepsAmounts(t, row)
    BY <1>1, <1>6, <1>7, NewRowKeepsRules DEF KeepsRules
  <1>9. \A c \in Columns(t) : row[c] = IF c \in DOMAIN values THEN values[c] ELSE Null
    BY DEF NewRow
  <1>10. KeepsRequired(t, row, tale)
    <2>1. SUFFICES ASSUME NEW c \in Columns(t), Required(t, c)
                   PROVE  row[c] # Null /\ (row[c] = Blank => tale.imported)
      BY DEF KeepsRequired
    <2>2. row[c] # Null
      BY <1>1, <1>6, <2>1, StoredRequired
    <2>3. c \in DOMAIN values /\ row[c] = values[c]
      BY <1>9, <2>1, <2>2
    <2>4. QED
      BY <1>3, <1>5, <2>1, <2>2, <2>3
  <1>11. KeepsCreator(t, row, tale)
    <2>1. SUFFICES ASSUME "usr_id" \in Columns(t), ~tale.imported
                   PROVE  row["usr_id"] = tale.creator
      BY DEF KeepsCreator
    <2>2. call.op = "create"
      BY <1>1, <1>5, <2>1 DEF CallTypes
    <2>3. QED
      BY <1>3, <1>5, <1>9, <2>1, <2>2
  <1>12. <<t, id>> \in Keys /\ <<t, id>>[1] = t
    BY <1>1, <1>2 DEF Keys
  <1>13. RowsOK'
    <2>1. /\ DOMAIN story' = DOMAIN rows \union {<<t, id>>}
          /\ \A k \in DOMAIN story' : story'[k] = IF k = <<t, id>> THEN tale ELSE story[k]
      BY <1>4 DEF Tell
    <2>2. QED
      BY SMTT(30), <1>4, <1>5, <1>7, <1>8, <1>10, <1>11, <1>12, <2>1, PutOK DEF IInv
  <1>14. lastId' \in [Tables -> Nat]
    BY <1>1, <1>2, <1>4 DEF Ids
  <1>15. Landed(r) \in Seq(Ids)
    <2>1. req[r].landed \in Seq(Ids)
      BY DEF IInv, RequestsOK, Handlers
    <2>2. QED
      BY <1>2, <2>1 DEF Landed, id
  <1>16. QED
    BY <1>13, <1>14, <1>15

\* A request that goes on to its answer, or to reading the row back.
LEMMA DoneOK ==
    ASSUME IInv, NEW r \in Requests, NEW call \in Calls, NEW line \in Ids, NEW landed \in Seq(Ids),
           NEW pc \in {"read", "answered"}, NEW answer \in {"none", "ok"}, req[r].user \in Users,
           pc = "read" => call.op # "import",
           Become(r, Handler(pc, call, req[r].user, line, landed, answer))
    PROVE  RequestsOK'
  <1> DEFINE h == Handler(pc, call, req[r].user, line, landed, answer)
  <1>1. h \in Handlers
    BY DEF Handler, Handlers, Steps
  <1>2. h.pc = pc /\ h.call = call /\ h.user = req[r].user
    BY DEF Handler
  <1>3. RequestOK(h)
    BY <1>2 DEF RequestOK
  <1>4. QED
    BY <1>1, <1>3, BecomeOK DEF IInv

\* A request that is about to write.
LEMMA WritingFacts ==
    ASSUME IInv, NEW r \in Requests, req[r].pc = "write"
    PROVE  /\ req[r] \in Handlers
           /\ req[r].call \in Calls /\ req[r].user \in Users /\ req[r].landed \in Seq(Ids)
           /\ req[r].call.table \in Tables /\ req[r].line \in Ids
           /\ req[r].call.op # "delete" => req[r].line \in DOMAIN req[r].call.lines
           /\ req[r].call.op \in {"create", "update"} =>
                  req[r].line = 1 /\ ~Refuses(req[r].call, Line(r)) /\ ~Broken(r)
  <1>1. req[r] \in Handlers /\ RequestOK(req[r])
    BY DEF IInv, RequestsOK
  <1>2. /\ req[r].call \in Calls /\ req[r].user \in Users
        /\ req[r].call.op # "delete" => req[r].line \in DOMAIN req[r].call.lines
        /\ req[r].call.op \in {"create", "update"} =>
               req[r].line = 1 /\ Passed(req[r].call, req[r].user, req[r].call.lines[1])
    BY <1>1 DEF RequestOK
  <1>3. req[r].call.table \in Tables
    BY <1>2, CallFacts
  <1>4. req[r].landed \in Seq(Ids) /\ req[r].line \in Ids
    BY <1>1 DEF Handlers
  <1>5. QED
    BY <1>1, <1>2, <1>3, <1>4 DEF Passed, Line, Broken, LineValues

\* A creation.
LEMMA InsertOK ==
    ASSUME IInv, NEW r \in Requests, Insert(r)
    PROVE  IInv'
  <1> DEFINE call == req[r].call
             stored == Storable(call.table, NewRow(call.table, LineValues(r)))
  <1>1. req[r].pc = "write" /\ call.op = "create"
    BY DEF Insert
  <1>2. /\ call \in Calls /\ req[r].user \in Users /\ req[r].line \in DOMAIN call.lines
        /\ ~Refuses(call, Line(r)) /\ ~Broken(r)
    BY <1>1, WritingFacts
  <1>3. CASE stored
    <2>1. /\ InsertRow(r, call.table, LineValues(r))
          /\ \/ Become(r, Handler("read", call, req[r].user, 1, Landed(r), "none"))
             \/ Become(r, Handler("answered", call, req[r].user, 1, Landed(r), "ok"))
      BY <1>3 DEF Insert
    <2>2. RowsOK' /\ lastId' \in [Tables -> Nat] /\ Landed(r) \in Seq(Ids)
      BY <1>1, <1>2, <1>3, <2>1, InsertRowOK
    <2>3. RequestsOK'
      <3>1. 1 \in Ids
        BY DEF Ids
      <3>2. CASE Become(r, Handler("read", call, req[r].user, 1, Landed(r), "none"))
        BY <1>1, <1>2, <2>2, <3>1, <3>2, DoneOK
      <3>3. CASE Become(r, Handler("answered", call, req[r].user, 1, Landed(r), "ok"))
        BY <1>2, <2>2, <3>1, <3>3, DoneOK
      <3>4. QED
        BY <2>1, <3>2, <3>3
    <2>4. CountsOK'
      BY <2>2 DEF Insert, CountsOK, IInv
    <2>5. QED
      BY <2>2, <2>3, <2>4 DEF IInv
  <1>4. CASE ~stored
    <2>1. Answer(r, "error") /\ UNCHANGED <<rows, lastId, story, started, faults>>
      BY <1>4 DEF Insert
    <2>2. QED
      BY <2>1, AnswerOK, RowsStay DEF IInv, CountsOK
  <1>5. QED
    BY <1>3, <1>4

\* The values of a change that passed the tests.
LEMMA ChangeFits ==
    ASSUME IInv, NEW r \in Requests, req[r].pc = "write", req[r].call.op = "update"
    PROVE  Fits(req[r].call, req[r].user, LineValues(r))
  <1>1. /\ req[r].call \in Calls /\ req[r].user \in Users
        /\ req[r].line \in DOMAIN req[r].call.lines /\ ~Refuses(req[r].call, Line(r))
    BY WritingFacts
  <1>2. ~Refuses(req[r].call, req[r].call.lines[req[r].line]) /\ req[r].call.op # "delete"
    BY <1>1 DEF Line
  <1>3. QED
    BY <1>1, <1>2, ValuesFit DEF LineValues, Line

\* A change: the columns that are sent, and the others as they were.
Changes(r, key, row) ==
    /\ key = <<req[r].call.table, req[r].call.id>> /\ key \in DOMAIN rows
    /\ row = ChangedRow(req[r].call.table, rows[key], LineValues(r))
    /\ Storable(req[r].call.table, row)
    /\ Put(key, row) /\ UNCHANGED story

LEMMA UpdateRowOK ==
    ASSUME IInv, NEW r \in Requests, req[r].pc = "write", req[r].call.op = "update",
           NEW key, NEW row, Changes(r, key, row)
    PROVE  RowsOK'
  <1> DEFINE call == req[r].call
             t == call.table
             values == LineValues(r)
             old == rows[key]
             tale == story[key]
  <1>1. /\ call \in Calls /\ req[r].user \in Users /\ t \in Tables
        /\ req[r].line \in DOMAIN call.lines
        /\ ~Refuses(call, Line(r)) /\ ~BreaksBusinessRules(t, values)
    BY WritingFacts DEF Broken
  <1>2. <<call.surface, call.op>> \in CallTypes
    BY <1>1, CallFacts
  <1>3. /\ \A c \in DOMAIN values : values[c] \in Contents(t, c) \union {Null}
        /\ call.surface # "csv" =>
               \A c \in DOMAIN values : Required(t, c) => values[c] # Null /\ values[c] # Blank
        /\ "usr_id" \notin DOMAIN values
    <2>1. Fits(call, req[r].user, values)
      BY ChangeFits, ZenonT(30)
    <2> HIDE DEF values
    <2>2. QED
      BY <2>1 DEF Fits
  <1>4. /\ key \in Keys /\ key[1] = t
        /\ IsRow(t, old) /\ tale \in Stories
        /\ KeepsAmounts(t, old) /\ KeepsRequired(t, old, tale) /\ KeepsCreator(t, old, tale)
    BY DEF IInv, RowsOK, Changes
  <1>5. Put(key, row) /\ UNCHANGED story /\ key \in DOMAIN rows
    BY DEF Changes
  <1>6. /\ DOMAIN story' = DOMAIN rows \union {key}
        /\ \A k \in DOMAIN story' : story'[k] = IF k = key THEN tale ELSE story[k]
    BY <1>5 DEF IInv, RowsOK
  <1> HIDE DEF values, old, tale
  <1>7. row = ChangedRow(t, old, values)
    BY DEF Changes, values, old
  <1>8. IsRow(t, row)
    BY <1>1, <1>3, <1>4, <1>7, ChangedRowIsRow
  <1>9. KeepsAmounts(t, row)
    <2>1. Storable(t, row)
      BY DEF Changes
    <2>2. QED
      BY <1>1, <1>4, <1>7, <1>8, <2>1, ChangedRowKeepsAmounts
  <1>10. \A c \in Columns(t) : row[c] = IF c \in DOMAIN values THEN values[c] ELSE old[c]
    BY <1>7 DEF ChangedRow
  <1>11. KeepsRequired(t, row, tale)
    <2>1. SUFFICES ASSUME NEW c \in Columns(t), Required(t, c)
                   PROVE  row[c] # Null /\ (row[c] = Blank => tale.imported)
      BY DEF KeepsRequired
    <2>2. CASE c \in DOMAIN values
      BY <1>2, <1>3, <1>10, <2>1, <2>2 DEF CallTypes
    <2>3. CASE c \notin DOMAIN values
      <3>1. row[c] = old[c]
        BY <1>10, <2>1, <2>3
      <3>2. QED
        BY <1>4, <2>1, <3>1 DEF KeepsRequired
    <2>4. QED
      BY <2>2, <2>3
  <1>12. KeepsCreator(t, row, tale)
    <2>1. SUFFICES ASSUME "usr_id" \in Columns(t), ~tale.imported
                   PROVE  row["usr_id"] = tale.creator
      BY DEF KeepsCreator
    <2>2. row["usr_id"] = old["usr_id"]
      BY SMTT(30), <1>3, <1>10, <2>1
    <2>3. QED
      BY <1>4, <2>1, <2>2 DEF KeepsCreator
  <1>13. QED
    BY <1>4, <1>5, <1>6, <1>8, <1>9, <1>11, <1>12, PutOK DEF IInv

\* A change, with or without columns, or one that is refused.
LEMMA UpdateOK ==
    ASSUME IInv, NEW r \in Requests, Update(r)
    PROVE  IInv'
  <1> DEFINE call == req[r].call
             key == <<call.table, call.id>>
             values == LineValues(r)
             row == ChangedRow(call.table, rows[key], values)
             Done(landed) ==
                 IF call.surface = "api"
                 THEN Become(r, Handler("read", call, req[r].user, 1, landed, "none"))
                 ELSE Become(r, Handler("answered", call, req[r].user, 1, landed, "ok"))
  <1>1. req[r].pc = "write" /\ call.op = "update"
    BY DEF Update
  <1>2. call \in Calls /\ req[r].user \in Users
    BY <1>1, WritingFacts
  <1>3. call.id \in Ids
    BY <1>1, <1>2, CallFacts
  <1>4. ASSUME NEW landed \in Seq(Ids), Done(landed) PROVE RequestsOK'
    <2>1. 1 \in Ids
      BY DEF Ids
    <2>2. CASE Become(r, Handler("read", call, req[r].user, 1, landed, "none"))
      BY <1>1, <1>2, <2>1, <2>2, DoneOK
    <2>3. CASE Become(r, Handler("answered", call, req[r].user, 1, landed, "ok"))
      BY <1>2, <2>1, <2>3, DoneOK
    <2>4. QED
      BY <1>4, <2>2, <2>3
  <1>5. UNCHANGED <<lastId, started, faults>>
    BY DEF Update
  <1>6. CountsOK'
    BY <1>5 DEF IInv, CountsOK
  <1>7. \/ Done(<<>>) /\ UNCHANGED <<rows, story>>
        \/ /\ key \in DOMAIN rows /\ Storable(call.table, row)
           /\ Put(key, row) /\ UNCHANGED story /\ Done(<<call.id>>)
        \/ Answer(r, "error") /\ UNCHANGED <<rows, story>>
    BY DEF Update
  <1> HIDE DEF Done
  <1>8. CASE Done(<<>>) /\ UNCHANGED <<rows, story>>
    <2>1. <<>> \in Seq(Ids)
      OBVIOUS
    <2>2. RequestsOK'
      BY <1>4, <1>8, <2>1
    <2>3. QED
      BY <1>6, <1>8, <2>2, RowsStay DEF IInv
  <1>9. CASE /\ key \in DOMAIN rows /\ Storable(call.table, row)
             /\ Put(key, row) /\ UNCHANGED story /\ Done(<<call.id>>)
    <2>1. Changes(r, key, row)
      BY <1>9 DEF Changes
    <2>2. RowsOK'
      BY <1>1, <2>1, UpdateRowOK
    <2>3. <<call.id>> \in Seq(Ids)
      BY <1>3
    <2>4. RequestsOK'
      BY <1>4, <1>9, <2>3
    <2>5. QED
      BY <1>6, <2>2, <2>4 DEF IInv
  <1>10. CASE Answer(r, "error") /\ UNCHANGED <<rows, story>>
    <2>1. RequestsOK'
      BY <1>10, AnswerOK DEF IInv
    <2>2. RowsOK'
      BY <1>10, RowsStay DEF IInv
    <2>3. QED
      BY <1>6, <2>1, <2>2 DEF IInv
  <1>11. QED
    BY <1>7, <1>8, <1>9, <1>10

\* A deletion leaves the other rows as they were.
LEMMA DeleteOK ==
    ASSUME IInv, NEW r \in Requests, Delete(r)
    PROVE  IInv'
  <1> DEFINE key == <<req[r].call.table, req[r].call.id>>
             kept == DOMAIN rows \ (Children(key) \union {key})
  <1>1. \/ /\ rows' = [k \in kept |-> rows[k]]
           /\ story' = [k \in kept |-> story[k]]
           /\ Answer(r, "ok")
        \/ Answer(r, "error") /\ UNCHANGED <<rows, story>>
    BY DEF Delete
  <1>2. CountsOK'
    BY DEF Delete, IInv, CountsOK
  <1>3. RequestsOK'
    BY <1>1, AnswerOK DEF IInv
  <1>4. CASE rows' = [k \in kept |-> rows[k]] /\ story' = [k \in kept |-> story[k]]
    <2>1. kept \subseteq DOMAIN rows
      OBVIOUS
    <2> HIDE DEF kept
    <2>2. /\ DOMAIN rows' = kept /\ DOMAIN story' = kept
          /\ \A k \in kept : rows'[k] = rows[k] /\ story'[k] = story[k]
      BY <1>4
    <2>3. RowsOK'
      BY <2>1, <2>2 DEF IInv, RowsOK, IsRow, KeepsAmounts, KeepsRequired, KeepsCreator
    <2>4. QED
      BY <1>2, <1>3, <2>3 DEF IInv
  <1>5. CASE UNCHANGED <<rows, story>>
    BY <1>2, <1>3, <1>5, RowsStay DEF IInv
  <1>6. QED
    BY <1>1, <1>4, <1>5

\* The row is read back, or is gone.
LEMMA ReadBackOK ==
    ASSUME IInv, NEW r \in Requests, ReadBack(r)
    PROVE  IInv'
  <1>1. Answer(r, "ok") \/ Answer(r, "error")
    BY DEF ReadBack
  <1>2. RequestsOK'
    BY <1>1, AnswerOK DEF IInv
  <1>3. RowsOK' /\ CountsOK'
    BY RowsStay DEF ReadBack, IInv, CountsOK
  <1>4. QED
    BY <1>2, <1>3 DEF IInv

\* After a line of a file comes the next one, or the end.
LEMMA NextLineOK ==
    ASSUME IInv, NEW r \in Requests, req[r].pc = "write", req[r].call.op = "import",
           NEW landed \in Seq(Ids), NextLine(r, landed)
    PROVE  RequestsOK'
  <1> DEFINE call == req[r].call
             h == Handler("write", call, req[r].user, req[r].line + 1, landed, "none")
  <1>1. /\ req[r] \in Handlers /\ call \in Calls /\ req[r].user \in Users
        /\ req[r].line \in Ids /\ req[r].line \in DOMAIN call.lines
    BY WritingFacts
  <1>2. Len(call.lines) \in Nat /\ DOMAIN call.lines = 1 .. Len(call.lines)
    BY <1>1, CallFacts
  <1>3. CASE req[r].line = Len(call.lines)
    <2>1. Become(r, Handler("answered", call, req[r].user, req[r].line, landed, "ok"))
      BY <1>3 DEF NextLine
    <2>2. QED
      BY <1>1, <2>1, DoneOK
  <1>4. CASE req[r].line # Len(call.lines)
    <2>1. Become(r, h)
      BY <1>4 DEF NextLine
    <2>2. req[r].line + 1 \in Ids /\ req[r].line + 1 \in DOMAIN call.lines
      BY SMTT(30), <1>1, <1>2, <1>4 DEF Ids
    <2>3. h \in Handlers
      BY <1>1, <2>2 DEF Handler, Handlers, Steps
    <2>4. h.pc = "write" /\ h.call = call /\ h.user = req[r].user /\ h.line = req[r].line + 1
      BY DEF Handler
    <2>5. RequestOK(h)
      BY <1>1, <2>2, <2>4 DEF RequestOK
    <2>6. QED
      BY <2>1, <2>3, <2>5, BecomeOK DEF IInv
  <1>5. QED
    BY <1>3, <1>4

\* A line of a file.
LEMMA ImportLineOK ==
    ASSUME IInv, NEW r \in Requests, ImportLine(r)
    PROVE  IInv'
  <1> DEFINE call == req[r].call
  <1>1. req[r].pc = "write" /\ call.op = "import" /\ UNCHANGED <<started, faults>>
    BY DEF ImportLine
  <1>2. CASE CannotStore(r)
    <2>1. Answer(r, "error") /\ UNCHANGED <<rows, lastId, story>>
      BY <1>2 DEF ImportLine
    <2>2. RequestsOK'
      BY <2>1, AnswerOK DEF IInv
    <2>3. RowsOK' /\ CountsOK'
      BY <1>1, <2>1, RowsStay DEF IInv, CountsOK
    <2>4. QED
      BY <2>2, <2>3 DEF IInv
  <1>3. CASE ~CannotStore(r)
    <2>1. InsertRow(r, call.table, LineValues(r)) /\ NextLine(r, Landed(r))
      BY <1>3 DEF ImportLine
    <2>2. /\ ~Refuses(call, Line(r)) /\ ~Broken(r)
          /\ Storable(call.table, NewRow(call.table, LineValues(r)))
      BY <1>3 DEF CannotStore
    <2>3. call \in Calls /\ req[r].user \in Users /\ req[r].line \in DOMAIN call.lines
      BY <1>1, WritingFacts
    <2>4. RowsOK' /\ lastId' \in [Tables -> Nat] /\ Landed(r) \in Seq(Ids)
      BY <1>1, <2>1, <2>2, <2>3, InsertRowOK
    <2>5. RequestsOK'
      BY <1>1, <2>1, <2>4, NextLineOK
    <2>6. CountsOK'
      BY <1>1, <2>4 DEF IInv, CountsOK
    <2>7. QED
      BY <2>4, <2>5, <2>6 DEF IInv
  <1>4. QED
    BY <1>2, <1>3

\* A client that goes away.
LEMMA AbortOK ==
    ASSUME IInv, NEW r \in Requests, Abort(r)
    PROVE  IInv'
  <1>1. Idle \in Handlers /\ Idle.pc = "idle"
    BY DEF Idle, Handler, Handlers, Steps, Ids, NoUser
  <1>2. RequestOK(Idle)
    BY <1>1 DEF RequestOK
  <1>3. RequestsOK'
    BY <1>1, <1>2, BecomeOK DEF Abort, IInv
  <1>4. RowsOK' /\ CountsOK'
    BY RowsStay DEF Abort, IInv, CountsOK
  <1>5. QED
    BY <1>3, <1>4 DEF IInv

\* Nothing happens.
LEMMA StutterOK ==
    ASSUME IInv, UNCHANGED vars
    PROVE  IInv'
  <1>1. RowsOK' /\ CountsOK'
    BY RowsStay DEF IInv, CountsOK, vars
  <1>2. RequestsOK'
    BY SMTT(30) DEF IInv, RequestsOK, RequestOK, Passed, Refuses, BreaksBusinessRules, ValuesOf, vars
  <1>3. QED
    BY <1>1, <1>2 DEF IInv

\* The invariant is kept by every step.
LEMMA StepOK ==
    ASSUME IInv, [Next]_vars
    PROVE  IInv'
  BY BeginOK, ResolveParentOK, InsertOK, UpdateOK, DeleteOK, ReadBackOK, ImportLineOK, AbortOK,
     StutterOK DEF Next, AwaitRequest

LEMMA InductiveInvariant == Spec => []IInv
  <1>1. Init => IInv
    BY InitOK
  <1>2. IInv /\ [Next]_vars => IInv'
    BY StepOK
  <1>3. QED
    BY <1>1, <1>2, PTL DEF Spec

-----------------------------------------------------------------------------
(* Ids: AUTOINCREMENT gives a new row an id no row has.                    *)

IdsOK == \A k \in DOMAIN rows : k[2] <= lastId[k[1]]

\* What an import has landed so far, and its answer.
LandedOK(h, ids) ==
    h.call.op = "import" =>
        /\ \A i \in DOMAIN h.landed : h.landed[i] <= ids[h.call.table]
        /\ \A i, j \in DOMAIN h.landed : i < j => h.landed[i] < h.landed[j]
        /\ h.pc = "write" => Len(h.landed) = h.line - 1 /\ h.answer = "none"
        /\ h.answer = "ok" => Len(h.landed) = Len(h.call.lines)
        /\ h.answer = "error" => Len(h.landed) < Len(h.call.lines) \/ Len(h.call.lines) = 0

ImportsOK == IdsOK /\ \A r \in Requests : LandedOK(req[r], lastId)

\* An inserted row takes the next id of its table.
LEMMA InsertedId ==
    ASSUME IInv, IdsOK, NEW r \in Requests, NEW t \in Tables, NEW values, InsertRow(r, t, values)
    PROVE  /\ <<t, lastId[t] + 1>> \notin DOMAIN rows
           /\ DOMAIN rows' = DOMAIN rows \union {<<t, lastId[t] + 1>>}
           /\ \A k \in DOMAIN rows : rows'[k] = rows[k]
           /\ \A u \in Tables : lastId'[u] = IF u = t THEN lastId[u] + 1 ELSE lastId[u]
           /\ lastId \in [Tables -> Nat]
           /\ IdsOK'
  <1> DEFINE id == lastId[t] + 1
             key == <<t, id>>
  <1>1. lastId \in [Tables -> Nat] /\ id \in Nat /\ DOMAIN rows \subseteq Keys
    BY DEF IInv, RowsOK, CountsOK
  <1>2. key \notin DOMAIN rows
    <2>1. SUFFICES ASSUME key \in DOMAIN rows PROVE FALSE
      OBVIOUS
    <2>2. key[2] <= lastId[key[1]] /\ key[1] = t /\ key[2] = id
      BY <2>1 DEF IdsOK
    <2>3. QED
      BY <1>1, <2>2
  <1>3. /\ DOMAIN rows' = DOMAIN rows \union {key}
        /\ \A k \in DOMAIN rows' : rows'[k] = IF k = key THEN NewRow(t, values) ELSE rows[k]
    BY DEF InsertRow, Put
  <1>4. lastId' = [lastId EXCEPT ![t] = id]
    BY DEF InsertRow
  <1>5. \A u \in Tables : lastId'[u] = IF u = t THEN lastId[u] + 1 ELSE lastId[u]
    BY <1>1, <1>4
  <1>6. ASSUME NEW k \in DOMAIN rows' PROVE k[2] <= lastId'[k[1]]
    <2>1. CASE k = key
      BY <1>1, <1>5, <2>1
    <2>2. CASE k # key
      <3>1. k \in DOMAIN rows /\ k \in Keys
        BY <1>1, <1>3, <2>2
      <3>2. k[1] \in Tables /\ k[2] \in Nat /\ lastId[k[1]] \in Nat /\ k[2] <= lastId[k[1]]
        BY <1>1, <3>1 DEF IdsOK, Keys, Ids
      <3>3. QED
        BY <1>5, <3>2
    <2>3. QED
      BY <2>1, <2>2
  <1>7. QED
    BY <1>1, <1>2, <1>3, <1>5, <1>6 DEF IdsOK

\* A table has given out no fewer ids than before.
MoreIds == \A t \in Tables : lastId[t] \in Nat /\ lastId'[t] \in Nat /\ lastId[t] <= lastId'[t]

\* What has landed stays landed.
LEMMA LandedStays ==
    ASSUME MoreIds, NEW h \in Handlers, LandedOK(h, lastId)
    PROVE  LandedOK(h, lastId')
  <1>1. SUFFICES ASSUME h.call.op = "import"
                 PROVE  \A i \in DOMAIN h.landed : h.landed[i] <= lastId'[h.call.table]
    BY DEF LandedOK
  <1>2. h.call \in Calls /\ h.landed \in Seq(Ids)
    <2>1. h.call \in Calls \union {NoCall} /\ h.landed \in Seq(Ids)
      BY DEF Handlers
    <2>2. NoCall.op = ""
      BY DEF NoCall
    <2>3. QED
      BY <1>1, <2>1, <2>2
  <1>3. h.call.table \in Tables
    BY <1>2, CallFacts
  <1>4. ASSUME NEW i \in DOMAIN h.landed PROVE h.landed[i] <= lastId'[h.call.table]
    <2>1. h.landed[i] \in Nat
      BY <1>2 DEF Ids
    <2>2. h.landed[i] <= lastId[h.call.table]
      BY <1>1 DEF LandedOK
    <2>3. QED
      BY <1>3, <2>1, <2>2 DEF MoreIds
  <1>5. QED
    BY <1>4

\* A request moves on, the others stay where they are.
LEMMA ImportsMove ==
    ASSUME IInv, ImportsOK, NEW r \in Requests, NEW h, Become(r, h),
           MoreIds, IdsOK', LandedOK(h, lastId')
    PROVE  ImportsOK'
  <1>1. req' = [req EXCEPT ![r] = h] /\ req \in [Requests -> Handlers]
    BY DEF Become, IInv, RequestsOK
  <1>2. ASSUME NEW q \in Requests PROVE LandedOK(req'[q], lastId')
    <2>1. CASE q = r
      BY <1>1, <2>1
    <2>2. CASE q # r
      <3>1. req'[q] = req[q] /\ req[q] \in Handlers /\ LandedOK(req[q], lastId)
        BY <1>1, <2>2 DEF ImportsOK
      <3>2. QED
        BY <3>1, LandedStays
    <2>3. QED
      BY <2>1, <2>2
  <1>3. QED
    BY <1>2 DEF ImportsOK, LandedOK

\* No id is given out.
LEMMA SameIds ==
    ASSUME IInv, UNCHANGED lastId
    PROVE  MoreIds
  BY DEF IInv, CountsOK, MoreIds

\* No id is given out and no row appears.
LEMMA NoNewRows ==
    ASSUME IInv, IdsOK, UNCHANGED lastId, DOMAIN rows' \subseteq DOMAIN rows
    PROVE  MoreIds /\ IdsOK'
  BY SameIds DEF IdsOK

\* A request that is no import moves on.
LEMMA OtherMoves ==
    ASSUME IInv, ImportsOK, NEW r \in Requests, NEW h, Become(r, h), h.call.op # "import",
           UNCHANGED lastId, DOMAIN rows' \subseteq DOMAIN rows
    PROVE  ImportsOK'
  BY NoNewRows, ImportsMove DEF ImportsOK, LandedOK

\* A request that comes in has landed nothing.
LEMMA BeginLanded ==
    ASSUME IInv, ImportsOK, NEW r \in Requests, Begin(r)
    PROVE  ImportsOK'
  <1>1. PICK call \in Calls, u \in Users, pc \in Steps, answer \in {"none", "ok", "error"} :
            /\ Become(r, Handler(pc, call, u, 1, <<>>, answer))
            /\ answer = "ok" => call.lines = <<>>
            /\ pc = "write" => answer = "none"
    BY DEF Begin, Steps
  <1> DEFINE h == Handler(pc, call, u, 1, <<>>, answer)
  <1>2. /\ h.pc = pc /\ h.call = call /\ h.line = 1 /\ h.landed = <<>> /\ h.answer = answer
    BY DEF Handler
  <1>3. Len(call.lines) \in Nat /\ (answer = "ok" => Len(call.lines) = 0)
    BY <1>1, CallFacts
  <1> HIDE DEF h
  <1>4. LandedOK(h, lastId')
    BY <1>1, <1>2, <1>3 DEF LandedOK
  <1>5. MoreIds /\ IdsOK'
    BY NoNewRows DEF Begin, ImportsOK
  <1>6. QED
    BY <1>1, <1>4, <1>5, ImportsMove DEF h

\* A line of a file lands after those before it, or ends the import.
LEMMA ImportLineLanded ==
    ASSUME IInv, ImportsOK, NEW r \in Requests, ImportLine(r)
    PROVE  ImportsOK'
  <1> DEFINE call == req[r].call
             t == call.table
             size == Len(call.lines)
             landed == req[r].landed
  <1>1. req[r].pc = "write" /\ call.op = "import"
    BY DEF ImportLine
  <1>2. /\ call \in Calls /\ t \in Tables /\ landed \in Seq(Ids)
        /\ req[r].line \in Ids /\ req[r].line \in DOMAIN call.lines
    BY <1>1, WritingFacts
  <1>3. size \in Nat /\ req[r].line \in 1 .. size
    BY <1>2, CallFacts
  <1>4. /\ \A i \in DOMAIN landed : landed[i] <= lastId[t]
        /\ \A i, j \in DOMAIN landed : i < j => landed[i] < landed[j]
        /\ Len(landed) = req[r].line - 1
    BY <1>1 DEF ImportsOK, LandedOK
  <1>5. CASE CannotStore(r)
    <2> DEFINE h == Handler("answered", call, req[r].user, req[r].line, landed, "error")
    <2>1. Become(r, h) /\ UNCHANGED <<rows, lastId>>
      BY <1>5 DEF ImportLine, Answer
    <2>2. h.pc = "answered" /\ h.call = call /\ h.landed = landed /\ h.answer = "error"
      BY DEF Handler
    <2> HIDE DEF h
    <2>3. Len(landed) < size
      BY <1>3, <1>4
    <2>4. LandedOK(h, lastId')
      BY <1>4, <2>1, <2>2, <2>3 DEF LandedOK
    <2>5. MoreIds /\ IdsOK'
      BY <2>1, NoNewRows DEF ImportsOK
    <2>6. QED
      BY <2>1, <2>4, <2>5, ImportsMove
  <1>6. CASE ~CannotStore(r)
    <2> DEFINE id == lastId[t] + 1
               more == Landed(r)
    <2>1. InsertRow(r, t, LineValues(r)) /\ NextLine(r, more)
      BY <1>6 DEF ImportLine
    <2>2. /\ \A u \in Tables : lastId'[u] = IF u = t THEN lastId[u] + 1 ELSE lastId[u]
          /\ lastId \in [Tables -> Nat] /\ IdsOK'
      BY <1>2, <2>1, InsertedId DEF ImportsOK
    <2>3. MoreIds
      BY <2>2 DEF MoreIds
    <2>4. lastId'[t] = id /\ id \in Nat /\ lastId[t] \in Nat
      BY <1>2, <2>2
    <2>5. /\ Len(more) = Len(landed) + 1 /\ DOMAIN more = 1 .. Len(landed) + 1
          /\ more[Len(landed) + 1] = id
          /\ \A i \in 1 .. Len(landed) : more[i] = landed[i] /\ landed[i] \in Nat
          /\ DOMAIN landed = 1 .. Len(landed) /\ Len(landed) \in Nat
      <3>1. landed \in Seq(Nat) /\ more = Append(landed, id)
        BY <1>2, <2>4 DEF Ids, Landed
      <3>2. QED
        BY SMTT(30), <2>4, <3>1
    <2> HIDE DEF more, id
    <2>6. \A i \in DOMAIN more : more[i] <= lastId'[t]
      <3>1. SUFFICES ASSUME NEW i \in DOMAIN more PROVE more[i] <= lastId'[t]
        OBVIOUS
      <3>2. CASE i = Len(landed) + 1
        BY <2>4, <2>5, <3>2
      <3>3. CASE i # Len(landed) + 1
        <4>1. i \in 1 .. Len(landed)
          BY <2>5, <3>1, <3>3
        <4>2. more[i] <= lastId[t] /\ more[i] \in Nat
          BY <1>4, <2>5, <4>1
        <4>3. QED
          BY <2>4, <4>2 DEF id
      <3>4. QED
        BY <3>2, <3>3
    <2>7. \A i, j \in DOMAIN more : i < j => more[i] < more[j]
      <3>1. SUFFICES ASSUME NEW i \in DOMAIN more, NEW j \in DOMAIN more, i < j
                     PROVE  more[i] < more[j]
        OBVIOUS
      <3>2. i \in 1 .. Len(landed)
        BY <2>5, <3>1
      <3>3. CASE j = Len(landed) + 1
        <4>1. more[i] <= lastId[t] /\ more[i] \in Nat /\ more[j] = lastId[t] + 1
          BY <1>4, <2>5, <3>2, <3>3 DEF id
        <4>2. QED
          BY <2>4, <4>1
      <3>4. CASE j # Len(landed) + 1
        <4>1. j \in 1 .. Len(landed)
          BY <2>5, <3>1, <3>4
        <4>2. QED
          BY <1>4, <2>5, <3>1, <3>2, <4>1
      <3>5. QED
        BY <3>3, <3>4
    <2>8. CASE req[r].line = size
      <3> DEFINE h == Handler("answered", call, req[r].user, req[r].line, more, "ok")
      <3>1. Become(r, h)
        BY <2>1, <2>8 DEF NextLine
      <3>2. h.pc = "answered" /\ h.call = call /\ h.landed = more /\ h.answer = "ok"
        BY DEF Handler
      <3> HIDE DEF h
      <3>3. Len(more) = size
        BY <1>3, <1>4, <2>5, <2>8
      <3>4. h.pc # "write" /\ h.answer # "error"
        BY <3>2
      <3>5. LandedOK(h, lastId')
        BY <2>6, <2>7, <3>2, <3>3, <3>4 DEF LandedOK
      <3>6. QED
        BY <2>2, <2>3, <3>1, <3>5, ImportsMove
    <2>9. CASE req[r].line # size
      <3> DEFINE h == Handler("write", call, req[r].user, req[r].line + 1, more, "none")
      <3>1. Become(r, h)
        BY <2>1, <2>9 DEF NextLine
      <3>2. /\ h.pc = "write" /\ h.call = call /\ h.landed = more
            /\ h.answer = "none" /\ h.line = req[r].line + 1
        BY DEF Handler
      <3> HIDE DEF h
      <3>3. Len(more) = h.line - 1
        BY <1>3, <1>4, <2>5, <3>2
      <3>4. h.answer # "ok" /\ h.answer # "error"
        BY <3>2
      <3>5. LandedOK(h, lastId')
        BY <2>6, <2>7, <3>2, <3>3, <3>4 DEF LandedOK
      <3>6. QED
        BY <2>2, <2>3, <3>1, <3>5, ImportsMove
    <2>10. QED
      BY <2>8, <2>9
  <1>7. QED
    BY <1>5, <1>6

\* A single insert: the rows of the imports keep their ids.
LEMMA InsertLanded ==
    ASSUME IInv, ImportsOK, NEW r \in Requests, Insert(r)
    PROVE  ImportsOK'
  <1> DEFINE call == req[r].call
  <1>1. req[r].pc = "write" /\ call.op = "create"
    BY DEF Insert
  <1>2. call.table \in Tables
    BY <1>1, WritingFacts
  <1>3. PICK h : Become(r, h) /\ h.call = call
    BY DEF Insert, Answer, Handler
  <1>4. LandedOK(h, lastId')
    BY <1>1, <1>3 DEF LandedOK
  <1>5. MoreIds /\ IdsOK'
    <2>1. CASE InsertRow(r, call.table, LineValues(r))
      <3>1. /\ \A u \in Tables : lastId'[u] = IF u = call.table THEN lastId[u] + 1 ELSE lastId[u]
            /\ lastId \in [Tables -> Nat] /\ IdsOK'
        BY <1>2, <2>1, InsertedId DEF ImportsOK
      <3>2. QED
        BY <3>1 DEF MoreIds
    <2>2. CASE UNCHANGED <<rows, lastId>>
      BY <2>2, NoNewRows DEF ImportsOK
    <2>3. QED
      BY <2>1, <2>2 DEF Insert
  <1>6. QED
    BY <1>3, <1>4, <1>5, ImportsMove

\* The other statements give out no id and add no row.
LEMMA StatementLanded ==
    ASSUME IInv, ImportsOK, NEW r \in Requests,
           Update(r) \/ Delete(r) \/ ReadBack(r) \/ ResolveParentContext(r)
    PROVE  ImportsOK'
  <1> DEFINE call == req[r].call
  <1>1. call.op # "import"
    <2>1. CASE Update(r)
      BY <2>1 DEF Update
    <2>2. CASE Delete(r)
      BY <2>2 DEF Delete
    <2>3. CASE ReadBack(r) \/ ResolveParentContext(r)
      <3>1. req[r].pc = "read" \/ req[r].pc = "parent"
        BY <2>3 DEF ReadBack, ResolveParentContext
      <3>2. QED
        BY <3>1 DEF IInv, RequestsOK, RequestOK
    <2>4. QED
      BY <2>1, <2>2, <2>3
  <1>2. PICK h : Become(r, h) /\ h.call = call
    <2>1. CASE Update(r)
      BY <2>1 DEF Update, Answer, Handler
    <2>2. CASE Delete(r)
      BY <2>2 DEF Delete, Answer, Handler
    <2>3. CASE ReadBack(r)
      BY <2>3 DEF ReadBack, Answer, Handler
    <2>4. CASE ResolveParentContext(r)
      BY <2>4 DEF ResolveParentContext, Answer, GoTo, Handler
    <2>5. QED
      BY <2>1, <2>2, <2>3, <2>4
  <1>3. UNCHANGED lastId /\ DOMAIN rows' \subseteq DOMAIN rows
    <2>1. CASE Update(r)
      BY <2>1 DEF Update, Put
    <2>2. CASE Delete(r)
      BY <2>2 DEF Delete
    <2>3. CASE ReadBack(r) \/ ResolveParentContext(r)
      BY <2>3 DEF ReadBack, ResolveParentContext
    <2>4. QED
      BY SMTT(30), <2>1, <2>2, <2>3
  <1>4. QED
    BY <1>1, <1>2, <1>3, OtherMoves

LEMMA AbortLanded ==
    ASSUME IInv, ImportsOK, NEW r \in Requests, Abort(r)
    PROVE  ImportsOK'
  <1>1. Become(r, Idle) /\ UNCHANGED <<rows, lastId>>
    BY DEF Abort
  <1>2. Idle.call.op # "import"
    BY DEF Idle, Handler, NoCall
  <1>3. QED
    BY <1>1, <1>2, OtherMoves

LEMMA ImportsStep == IInv /\ ImportsOK /\ [Next]_vars => ImportsOK'
  <1> SUFFICES ASSUME IInv, ImportsOK, [Next]_vars PROVE ImportsOK'
    OBVIOUS
  <1>1. CASE UNCHANGED vars
    BY <1>1 DEF vars, ImportsOK, IdsOK, LandedOK
  <1>2. ASSUME NEW r \in Requests,
               \/ Begin(r) \/ ResolveParentContext(r)
               \/ Insert(r) \/ Update(r) \/ Delete(r) \/ ReadBack(r) \/ ImportLine(r)
               \/ Abort(r)
        PROVE  ImportsOK'
    BY <1>2, BeginLanded, InsertLanded, StatementLanded, ImportLineLanded, AbortLanded
  <1>3. QED
    BY <1>1, <1>2 DEF Next, AwaitRequest

LEMMA ImportsInit == Init => ImportsOK
  <1> SUFFICES ASSUME Init PROVE ImportsOK
    OBVIOUS
  <1>1. IdsOK
    <2>1. ASSUME NEW k \in DOMAIN rows PROVE k[2] <= lastId[k[1]]
      <3>1. rows = Loaded /\ k \in DOMAIN Loaded /\ k[1] \in Tables
        BY <2>1, LoadedRows DEF Init, Keys
      <3>2. k[2] <= Cardinality({j \in DOMAIN Loaded : j[1] = k[1]})
        BY <3>1, LoadedRows
      <3>3. QED
        BY <3>1, <3>2 DEF Init
    <2>2. QED
      BY <2>1 DEF IdsOK
  <1>2. ASSUME NEW r \in Requests PROVE LandedOK(req[r], lastId)
    <2>1. req[r] = Idle /\ Idle.call.op # "import"
      BY DEF Init, Idle, Handler, NoCall
    <2>2. QED
      BY <2>1 DEF LandedOK
  <1>3. QED
    BY <1>1, <1>2 DEF ImportsOK

-----------------------------------------------------------------------------
(* What a change touches.                                                  *)

Touches(r, k) ==
    /\ req'[r] # req[r]
    /\ <<req[r].call.table, req[r].call.id>> = k
    /\ \A c \in Columns(k[1]) : rows'[k][c] # rows[k][c] =>
           \/ c \in DOMAIN Line(r)
           \/ req[r].call.parent # 0 /\ c = ParentField[k[1]]

OnlyTouched ==
    \A k \in DOMAIN rows \intersect DOMAIN rows' :
        rows'[k] # rows[k] => \E r \in Requests : Touches(r, k)

\* The values of an update are for columns of its line, but for the parent.
LEMMA ValuesFromLine ==
    ASSUME NEW call, NEW user, NEW raw, call.op = "update",
           NEW c \in DOMAIN ValuesOf(call, user, raw)
    PROVE  c \in DOMAIN raw \/ (call.parent # 0 /\ c = ParentField[call.table])
  <1>1. c \in ColumnsSent(call, raw) \/ c \in ParentColumns(call)
    BY DEF ValuesOf, AutomaticColumns
  <1>2. CASE c \in ColumnsSent(call, raw)
    <2>1. ColumnsSent(call, raw) \subseteq DOMAIN raw
      <3>1. ApiColumns(call.table, raw) \subseteq DOMAIN raw
        BY DEF ApiColumns
      <3>2. FormColumns(call.table, raw) \subseteq DOMAIN raw
        BY DEF FormColumns
      <3>3. CsvColumns(call.table, raw) \subseteq DOMAIN raw
        BY DEF CsvColumns
      <3>4. QED
        BY <3>1, <3>2, <3>3 DEF ColumnsSent
    <2>2. QED
      BY <1>2, <2>1
  <1>3. CASE c \in ParentColumns(call)
    BY <1>3 DEF ParentColumns
  <1>4. QED
    BY <1>1, <1>2, <1>3

LEMMA InsertTouches ==
    ASSUME IInv, IdsOK, NEW r \in Requests, Insert(r) \/ ImportLine(r)
    PROVE  OnlyTouched
  <1> DEFINE t == req[r].call.table
  <1>1. req[r].pc = "write"
    BY DEF Insert, ImportLine
  <1>2. t \in Tables
    BY <1>1, WritingFacts
  <1>3. CASE InsertRow(r, t, LineValues(r))
    BY <1>2, <1>3, InsertedId DEF OnlyTouched
  <1>4. CASE UNCHANGED rows
    BY <1>4 DEF OnlyTouched
  <1>5. QED
    BY <1>3, <1>4 DEF Insert, ImportLine

LEMMA UpdateTouches ==
    ASSUME IInv, NEW r \in Requests, Update(r)
    PROVE  OnlyTouched
  <1> DEFINE call == req[r].call
             key == <<call.table, call.id>>
             values == LineValues(r)
  <1>1. req[r].pc = "write" /\ call.op = "update"
    BY DEF Update
  <1>2. CASE UNCHANGED rows
    BY <1>2 DEF OnlyTouched
  <1>3. CASE key \in DOMAIN rows /\ Put(key, ChangedRow(call.table, rows[key], values))
    <2>1. \A k \in DOMAIN rows : rows'[k] =
              IF k = key THEN ChangedRow(call.table, rows[key], values) ELSE rows[k]
      BY <1>3 DEF Put
    <2>2. PICK h : Become(r, h) /\ h.pc # "write"
      BY DEF Update, Answer, Handler
    <2>3. req'[r] # req[r]
      <3>1. req'[r] = h
        BY <2>2 DEF Become, IInv, RequestsOK
      <3>2. QED
        BY <1>1, <2>2, <3>1
    <2>4. ASSUME NEW c \in Columns(call.table), rows'[key][c] # rows[key][c]
          PROVE  c \in DOMAIN Line(r) \/ (call.parent # 0 /\ c = ParentField[call.table])
      <3>1. c \in DOMAIN values
        BY <1>3, <2>1, <2>4 DEF ChangedRow
      <3>2. QED
        BY <1>1, <3>1, ValuesFromLine DEF LineValues
    <2>5. key[1] = call.table
      OBVIOUS
    <2>6. Touches(r, key)
      BY <2>3, <2>4, <2>5 DEF Touches
    <2>7. QED
      BY <2>1, <2>6 DEF OnlyTouched
  <1>4. QED
    BY <1>2, <1>3 DEF Update

LEMMA StepTouches == IInv /\ IdsOK /\ Next => OnlyTouched
  <1> SUFFICES ASSUME IInv, IdsOK, Next PROVE OnlyTouched
    OBVIOUS
  <1>1. ASSUME NEW r \in Requests,
               Begin(r) \/ ResolveParentContext(r) \/ ReadBack(r) \/ Abort(r)
        PROVE  OnlyTouched
    BY <1>1 DEF Begin, ResolveParentContext, ReadBack, Abort, OnlyTouched
  <1>2. ASSUME NEW r \in Requests, Insert(r) \/ ImportLine(r) PROVE OnlyTouched
    BY <1>2, InsertTouches
  <1>3. ASSUME NEW r \in Requests, Update(r) PROVE OnlyTouched
    BY <1>3, UpdateTouches
  <1>4. ASSUME NEW r \in Requests, Delete(r) PROVE OnlyTouched
    BY <1>4 DEF Delete, OnlyTouched
  <1>5. CASE AwaitRequest
    BY <1>5 DEF AwaitRequest, vars, OnlyTouched
  <1>6. QED
    BY <1>1, <1>2, <1>3, <1>4, <1>5 DEF Next

-----------------------------------------------------------------------------
(* The rows that are new.                                                  *)

NewOnesKeepRules == \A k \in DOMAIN rows' \ DOMAIN rows : KeepsRules(k[1], rows'[k])

\* A creation and a line of a file come to a row of values that passed the rules.
LEMMA InsertCreates ==
    ASSUME IInv, NEW r \in Requests, Insert(r) \/ ImportLine(r)
    PROVE  NewOnesKeepRules
  <1> DEFINE call == req[r].call
             t == call.table
             values == LineValues(r)
             row == NewRow(t, values)
             id == lastId[t] + 1
  <1>1. req[r].pc = "write" /\ call.op \in {"create", "import"}
    BY DEF Insert, ImportLine
  <1>2. /\ call \in Calls /\ req[r].user \in Users /\ t \in Tables
        /\ req[r].line \in DOMAIN call.lines
        /\ call.op = "create" => ~Refuses(call, Line(r)) /\ ~Broken(r)
    BY <1>1, WritingFacts
  <1>3. CASE UNCHANGED rows
    BY <1>3 DEF NewOnesKeepRules
  <1>4. CASE /\ ~Refuses(call, Line(r)) /\ ~Broken(r) /\ Storable(t, row)
             /\ InsertRow(r, t, values)
    <2>1. IsRow(t, row)
      <3>1. ~Refuses(call, call.lines[req[r].line]) /\ call.op # "delete"
        BY <1>1, <1>4 DEF Line
      <3>2. Fits(call, req[r].user, ValuesOf(call, req[r].user, call.lines[req[r].line]))
        BY <1>2, <3>1, ValuesFit
      <3>3. Fits(call, req[r].user, values)
        BY <3>2 DEF LineValues, Line
      <3> HIDE DEF values
      <3>4. /\ DOMAIN values \subseteq Columns(t)
            /\ \A c \in DOMAIN values : values[c] \in Contents(t, c) \union {Null}
        BY <3>3 DEF Fits
      <3>5. QED
        BY <1>2, <3>4, NewRowIsRow
    <2>2. ~BreaksBusinessRules(t, values) /\ Storable(t, row)
      BY <1>4 DEF Broken
    <2>3. Put(<<t, id>>, row)
      BY <1>4 DEF InsertRow
    <2> HIDE DEF values, id
    <2>4. KeepsRules(t, row)
      BY <1>2, <2>1, <2>2, NewRowKeepsRules
    <2>5. ASSUME NEW k \in DOMAIN rows' \ DOMAIN rows PROVE k[1] = t /\ rows'[k] = row
      BY <2>3, <2>5 DEF Put
    <2>6. QED
      BY <2>4, <2>5 DEF NewOnesKeepRules
  <1>5. QED
    BY <1>2, <1>3, <1>4 DEF Insert, ImportLine, CannotStore

\* No other step makes a row.
LEMMA StepCreates == IInv /\ [Next]_vars => [NewOnesKeepRules]_vars
  <1> SUFFICES ASSUME IInv, Next PROVE NewOnesKeepRules
    OBVIOUS
  <1>1. ASSUME NEW r \in Requests, Insert(r) \/ ImportLine(r) PROVE NewOnesKeepRules
    BY <1>1, InsertCreates
  <1>2. ASSUME DOMAIN rows' \subseteq DOMAIN rows PROVE NewOnesKeepRules
    BY <1>2 DEF NewOnesKeepRules
  <1>3. ASSUME NEW r \in Requests,
               Begin(r) \/ ResolveParentContext(r) \/ ReadBack(r) \/ Abort(r)
        PROVE  NewOnesKeepRules
    BY <1>2, <1>3 DEF Begin, ResolveParentContext, ReadBack, Abort
  <1>4. ASSUME NEW r \in Requests, Update(r) PROVE NewOnesKeepRules
    BY <1>2, <1>4 DEF Update, Put
  <1>5. ASSUME NEW r \in Requests, Delete(r) PROVE NewOnesKeepRules
    BY <1>2, <1>5 DEF Delete
  <1>6. CASE AwaitRequest
    BY <1>2, <1>6 DEF AwaitRequest, vars
  <1>7. QED
    BY <1>1, <1>3, <1>4, <1>5, <1>6 DEF Next

-----------------------------------------------------------------------------
(* The theorems.                                                           *)

\* What every variable holds.
THEOREM TypeCorrect == Spec => []TypeOK
  <1>1. IInv => TypeOK
    BY DEF IInv, RowsOK, RequestsOK, CountsOK, Handlers, TypeOK
  <1>2. QED
    BY <1>1, InductiveInvariant, PTL

\* No row has an amount the business rules exclude or lacks a required value,
\* from whichever surface the writes come and however they interleave.
THEOREM RulesCorrect == Spec => []AmountsKeepRules
  <1>1. IInv => AmountsKeepRules
    BY DEF IInv, RowsOK, AmountsKeepRules
  <1>2. QED
    BY <1>1, InductiveInvariant, PTL

\* A row that is new breaks none of the business rules, those that compare two
\* columns included.
THEOREM CreationsCorrect == Spec => CreationsKeepRules
  <1>1. IInv /\ [Next]_vars => [NewOnesKeepRules]_vars
    BY StepCreates
  <1>2. Spec => [][NewOnesKeepRules]_vars
    BY <1>1, InductiveInvariant, PTL DEF Spec
  <1>3. QED
    BY <1>2, PTL DEF CreationsKeepRules, NewOnesKeepRules

\* A row names the user who made it, unless it came from a file.
THEOREM CreatorCorrect == Spec => []AttributedToCreator
  <1>1. IInv => AttributedToCreator
    BY DEF IInv, RowsOK, AttributedToCreator
  <1>2. QED
    BY <1>1, InductiveInvariant, PTL

\* An import lands the lines of its file one by one from the first, all of them
\* when it is answered with a count, fewer when with an error, whatever the
\* other requests do to the table in between.
THEOREM ImportsCorrect == Spec => []ImportLandsPrefix
  <1>1. Init => IInv /\ ImportsOK
    BY InitOK, ImportsInit
  <1>2. (IInv /\ ImportsOK) /\ [Next]_vars => (IInv /\ ImportsOK)'
    BY StepOK, ImportsStep
  <1>3. IInv /\ ImportsOK => ImportLandsPrefix
    BY DEF ImportsOK, LandedOK, ImportLandsPrefix
  <1>4. QED
    BY <1>1, <1>2, <1>3, PTL DEF Spec

\* A change touches only the columns its client sent, or the parent of its form:
\* changes of different columns of one row, side by side, are both kept.
THEOREM UntouchedCorrect == Spec => UntouchedColumnsStay
  <1>1. Init => IInv /\ ImportsOK
    BY InitOK, ImportsInit
  <1>2. (IInv /\ ImportsOK) /\ [Next]_vars => (IInv /\ ImportsOK)'
    BY StepOK, ImportsStep
  <1>3. IInv /\ ImportsOK /\ [Next]_vars => [OnlyTouched]_vars
    BY StepTouches DEF ImportsOK
  <1>4. Spec => [][OnlyTouched]_vars
    BY <1>1, <1>2, <1>3, PTL DEF Spec
  <1>5. QED
    BY <1>4, PTL DEF UntouchedColumnsStay, OnlyTouched, Touches
=============================================================================
