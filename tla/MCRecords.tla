----------------------------- MODULE MCRecords -----------------------------
(* Small instance of Records for TLC. *)
EXTENDS Records, TLC

CONSTANTS a, b, ann, guest

Symmetric == Permutations(Requests)

MCNumbers == {-1, 0, 5}
MCRoles == ann :> "user" @@ guest :> "guest"

Api(op, table, id, lines) ==
    [surface |-> "api", op |-> op, table |-> table, id |-> id, parent |-> 0, lines |-> lines]
Form(op, table, id, parent, line) ==
    [surface |-> "form", op |-> op, table |-> table, id |-> id, parent |-> parent, lines |-> <<line>>]
Csv(table, lines) ==
    [surface |-> "csv", op |-> "import", table |-> table, id |-> 0, parent |-> 0, lines |-> lines]

Move(doc, src, dst) ==
    [stm_doc_number |-> doc, stm_src_loc_id |-> src, stm_dst_loc_id |-> dst]

MoveForm(doc, src, dst) ==
    [stm_doc_number |-> doc, stm_src_loc_id |-> src, stm_dst_loc_id |-> dst, adj_id |-> Blank,
     usr_id |-> Blank]

Obligation(label, amount) == [fob_label |-> label, fob_amount_minor |-> amount]

MCCalls ==
    {Api("create", "stock_moves", 0, <<Move(a, src, 2)>>) : src \in {2, Null, Blank, Bad}}
    \union {Api("update", "stock_moves", 1, <<line>>) : line \in
        {[stm_dst_loc_id |-> 1], [stm_src_loc_id |-> 2], [stm_src_loc_id |-> 2, stm_dst_loc_id |-> Null],
         [stm_doc_number |-> Blank], [stm_doc_number |-> b, usr_id |-> guest], [adj_id |-> 1],
         <<>>}}
    \union {Form("update", "stock_moves", 1, 0, MoveForm(doc, 2, 1)) : doc \in {Blank, b}}
    \union {Form("create", "stock_moves", 0, 0, MoveForm(a, 1, Blank))}
    \union {Csv("stock_moves", <<Move(Blank, 1, 2), [usr_id |-> guest] @@ Move(a, 2, 1), Move(b, src, 2)>>) :
                src \in {1, 2}}
    \union {Csv("stock_moves", <<>>)}
    \union {Api("create", "financial_obligations", 0, <<Obligation(a, n)>>) : n \in {5, -1, Null}}
    \union {Api("update", "financial_obligations", 1, <<[fob_amount_minor |-> 0]>>)}
    \union {Csv("financial_obligations", <<Obligation(a, 5), Obligation(b, 0)>>)}
    \union {Csv("bank_transactions", <<[btx_amount_minor |-> 5], [btx_amount_minor |-> Bad]>>)}
    \union {Api("create", "bank_transactions", 0, <<[btx_amount_minor |-> -1, fob_id |-> 1]>>)}
    \union {Form("create", "adjustment_components", 0, 1, [adj_id |-> Blank, loc_id |-> 1])}
    \union {Api("create", "adjustment_components", 0, <<[loc_id |-> 2]>>)}
    \union {Api("delete", table, 1, <<>>) :
                table \in {"stock_moves", "locations", "adjustments", "financial_obligations"}}

MCLoaded ==
    <<"locations", 1>> :> [loc_name |-> a, usr_id |-> ann]
    @@ <<"locations", 2>> :> [loc_name |-> b, usr_id |-> ann]
    @@ <<"adjustments", 1>> :> [adj_doc_number |-> a, usr_id |-> ann]
    @@ <<"stock_moves", 1>> :> [stm_doc_number |-> a, usr_id |-> ann,
                                stm_src_loc_id |-> 1, stm_dst_loc_id |-> 2, adj_id |-> Null]
    @@ <<"financial_obligations", 1>> :> [fob_label |-> a, fob_amount_minor |-> 5, usr_id |-> ann]
=============================================================================
