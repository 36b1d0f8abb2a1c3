------------------------------ MODULE Forecast ------------------------------
(***************************************************************************)
(* The forecast of the cash flow app (buildCashflow): the balances of the  *)
(* accounts on a day, and what the open obligations make of them up to     *)
(* another day.  A ledger has the rows the report has read, by id, and     *)
(* the two days; a day is a number.  Amounts and sums are whole numbers of *)
(* any size: the code has them in an int64, and reads them from JSON, so   *)
(* what is said here holds of it while they fit.                           *)
(***************************************************************************)
EXTENDS Integers, Sequences, FiniteSets, Functions

\* What a report can have read: finitely many rows, whose amounts and days
\* are whole numbers; an obligation is not below zero (validateBusinessRules),
\* and the period does not end before it begins (reportDates).
Ledger(ledger) ==
    /\ \A table \in {"accounts", "transactions", "obligations"} : IsFiniteSet(DOMAIN ledger[table])
    /\ \A t \in DOMAIN ledger.transactions :
           ledger.transactions[t].amount \in Int /\ ledger.transactions[t].date \in Int
    /\ \A o \in DOMAIN ledger.obligations :
           ledger.obligations[o].amount \in Nat /\ ledger.obligations[o].due \in Int
    /\ ledger.asOf \in Int /\ ledger.through \in Int
    /\ ledger.asOf <= ledger.through

Amounts(table) == [id \in DOMAIN table |-> table[id].amount]

\* Transactions of known accounts up to the day count.
Balance(ledger, a) ==
    SumFunctionOnSet(Amounts(ledger.transactions),
        {t \in DOMAIN ledger.transactions :
            /\ ledger.transactions[t].account = a
            /\ ledger.transactions[t].date <= ledger.asOf})

AccountsIn(ledger, currency) == {a \in DOMAIN ledger.accounts : ledger.accounts[a] = currency}

Opening(ledger, currency) ==
    SumFunction([a \in AccountsIn(ledger, currency) |-> Balance(ledger, a)])

\* Mutant: what is due today is overdue.
OverdueToday(ledger, o) == ledger.obligations[o].due <= ledger.asOf

Overdue(ledger, o) == ledger.obligations[o].due < ledger.asOf

ForecastDate(ledger, o) == IF Overdue(ledger, o) THEN ledger.asOf ELSE ledger.obligations[o].due

\* The obligations the loop gets as far as giving their currency an event.
Considered(ledger) ==
    {o \in DOMAIN ledger.obligations :
        /\ ledger.obligations[o].status \notin {"paid", "cancelled"}
        /\ ledger.obligations[o].amount > 0
        /\ ForecastDate(ledger, o) <= ledger.through}

\* Of those only payables and receivables are added to it.
Entered(ledger, currency) ==
    {o \in Considered(ledger) :
        /\ ledger.obligations[o].currency = currency
        /\ ledger.obligations[o].type \in {"payable", "receivable"}}

\* The key of an event: its day, what is overdue first.
Key(ledger, o) == <<ForecastDate(ledger, o), IF Overdue(ledger, o) THEN 0 ELSE 1>>
Before(k1, k2) == k1[1] < k2[1] \/ (k1[1] = k2[1] /\ k1[2] < k2[2])

Sorted(keys) ==
    CHOOSE s \in [1..Cardinality(keys) -> keys] : \A i, j \in DOMAIN s : i < j => Before(s[i], s[j])

Dates(ledger, currency) == Sorted({Key(ledger, o) : o \in Entered(ledger, currency)})

\* What an event adds up to for one type of obligation.
Total(ledger, currency, key, type) ==
    SumFunctionOnSet(Amounts(ledger.obligations),
        {o \in Entered(ledger, currency) :
            Key(ledger, o) = key /\ ledger.obligations[o].type = type})

Currencies(ledger) ==
    {ledger.accounts[a] : a \in DOMAIN ledger.accounts}
    \union {ledger.obligations[o].currency : o \in Considered(ledger)}

\* The balance each event leaves, the opening balance before the first.
Projected(ledger, currency) ==
    LET dates == Dates(ledger, currency)
        projected[i \in 0 .. Len(dates)] ==
            IF i = 0 THEN Opening(ledger, currency)
            ELSE projected[i - 1] + Total(ledger, currency, dates[i], "receivable")
                                  - Total(ledger, currency, dates[i], "payable")
    IN projected

\* The rows of the forecast of one currency.
ForecastOf(ledger, currency) ==
    LET dates == Dates(ledger, currency)
    IN [i \in DOMAIN dates |->
           [date |-> dates[i][1], overdue |-> dates[i][2] = 0,
            payable |-> Total(ledger, currency, dates[i], "payable"),
            receivable |-> Total(ledger, currency, dates[i], "receivable"),
            projected |-> Projected(ledger, currency)[i]]]

-----------------------------------------------------------------------------
(* What a forecast should say, from the due dates alone.                   *)

Signed(ledger) ==
    [o \in DOMAIN ledger.obligations |->
        CASE ledger.obligations[o].type = "receivable" -> ledger.obligations[o].amount
          [] ledger.obligations[o].type = "payable" -> 0 - ledger.obligations[o].amount
          [] OTHER -> 0]

\* What is open of a currency and due by a day.
OpenBy(ledger, currency, day) ==
    {o \in DOMAIN ledger.obligations :
        /\ ledger.obligations[o].currency = currency
        /\ ledger.obligations[o].status \notin {"paid", "cancelled"}
        /\ ledger.obligations[o].due <= day}

Held(ledger, currency) ==
    SumFunctionOnSet(Amounts(ledger.transactions),
        {t \in DOMAIN ledger.transactions :
            /\ ledger.transactions[t].date <= ledger.asOf
            /\ ledger.transactions[t].account \in AccountsIn(ledger, currency)})

\* The money there is and all that is due by a day.
Expected(ledger, currency, day) ==
    Held(ledger, currency) + SumFunctionOnSet(Signed(ledger), OpenBy(ledger, currency, day))

\* Every row's balance is what is expected by the row's own day, what is
\* overdue alone in the first row; the last balance has everything up to the
\* end of the period in it.
AddsUp(ledger) ==
    \A currency \in Currencies(ledger) :
        LET forecast == ForecastOf(ledger, currency)
            last == IF forecast = <<>> THEN Opening(ledger, currency)
                    ELSE forecast[Len(forecast)].projected
        IN /\ \A i \in DOMAIN forecast :
                  forecast[i].projected =
                      Expected(ledger, currency,
                               IF forecast[i].overdue THEN ledger.asOf - 1 ELSE forecast[i].date)
           /\ last = Expected(ledger, currency, ledger.through)
=============================================================================
