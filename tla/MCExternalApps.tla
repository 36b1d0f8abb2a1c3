--------------------------- MODULE MCExternalApps ---------------------------
(* Small instances of ExternalApps for TLC. *)
EXTENDS ExternalApps

CONSTANTS h1, h2, t1, t2

\* Every period, from the beginning and around the end of a month on.
MCRequests ==
    [first : {2023, 2024} \X (1..12) \X {1, 28}, period : DOMAIN MonthsPerPeriod, count : {2}]
    \union [first : {2024} \X {2} \X {29}, period : DOMAIN MonthsPerPeriod, count : {13}]
    \union [first : {2024} \X {1, 3, 8, 12} \X {30, 31}, period : DOMAIN MonthsPerPeriod, count : {13}]

\* Two accounts of two currencies; obligations of either, or of a third one,
\* due before, on and after the day of the report, at its end and beyond.
MCObligations ==
    [type : {"payable", "receivable"}, status : {"open"}, due : 1..5, currency : {"EUR"}, amount : {3}]
    \union [type : {"payable", "other"}, status : {"open", "paid"}, due : {2, 4}, currency : {"USD"}, amount : {5}]
    \union [type : {"receivable", "other"}, status : {"open"}, due : {3}, currency : {"TWD"}, amount : {7}]

MCLedgers ==
    [accounts : {<<"EUR", "EUR", "USD">>},
     transactions : {<<[account |-> 1, date |-> 1, amount |-> 20], [account |-> 2, date |-> 3, amount |-> -1],
                       [account |-> 9, date |-> 1, amount |-> 4], [account |-> 3, date |-> 2, amount |-> 2]>>},
     obligations : [{1, 2} -> MCObligations],
     asOf : {2}, through : {2, 4}]
    \union
    [accounts : {<<"EUR">>}, transactions : {<<>>}, obligations : [1..3 -> [type : {"payable", "receivable"},
         status : {"open"}, due : 1..3, currency : {"EUR"}, amount : {3}]],
     asOf : {2}, through : {3}]
=============================================================================
