--------------------------- MODULE SigningControl ---------------------------
(***************************************************************************)
(* What the signing control promises, without requests, statements or      *)
(* lines: an order is open, approved or rejected; it leaves "open" only by  *)
(* a decision of a user whose signing limit covers the order's total, and   *)
(* the decision is answered.  Everything else may only take a decided       *)
(* order back to "open" (the other transitions are free).                  *)
(***************************************************************************)
EXTENDS Integers, Sequences

CONSTANTS Orders, Users, Limits, Totals, DecidedStatuses

VARIABLES
  standing,   \* "open", or the outcome of the decision in force
  decisions   \* the decisions answered for each order, oldest first

signingVars == <<standing, decisions>>

Init ==
  /\ standing = [o \in Orders |-> "open"]
  /\ decisions = [o \in Orders |-> << >>]

\* DecidePurchaseOrder, seen from outside.
Decide(o) ==
  /\ standing[o] = "open"
  /\ \E u \in Users, s \in DecidedStatuses, total \in Totals, limit \in Limits :
       /\ limit > 0
       /\ total <= limit
       /\ standing' = [standing EXCEPT ![o] = s]
       /\ decisions' = [decisions EXCEPT ![o] = Append(@,
            [user |-> u, status |-> s, total |-> total, limit |-> limit])]

\* A status change or a deletion ends the standing of a decided order.
Reopen(o) ==
  /\ standing[o] # "open"
  /\ standing' = [standing EXCEPT ![o] = "open"]
  /\ UNCHANGED decisions

Next == \E o \in Orders : Decide(o) \/ Reopen(o)

Spec == Init /\ [][Next]_signingVars
=============================================================================
