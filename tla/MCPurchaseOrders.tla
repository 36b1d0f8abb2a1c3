-------------------------- MODULE MCPurchaseOrders --------------------------
(* Small instances of PurchaseOrders for TLC. *)
EXTENDS PurchaseOrders

CONSTANTS r1, r2, alice, bob

\* The smallest total of an instance: the width of int64 cut down.
MCMinMinor == -MaxMinor - 1
=============================================================================
