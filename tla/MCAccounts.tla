----------------------------- MODULE MCAccounts -----------------------------
(* Accounts on small instances. *)
EXTENDS Accounts

\* The tables the server starts with.
TwoAdmins == <<"admin", "admin">>
OneAdmin == <<"admin">>
=============================================================================
