------------------------------ MODULE MCServer ------------------------------
(* Small instance of Server for TLC. *)
EXTENDS Server

MCSpecs == <<"http", "https">>
=============================================================================
