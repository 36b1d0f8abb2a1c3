------------------------------ MODULE MCStore ------------------------------
(* The store on small instances: its database is opened, then served.      *)
EXTENDS MCStoreInit, MCRecords

StoreVars == <<openVars, vars>>

\* One of the ways a start ends: an empty file became a database at once.  The
\* tables of Records are none that an older version had otherwise.
EmptyAtFirst == At("ready") /\ old.orders = NoRows /\ users # {"admin"} /\ stops = 0

NobodyServed == started = 0

StoreInitially == OpenInit /\ Init

\* Requests come when the server serves.  What Open made of an older database
\* makes no difference to the tables of Records, so they are served after the
\* shortest way there.
StoreNext ==
    \/ NobodyServed /\ OpenNext /\ UNCHANGED vars
    \/ EmptyAtFirst /\ Next /\ UNCHANGED openVars

StoreSpec == StoreInitially /\ [][StoreNext]_StoreVars /\ WF_openVars(InitStep)
=============================================================================
