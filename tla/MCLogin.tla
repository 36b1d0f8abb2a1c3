------------------------------ MODULE MCLogin ------------------------------
(* The throttle in front of the logins, and what is behind it, on small    *)
(* instances.                                                              *)
EXTENDS MCAccounts, LoginLimiter

LoginInit == Init /\ LimiterInit

\* A login that is turned away by the throttle or fails on its password leaves
\* no trace in Accounts, and one that succeeds is any of those the throttle has
\* let through.  So nothing is lost by looking at the attempts before the first
\* login, and at the sessions after it.
LoginNext ==
    \/ sessions = [t \in {} |-> Idle("none")] /\ issued = {} /\ restarts = 0
       /\ \A r \in Requests : Free(r)
       /\ LimiterNext /\ UNCHANGED vars
    \/ LimiterInit /\ Next /\ UNCHANGED limiterVars

LoginSpec == LoginInit /\ [][LoginNext]_<<vars, limiterVars>> /\ Fairness
=============================================================================
