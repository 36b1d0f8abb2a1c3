-------------------------- MODULE SessionLifetimes --------------------------
(***************************************************************************)
(* What the session manager of StockIt promises about its tokens, without  *)
(* maps, clocks, users or requests: a token is given out at most once, at  *)
(* most MaxSessions tokens are good at any moment, and a token that has    *)
(* gone bad (idle for too long, logged out, server restarted) never gets   *)
(* good again.  Accounts is shown to implement this.                       *)
(***************************************************************************)
EXTENDS Naturals, FiniteSets

CONSTANTS
    Tokens,         \* the values a session token may take
    MaxSessions     \* how many sessions may be open at a time

VARIABLES
    fresh,          \* tokens never given out
    good            \* tokens that open the door

vars == <<fresh, good>>

Init ==
    /\ fresh = Tokens
    /\ good = {}

\* A login gets a token nobody had before, while there is room.
Open(t) ==
    /\ t \in fresh
    /\ Cardinality(good) < MaxSessions
    /\ fresh' = fresh \ {t}
    /\ good' = good \union {t}

\* Tokens go bad, one (logout), some (idle time) or all (restart).
Close ==
    /\ good' \subseteq good
    /\ UNCHANGED fresh

Next == Close \/ \E t \in Tokens : Open(t)

Spec == Init /\ [][Next]_vars
=============================================================================
