---------------------------- MODULE ServerProofs ----------------------------
(***************************************************************************)
(* What is proved of Server: types, that the pair of files fits unless its *)
(* writing was cut short, that the exit status is true, and that requests  *)
(* are given their grace.                                                  *)
(***************************************************************************)
EXTENDS Server, TLAPS

-----------------------------------------------------------------------------
(* The inductive invariant, in parts.                                 *)

\* The types, flags apart.
Flags ==
    /\ signalled \in BOOLEAN /\ cancelled \in BOOLEAN /\ runErr \in BOOLEAN /\ expired \in BOOLEAN
    /\ old \in BOOLEAN /\ cut \in BOOLEAN /\ failed \in BOOLEAN

Shapes ==
    /\ proc \in Phases
    /\ lst \in [Listeners -> {"off", "starting", "serving", "stopped", "failed", "heard"}]
    /\ closing \in [Listeners -> BOOLEAN]
    /\ sd \in 0 .. Len(Specs) + 1
    /\ req \in [Requests -> Works]
    /\ conn \in Requests \union {NoRequest}
    /\ cert \in Files /\ key \in Files
    /\ exit \in {"none", "clean", "error", "killed"}

Counts == starts \in Nat /\ mishaps \in Nat /\ accepts \in Nat

\* A request that is there has a listener and statements left.
WorkOK ==
    \A r \in Requests :
        req[r] # NoWork => req[r].on \in Listeners /\ req[r].left # <<>> /\ req[r].at # "idle"

\* While the pair is written, and once it is in use.
PairOK ==
    /\ PairMatches
    /\ proc \in {"torn cert", "key", "torn key"} => cut
    /\ proc \in {"key", "torn key"} => cert = File("whole", starts)
    /\ proc = "running" /\ UsesTLS => cert.is = "whole" /\ key.is # "none"

\* What is known of failures at each point of a life.
LifeOK ==
    /\ ExitIsTruthful
    /\ exit # "none" => proc = "down"
    /\ proc = "down" => ~runErr /\ \A l \in Listeners : lst[l] = "off"
    /\ runErr => failed
    /\ \A l \in Listeners : lst[l] = "failed" => failed
    /\ proc \notin {"down", "running"} => ~failed
    /\ proc = "running" /\ failed => runErr \/ \E l \in Listeners : lst[l] = "failed"

\* The shutdown goroutine is past a listener only when nobody is on it, or when
\* the deadline passed.
GraceOK ==
    /\ \A l \in Listeners : l <= sd => closing[l]
    /\ ~expired => \A r \in Requests, l \in Listeners : l < sd => req[r].on # l

IInv == Flags /\ Shapes /\ Counts /\ WorkOK /\ PairOK /\ LifeOK /\ GraceOK

\* The listeners are numbered.
LEMMA SpecsFacts == Len(Specs) \in Nat /\ Listeners \subseteq Nat \ {0}
  BY ServerInputs DEF Listeners

\* One past the end of a range is in the next one.
LEMMA OneMore == ASSUME NEW n \in Nat, NEW i \in 0 .. n PROVE i + 1 \in 0 .. n + 1
  OBVIOUS

\* What an ended process leaves of the variables.
LEMMA Blanks ==
    ASSUME Blank
    PROVE  /\ signalled' = FALSE /\ cancelled' = FALSE /\ expired' = FALSE
           /\ runErr' = FALSE /\ lst' = [l \in Listeners |-> "off"]
           /\ closing' = [l \in Listeners |-> FALSE] /\ sd' = 0
           /\ req' = [r \in Requests |-> NoWork] /\ conn' = NoRequest
  BY DEF Blank

\* Its types.
LEMMA BlankTypes ==
    ASSUME Blank
    PROVE  /\ lst' \in [Listeners -> {"off", "starting", "serving", "stopped", "failed", "heard"}]
           /\ closing' \in [Listeners -> BOOLEAN]
           /\ sd' \in 0 .. Len(Specs) + 1
           /\ req' \in [Requests -> Works]
           /\ conn' \in Requests \union {NoRequest}
  <1>1. NoWork \in Works
    BY DEF NoWork, Work, Works
  <1>2. lst' \in [Listeners -> {"off", "starting", "serving", "stopped", "failed", "heard"}]
    BY Blanks
  <1>3. closing' \in [Listeners -> BOOLEAN]
    BY Blanks
  <1>4. sd' \in 0 .. Len(Specs) + 1
    BY Blanks, SpecsFacts
  <1>5. req' \in [Requests -> Works] /\ conn' \in Requests \union {NoRequest}
    BY <1>1, Blanks
  <1>6. QED
    BY <1>2, <1>3, <1>4, <1>5

\* An ended process has nothing to be graceful about.
LEMMA BlankGrace ==
    ASSUME Blank
    PROVE  GraceOK' /\ WorkOK'
  <1>1. \A l \in Listeners : ~(l <= 0) /\ ~(l < 0)
    BY SpecsFacts
  <1>2. QED
    BY <1>1, Blanks DEF GraceOK, WorkOK

\* A request that moves on: it is done, or has statements left on its listener.
LEMMA RequestMoves ==
    ASSUME Shapes, WorkOK, NEW r \in Requests, Acquire(r) \/ Execute(r) \/ GiveUp(r)
    PROVE  \E w \in Works :
               /\ req' = [req EXCEPT ![r] = w]
               /\ w # NoWork => /\ w.on = req[r].on /\ w.on \in Listeners
                               /\ w.left # <<>> /\ w.at # "idle"
  <1>1. NoWork \in Works
    BY DEF NoWork, Work, Works
  <1>2. req[r] \in Works /\ req[r].left \in Seq(Kinds)
    BY DEF Shapes, Works
  <1>3. req[r].at # "idle" => req[r].on \in Listeners /\ req[r].left # <<>>
    BY DEF WorkOK, NoWork, Work
  <1>4. ASSUME NEW left \in Seq(Kinds), NEW at \in {"asks", "runs"},
               left # <<>>, req[r].on \in Listeners
        PROVE  LET w == Work(req[r].on, left, at) IN
               w \in Works /\ w.on = req[r].on /\ w.left # <<>> /\ w.at # "idle"
    BY <1>4 DEF Work, Works
  <1>5. CASE Acquire(r)
    <2>1. \/ req' = [req EXCEPT ![r] = NoWork]
          \/ req' = [req EXCEPT ![r] = Work(req[r].on, req[r].left, "runs")]
      BY <1>5 DEF Acquire
    <2>2. req[r].at # "idle"
      BY <1>5 DEF Acquire
    <2>3. QED
      BY <1>1, <1>2, <1>3, <1>4, <2>1, <2>2
  <1>6. CASE Execute(r)
    <2> DEFINE left == Tail(req[r].left)
    <2>1. req' = [req EXCEPT ![r] =
                     IF left = <<>> THEN NoWork ELSE Work(req[r].on, left, NextAt(left))]
      BY <1>6 DEF Execute
    <2>2. req[r].at # "idle"
      BY <1>6 DEF Execute
    <2>3. left \in Seq(Kinds)
      BY <1>2, <1>3, <2>2
    <2>4. left # <<>> => NextAt(left) \in {"asks", "runs"}
      BY DEF NextAt
    <2> HIDE DEF left
    <2>5. CASE left = <<>>
      BY <1>1, <2>1, <2>5
    <2>6. CASE left # <<>>
      BY <1>3, <1>4, <2>1, <2>2, <2>3, <2>4, <2>6
    <2>7. QED
      BY <2>5, <2>6
  <1>7. CASE GiveUp(r)
    BY <1>1, <1>7 DEF GiveUp
  <1>8. QED
    BY <1>5, <1>6, <1>7

\* A request that is accepted.
LEMMA RequestComes ==
    ASSUME Shapes, NEW r \in Requests, NEW l \in Listeners, Accept(r, l)
    PROVE  \E w \in Works : /\ req' = [req EXCEPT ![r] = w]
                            /\ w.on = l /\ w.left # <<>> /\ w.at # "idle"
  <1>1. PICK p \in DOMAIN Programs : req' = [req EXCEPT ![r] = Work(l, Programs[p], "asks")]
    BY DEF Accept
  <1>2. Programs[p] \in Seq(Kinds) /\ Programs[p] # <<>>
    <2>1. CASE p = "create"
      <3>1. Programs[p] = <<"pool", "pool">>
        BY <2>1 DEF Programs
      <3>2. QED
        BY <3>1 DEF Kinds
    <2>2. CASE p = "decide"
      <3>1. Programs[p] = <<"pool", "begin", "tx", "commit">>
        BY <2>2 DEF Programs
      <3>2. QED
        BY <3>1 DEF Kinds
    <2>3. QED
      BY <2>1, <2>2 DEF Programs
  <1>3. Work(l, Programs[p], "asks") \in Works
    BY <1>2 DEF Work, Works
  <1>4. QED
    BY <1>1, <1>2, <1>3 DEF Work

\* The flags.
LEMMA FlagStep ==
    ASSUME Flags, [Next]_vars
    PROVE  Flags'
  <1> USE DEF Flags
  <1>1. CASE Start
    BY <1>1 DEF Start, life, work, files
  <1>2. CASE Open
    BY <1>2, Blanks DEF Open, files, work, bounds, life
  <1>3. CASE Certify
    BY <1>3 DEF Certify, work, files, bounds
  <1>4. CASE WritePair
    BY <1>4 DEF WritePair, Torn, File, work, bounds
  <1>5. CASE CancelRun
    BY <1>5 DEF CancelRun, work, files, bounds
  <1>6. CASE Return
    BY <1>6, Blanks DEF Return, Leave, Ends, life, work, files, bounds, Leave, Ends
  <1>7. CASE CloseStore
    BY <1>7, Blanks DEF CloseStore, Ends, life, work, files, bounds
  <1>8. ASSUME NEW l \in Listeners, Hear(l)
        PROVE  Flags'
    BY <1>8 DEF Hear, Lst, Returned, work, files, bounds
  <1>9. CASE WriteFails
    BY <1>9, Blanks DEF WriteFails, files
  <1>10. ASSUME NEW l \in Listeners, Listen(l)
        PROVE  Flags'
    BY <1>10 DEF Listen, Lst, PairLoads, work, files, bounds
  <1>11. ASSUME NEW l \in Listeners, ServeReturns(l)
        PROVE  Flags'
    BY <1>11 DEF ServeReturns, Lst, work, files, bounds
  <1>12. ASSUME NEW l \in Listeners, ListenerFails(l)
        PROVE  Flags'
    BY <1>12 DEF ListenerFails, Lst, work, files
  <1>13. CASE Shutdown
    BY <1>13 DEF Shutdown, work, files, bounds
  <1>14. CASE Deadline
    BY <1>14 DEF Deadline, work, files, bounds
  <1>15. ASSUME NEW r \in Requests, NEW l \in Listeners, Accept(r, l)
        PROVE  Flags'
    BY <1>15 DEF Accept, life, files
  <1>16. ASSUME NEW r \in Requests, Acquire(r)
        PROVE  Flags'
    BY <1>16 DEF Acquire, life, files, bounds
  <1>17. ASSUME NEW r \in Requests, Execute(r)
        PROVE  Flags'
    BY <1>17 DEF Execute, life, files, bounds
  <1>18. ASSUME NEW r \in Requests, GiveUp(r)
        PROVE  Flags'
    BY <1>18 DEF GiveUp, life, files, bounds
  <1>19. CASE Signal
    BY <1>19 DEF Signal, work, files, bounds
  <1>20. CASE Kill
    BY <1>20, Blanks DEF Kill, files
  <1>21. CASE Age
    BY <1>21 DEF Age, life, work, bounds
  <1>22. CASE Remove
    BY <1>22 DEF Remove, life, work, NoFile, File, bounds
  <1>23. CASE UNCHANGED vars
    BY <1>23 DEF vars, life, work, files, bounds
  <1>24. QED
    BY <1>1, <1>2, <1>3, <1>4, <1>5, <1>6, <1>7, <1>8, <1>9, <1>10, <1>11, <1>12, <1>13,
       <1>14, <1>15, <1>16, <1>17, <1>18, <1>19, <1>20, <1>21, <1>22, <1>23 DEF Next, Main,
       ListenerRuns, Rest

\* The counters.
LEMMA CountStep ==
    ASSUME Counts, [Next]_vars
    PROVE  Counts'
  <1> USE DEF Counts
  <1>1. CASE Start
    BY <1>1 DEF Start, life, work, files
  <1>2. CASE Open
    BY <1>2 DEF Open, files, work, bounds, life
  <1>3. CASE Certify
    BY <1>3 DEF Certify, work, files, bounds
  <1>4. CASE WritePair
    BY <1>4 DEF WritePair, Torn, File, work, bounds
  <1>5. CASE CancelRun
    BY <1>5 DEF CancelRun, work, files, bounds
  <1>6. CASE Return
    BY <1>6 DEF Return, Leave, Ends, life, work, files, bounds
  <1>7. CASE CloseStore
    BY <1>7 DEF CloseStore, Ends, life, work, files, bounds
  <1>8. ASSUME NEW l \in Listeners, Hear(l)
        PROVE  Counts'
    BY <1>8 DEF Hear, Lst, Returned, work, files, bounds
  <1>9. CASE WriteFails
    <2>1. mishaps' = mishaps + 1 /\ UNCHANGED <<starts, accepts>>
      BY <1>9 DEF WriteFails
    <2>2. QED
      BY <2>1
  <1>10. ASSUME NEW l \in Listeners, Listen(l)
        PROVE  Counts'
    BY <1>10 DEF Listen, Lst, PairLoads, work, files, bounds
  <1>11. ASSUME NEW l \in Listeners, ServeReturns(l)
        PROVE  Counts'
    BY <1>11 DEF ServeReturns, Lst, work, files, bounds
  <1>12. ASSUME NEW l \in Listeners, ListenerFails(l)
        PROVE  Counts'
    BY <1>12 DEF ListenerFails, Lst, work, files
  <1>13. CASE Shutdown
    BY <1>13 DEF Shutdown, work, files, bounds
  <1>14. CASE Deadline
    BY <1>14 DEF Deadline, work, files, bounds
  <1>15. ASSUME NEW r \in Requests, NEW l \in Listeners, Accept(r, l)
        PROVE  Counts'
    BY <1>15 DEF Accept, life, files
  <1>16. ASSUME NEW r \in Requests, Acquire(r)
        PROVE  Counts'
    BY <1>16 DEF Acquire, life, files, bounds
  <1>17. ASSUME NEW r \in Requests, Execute(r)
        PROVE  Counts'
    BY <1>17 DEF Execute, life, files, bounds
  <1>18. ASSUME NEW r \in Requests, GiveUp(r)
        PROVE  Counts'
    BY <1>18 DEF GiveUp, life, files, bounds
  <1>19. CASE Signal
    BY <1>19 DEF Signal, work, files, bounds
  <1>20. CASE Kill
    BY <1>20 DEF Kill, files
  <1>21. CASE Age
    BY <1>21 DEF Age, life, work, bounds
  <1>22. CASE Remove
    BY <1>22 DEF Remove, life, work, NoFile, File, bounds
  <1>23. CASE UNCHANGED vars
    BY <1>23 DEF vars, life, work, files, bounds
  <1>24. QED
    BY <1>1, <1>2, <1>3, <1>4, <1>5, <1>6, <1>7, <1>8, <1>9, <1>10, <1>11, <1>12, <1>13,
       <1>14, <1>15, <1>16, <1>17, <1>18, <1>19, <1>20, <1>21, <1>22, <1>23 DEF Next, Main,
       ListenerRuns, Rest

\* The other types.
LEMMA ShapeStep ==
    ASSUME Shapes, WorkOK, Counts, [Next]_vars
    PROVE  Shapes'
  <1> USE DEF Shapes, Phases
  <1>1. CASE Start
    BY <1>1 DEF Start, life, work, files
  <1>2. CASE Open
    BY <1>2, BlankTypes DEF Open, files, work, bounds, life
  <1>3. CASE Certify
    BY <1>3 DEF Certify, work, files, bounds
  <1>4. CASE WritePair
    <2>1. Torn \in Files /\ File("whole", starts) \in Files
      BY DEF Counts, Torn, File, Files
    <2>2. lst' \in [Listeners -> {"off", "starting", "serving", "stopped", "failed", "heard"}]
      BY <1>4 DEF WritePair
    <2>3. cert' \in Files /\ key' \in Files
      BY <1>4, <2>1 DEF WritePair
    <2>4. QED
      BY <1>4, <2>2, <2>3 DEF WritePair, work
  <1>5. CASE CancelRun
    BY <1>5 DEF CancelRun, work, files, bounds
  <1>6. CASE Return
    BY <1>6, BlankTypes DEF Return, Leave, Ends, life, work, files, bounds
  <1>7. CASE CloseStore
    BY <1>7, BlankTypes DEF CloseStore, Ends, life, work, files, bounds
  <1>8. ASSUME NEW l \in Listeners, Hear(l)
        PROVE  Shapes'
    BY <1>8 DEF Hear, Lst, Returned, work, files, bounds
  <1>9. CASE WriteFails
    BY <1>9, BlankTypes DEF WriteFails, files
  <1>10. ASSUME NEW l \in Listeners, Listen(l)
        PROVE  Shapes'
    BY <1>10 DEF Listen, Lst, PairLoads, work, files, bounds
  <1>11. ASSUME NEW l \in Listeners, ServeReturns(l)
        PROVE  Shapes'
    BY <1>11 DEF ServeReturns, Lst, work, files, bounds
  <1>12. ASSUME NEW l \in Listeners, ListenerFails(l)
        PROVE  Shapes'
    BY <1>12 DEF ListenerFails, Lst, work, files
  <1>13. CASE Shutdown
    <2>1. sd \in 0 .. Len(Specs) /\ sd' = sd + 1
      BY <1>13, SpecsFacts DEF Shutdown, Listeners
    <2>2. sd' \in 0 .. Len(Specs) + 1
      BY <2>1, SpecsFacts, OneMore
    <2>3. closing' \in [Listeners -> BOOLEAN]
      BY <1>13 DEF Shutdown
    <2>4. QED
      BY <1>13, <2>2, <2>3 DEF Shutdown, work, files
  <1>14. CASE Deadline
    BY <1>14 DEF Deadline, work, files, bounds
  <1>15. ASSUME NEW r \in Requests, NEW l \in Listeners, Accept(r, l)
        PROVE  Shapes'
    <2> HIDE DEF Shapes
    <2>1. PICK w \in Works :
              req' = [req EXCEPT ![r] = w] /\ w.on = l /\ w.left # <<>> /\ w.at # "idle"
      BY <1>15, RequestComes
    <2>2. QED
      BY <1>15, <2>1 DEF Accept, Shapes, life, files
  <1>16. ASSUME NEW r \in Requests, Acquire(r)
        PROVE  Shapes'
    <2>1. PICK w \in Works :
              /\ req' = [req EXCEPT ![r] = w]
              /\ w # NoWork => /\ w.on = req[r].on /\ w.on \in Listeners
                              /\ w.left # <<>> /\ w.at # "idle"
      BY <1>16, RequestMoves
    <2>2. QED
      BY <1>16, <2>1 DEF Acquire, life, files, bounds
  <1>17. ASSUME NEW r \in Requests, Execute(r)
        PROVE  Shapes'
    <2>1. PICK w \in Works :
              /\ req' = [req EXCEPT ![r] = w]
              /\ w # NoWork => /\ w.on = req[r].on /\ w.on \in Listeners
                              /\ w.left # <<>> /\ w.at # "idle"
      BY <1>17, RequestMoves
    <2>2. QED
      BY <1>17, <2>1 DEF Execute, life, files, bounds
  <1>18. ASSUME NEW r \in Requests, GiveUp(r)
        PROVE  Shapes'
    <2>1. PICK w \in Works :
              /\ req' = [req EXCEPT ![r] = w]
              /\ w # NoWork => /\ w.on = req[r].on /\ w.on \in Listeners
                              /\ w.left # <<>> /\ w.at # "idle"
      BY <1>18, RequestMoves
    <2>2. QED
      BY <1>18, <2>1 DEF GiveUp, life, files, bounds
  <1>19. CASE Signal
    BY <1>19 DEF Signal, work, files, bounds
  <1>20. CASE Kill
    BY <1>20, BlankTypes DEF Kill, files
  <1>21. CASE Age
    BY <1>21 DEF Age, life, work, bounds
  <1>22. CASE Remove
    BY <1>22 DEF Remove, life, work, NoFile, File, bounds, Files
  <1>23. CASE UNCHANGED vars
    BY <1>23 DEF vars, life, work, files, bounds
  <1>24. QED
    BY <1>1, <1>2, <1>3, <1>4, <1>5, <1>6, <1>7, <1>8, <1>9, <1>10, <1>11, <1>12, <1>13,
       <1>14, <1>15, <1>16, <1>17, <1>18, <1>19, <1>20, <1>21, <1>22, <1>23 DEF Next, Main,
       ListenerRuns, Rest

\* Requests in flight keep a listener and statements.
LEMMA WorkStep ==
    ASSUME Shapes, WorkOK, [Next]_vars
    PROVE  WorkOK'
  <1> USE DEF WorkOK, Shapes
  <1>1. CASE Start
    BY <1>1 DEF Start, life, work, files
  <1>2. CASE Open
    BY <1>2, BlankGrace DEF Open, files, work, bounds, life
  <1>3. CASE Certify
    BY <1>3 DEF Certify, work, files, bounds
  <1>4. CASE WritePair
    BY <1>4 DEF WritePair, Torn, File, work, bounds
  <1>5. CASE CancelRun
    BY <1>5 DEF CancelRun, work, files, bounds
  <1>6. CASE Return
    BY <1>6, BlankGrace DEF Return, Leave, Ends, life, work, files, bounds
  <1>7. CASE CloseStore
    BY <1>7, BlankGrace DEF CloseStore, Ends, life, work, files, bounds
  <1>8. ASSUME NEW l \in Listeners, Hear(l)
        PROVE  WorkOK'
    BY <1>8 DEF Hear, Lst, Returned, work, files, bounds
  <1>9. CASE WriteFails
    BY <1>9, BlankGrace DEF WriteFails, files
  <1>10. ASSUME NEW l \in Listeners, Listen(l)
        PROVE  WorkOK'
    BY <1>10 DEF Listen, Lst, PairLoads, work, files, bounds
  <1>11. ASSUME NEW l \in Listeners, ServeReturns(l)
        PROVE  WorkOK'
    BY <1>11 DEF ServeReturns, Lst, work, files, bounds
  <1>12. ASSUME NEW l \in Listeners, ListenerFails(l)
        PROVE  WorkOK'
    BY <1>12 DEF ListenerFails, Lst, work, files
  <1>13. CASE Shutdown
    BY <1>13 DEF Shutdown, work, files, bounds
  <1>14. CASE Deadline
    BY <1>14 DEF Deadline, work, files, bounds
  <1>15. ASSUME NEW r \in Requests, NEW l \in Listeners, Accept(r, l)
        PROVE  WorkOK'
    <2> HIDE DEF Shapes
    <2>1. PICK w \in Works :
              req' = [req EXCEPT ![r] = w] /\ w.on = l /\ w.left # <<>> /\ w.at # "idle"
      BY <1>15, RequestComes
    <2>2. QED
      BY <1>15, <2>1 DEF Accept, Shapes, life, files
  <1>16. ASSUME NEW r \in Requests, Acquire(r)
        PROVE  WorkOK'
    <2>1. PICK w \in Works :
              /\ req' = [req EXCEPT ![r] = w]
              /\ w # NoWork => /\ w.on = req[r].on /\ w.on \in Listeners
                              /\ w.left # <<>> /\ w.at # "idle"
      BY <1>16, RequestMoves
    <2>2. QED
      BY <1>16, <2>1 DEF Acquire, life, files, bounds
  <1>17. ASSUME NEW r \in Requests, Execute(r)
        PROVE  WorkOK'
    <2>1. PICK w \in Works :
              /\ req' = [req EXCEPT ![r] = w]
              /\ w # NoWork => /\ w.on = req[r].on /\ w.on \in Listeners
                              /\ w.left # <<>> /\ w.at # "idle"
      BY <1>17, RequestMoves
    <2>2. QED
      BY <1>17, <2>1 DEF Execute, life, files, bounds
  <1>18. ASSUME NEW r \in Requests, GiveUp(r)
        PROVE  WorkOK'
    <2>1. PICK w \in Works :
              /\ req' = [req EXCEPT ![r] = w]
              /\ w # NoWork => /\ w.on = req[r].on /\ w.on \in Listeners
                              /\ w.left # <<>> /\ w.at # "idle"
      BY <1>18, RequestMoves
    <2>2. QED
      BY <1>18, <2>1 DEF GiveUp, life, files, bounds
  <1>19. CASE Signal
    BY <1>19 DEF Signal, work, files, bounds
  <1>20. CASE Kill
    BY <1>20, BlankGrace DEF Kill, files
  <1>21. CASE Age
    BY <1>21 DEF Age, life, work, bounds
  <1>22. CASE Remove
    BY <1>22 DEF Remove, life, work, NoFile, File, bounds
  <1>23. CASE UNCHANGED vars
    BY <1>23 DEF vars, life, work, files, bounds
  <1>24. QED
    BY <1>1, <1>2, <1>3, <1>4, <1>5, <1>6, <1>7, <1>8, <1>9, <1>10, <1>11, <1>12, <1>13,
       <1>14, <1>15, <1>16, <1>17, <1>18, <1>19, <1>20, <1>21, <1>22, <1>23 DEF Next, Main,
       ListenerRuns, Rest

\* The pair of files.
LEMMA PairStep ==
    ASSUME Shapes, PairOK, [Next]_vars
    PROVE  PairOK'
  <1> USE DEF PairOK, PairMatches, PairLoads, Shapes
  <1>1. CASE Start
    BY <1>1 DEF Start, life, work, files
  <1>2. CASE Open
    BY <1>2 DEF Open, files, work, bounds, life, UsesTLS
  <1>3. CASE Certify
    BY <1>3 DEF Certify, work, files, bounds, existingCertificateUsable
  <1>4. CASE WritePair
    <2>1. CASE proc = "cert" /\ proc' = "torn cert"
      BY <1>4, <2>1 DEF WritePair, Torn, File
    <2>2. CASE proc = "torn cert" /\ proc' = "key"
      BY <1>4, <2>2 DEF WritePair, File, bounds
    <2>3. CASE proc = "key" /\ proc' = "torn key"
      BY <1>4, <2>3 DEF WritePair, bounds
    <2>4. CASE proc = "torn key" /\ proc' = "running"
      <3>1. /\ cert' = File("whole", starts) /\ key' = File("whole", starts)
            /\ File("whole", starts).is = "whole"
        BY <1>4, <2>4 DEF WritePair, File
      <3>2. cert'.is = "whole" /\ key'.is = "whole" /\ key' = cert'
        BY <3>1
      <3>3. QED
        BY <2>4, <3>2
    <2>5. QED
      BY <1>4, <2>1, <2>2, <2>3, <2>4 DEF WritePair
  <1>5. CASE CancelRun
    BY <1>5 DEF CancelRun, work, files, bounds
  <1>6. CASE Return
    BY <1>6 DEF Return, Leave, Ends, life, work, files, bounds
  <1>7. CASE CloseStore
    BY <1>7 DEF CloseStore, Ends, life, work, files, bounds
  <1>8. ASSUME NEW l \in Listeners, Hear(l)
        PROVE  PairOK'
    BY <1>8 DEF Hear, Lst, Returned, work, files, bounds
  <1>9. CASE WriteFails
    BY <1>9 DEF WriteFails, files
  <1>10. ASSUME NEW l \in Listeners, Listen(l)
        PROVE  PairOK'
    BY <1>10 DEF Listen, Lst, PairLoads, work, files, bounds
  <1>11. ASSUME NEW l \in Listeners, ServeReturns(l)
        PROVE  PairOK'
    BY <1>11 DEF ServeReturns, Lst, work, files, bounds
  <1>12. ASSUME NEW l \in Listeners, ListenerFails(l)
        PROVE  PairOK'
    BY <1>12 DEF ListenerFails, Lst, work, files
  <1>13. CASE Shutdown
    BY <1>13 DEF Shutdown, work, files, bounds
  <1>14. CASE Deadline
    BY <1>14 DEF Deadline, work, files, bounds
  <1>15. ASSUME NEW r \in Requests, NEW l \in Listeners, Accept(r, l)
        PROVE  PairOK'
    BY <1>15 DEF Accept, life, files
  <1>16. ASSUME NEW r \in Requests, Acquire(r)
        PROVE  PairOK'
    BY <1>16 DEF Acquire, life, files, bounds
  <1>17. ASSUME NEW r \in Requests, Execute(r)
        PROVE  PairOK'
    BY <1>17 DEF Execute, life, files, bounds
  <1>18. ASSUME NEW r \in Requests, GiveUp(r)
        PROVE  PairOK'
    BY <1>18 DEF GiveUp, life, files, bounds
  <1>19. CASE Signal
    BY <1>19 DEF Signal, work, files, bounds
  <1>20. CASE Kill
    BY <1>20 DEF Kill, files
  <1>21. CASE Age
    BY <1>21 DEF Age, life, work, bounds
  <1>22. CASE Remove
    BY <1>22 DEF Remove, life, work, NoFile, File, bounds
  <1>23. CASE UNCHANGED vars
    BY <1>23 DEF vars, life, work, files, bounds
  <1>24. QED
    BY <1>1, <1>2, <1>3, <1>4, <1>5, <1>6, <1>7, <1>8, <1>9, <1>10, <1>11, <1>12, <1>13,
       <1>14, <1>15, <1>16, <1>17, <1>18, <1>19, <1>20, <1>21, <1>22, <1>23 DEF Next, Main,
       ListenerRuns, Rest

\* Failures and the exit status.
LEMMA LifeStep ==
    ASSUME Shapes, PairOK, LifeOK, [Next]_vars
    PROVE  LifeOK'
  <1> USE DEF LifeOK, ExitIsTruthful, Shapes
  <1>1. CASE Start
    BY <1>1 DEF Start, life, work, files
  <1>2. CASE Open
    <2>1. ~failed /\ ~runErr /\ exit = "none"
      BY <1>2 DEF Open
    <2>2. CASE signalled /\ proc' = "down" /\ exit' = "error" /\ failed' = TRUE /\ Blank
      BY <2>2, Blanks
    <2>3. CASE ~(signalled /\ proc' = "down" /\ exit' = "error" /\ failed' = TRUE /\ Blank)
      BY <1>2, <2>1, <2>3 DEF Open
    <2>4. QED
      BY <2>2, <2>3
  <1>3. CASE Certify
    BY <1>3 DEF Certify, work, files, bounds
  <1>4. CASE WritePair
    BY <1>4 DEF WritePair, Torn, File, work, bounds
  <1>5. CASE CancelRun
    BY <1>5 DEF CancelRun, work, files, bounds
  <1>6. CASE Return
    <2>1. failed => runErr
      BY <1>6 DEF Return, AllHeard
    <2>2. CASE runErr /\ Ends("error")
      BY <1>6, <2>2, Blanks DEF Return, Ends, files, bounds
    <2>3. CASE ~runErr /\ proc' = "closing" /\ UNCHANGED <<life, work, failed, exit, bounds>>
      BY <1>6, <2>1, <2>3 DEF Return, life
    <2>4. QED
      BY <1>6, <2>2, <2>3 DEF Return, Leave
  <1>7. CASE CloseStore
    <2>1. ~failed
      BY <1>7 DEF CloseStore
    <2>2. CASE proc = "closing"
      BY <1>7, <2>1, <2>2 DEF CloseStore, life
    <2>3. CASE proc = "closed"
      BY <1>7, <2>1, <2>3, Blanks DEF CloseStore, Ends
    <2>4. QED
      BY <1>7, <2>2, <2>3 DEF CloseStore
  <1>8. ASSUME NEW l \in Listeners, Hear(l)
        PROVE  LifeOK'
    BY <1>8 DEF Hear, Lst, Returned, work, files, bounds
  <1>9. CASE WriteFails
    BY <1>9, Blanks DEF WriteFails, files
  <1>10. ASSUME NEW l \in Listeners, Listen(l)
        PROVE  LifeOK'
    <2>1. ASSUME Specs[l] = "https", ~PairLoads PROVE cut
      BY <1>10, <2>1 DEF Listen, PairOK, PairMatches, UsesTLS
    <2>2. CASE lst' = [lst EXCEPT ![l] = "failed"] /\ failed' = TRUE
      BY <1>10, <2>2 DEF Listen
    <2>3. CASE UNCHANGED failed /\ \E s \in {"stopped", "serving"} : lst' = [lst EXCEPT ![l] = s]
      BY <1>10, <2>3 DEF Listen
    <2>4. QED
      BY <1>10, <2>1, <2>2, <2>3 DEF Listen, Lst
  <1>11. ASSUME NEW l \in Listeners, ServeReturns(l)
        PROVE  LifeOK'
    BY <1>11 DEF ServeReturns, Lst, work, files, bounds
  <1>12. ASSUME NEW l \in Listeners, ListenerFails(l)
        PROVE  LifeOK'
    BY <1>12 DEF ListenerFails, Lst, work, files
  <1>13. CASE Shutdown
    BY <1>13 DEF Shutdown, work, files, bounds
  <1>14. CASE Deadline
    BY <1>14 DEF Deadline, work, files, bounds
  <1>15. ASSUME NEW r \in Requests, NEW l \in Listeners, Accept(r, l)
        PROVE  LifeOK'
    BY <1>15 DEF Accept, life, files
  <1>16. ASSUME NEW r \in Requests, Acquire(r)
        PROVE  LifeOK'
    BY <1>16 DEF Acquire, life, files, bounds
  <1>17. ASSUME NEW r \in Requests, Execute(r)
        PROVE  LifeOK'
    BY <1>17 DEF Execute, life, files, bounds
  <1>18. ASSUME NEW r \in Requests, GiveUp(r)
        PROVE  LifeOK'
    BY <1>18 DEF GiveUp, life, files, bounds
  <1>19. CASE Signal
    BY <1>19 DEF Signal, work, files, bounds
  <1>20. CASE Kill
    BY <1>20, Blanks DEF Kill, files
  <1>21. CASE Age
    BY <1>21 DEF Age, life, work, bounds
  <1>22. CASE Remove
    BY <1>22 DEF Remove, life, work, NoFile, File, bounds
  <1>23. CASE UNCHANGED vars
    BY <1>23 DEF vars, life, work, files, bounds
  <1>24. QED
    BY <1>1, <1>2, <1>3, <1>4, <1>5, <1>6, <1>7, <1>8, <1>9, <1>10, <1>11, <1>12, <1>13,
       <1>14, <1>15, <1>16, <1>17, <1>18, <1>19, <1>20, <1>21, <1>22, <1>23 DEF Next, Main,
       ListenerRuns, Rest

\* The grace of the requests.
LEMMA GraceStep ==
    ASSUME Shapes, WorkOK, GraceOK, [Next]_vars
    PROVE  GraceOK'
  <1> USE DEF GraceOK, Shapes, WorkOK
  <1>1. CASE Start
    BY <1>1 DEF Start, life, work, files
  <1>2. CASE Open
    BY <1>2, BlankGrace DEF Open, files, work, bounds, life
  <1>3. CASE Certify
    BY <1>3 DEF Certify, work, files, bounds
  <1>4. CASE WritePair
    BY <1>4 DEF WritePair, Torn, File, work, bounds
  <1>5. CASE CancelRun
    BY <1>5 DEF CancelRun, work, files, bounds
  <1>6. CASE Return
    <2>1. CASE Ends("error")
      BY <2>1, BlankGrace DEF Ends
    <2>2. CASE UNCHANGED <<life, work, failed, exit, bounds>>
      BY <2>2 DEF life, work
    <2>3. QED
      BY <1>6, <2>1, <2>2 DEF Return, Leave
  <1>7. CASE CloseStore
    BY <1>7, BlankGrace DEF CloseStore, Ends, life, work, files, bounds
  <1>8. ASSUME NEW l \in Listeners, Hear(l)
        PROVE  GraceOK'
    BY <1>8 DEF Hear, Lst, Returned, work, files, bounds
  <1>9. CASE WriteFails
    BY <1>9, BlankGrace DEF WriteFails, files
  <1>10. ASSUME NEW l \in Listeners, Listen(l)
        PROVE  GraceOK'
    BY <1>10 DEF Listen, Lst, PairLoads, work, files, bounds
  <1>11. ASSUME NEW l \in Listeners, ServeReturns(l)
        PROVE  GraceOK'
    BY <1>11 DEF ServeReturns, Lst, work, files, bounds
  <1>12. ASSUME NEW l \in Listeners, ListenerFails(l)
        PROVE  GraceOK'
    BY <1>12 DEF ListenerFails, Lst, work, files
  <1>13. CASE Shutdown
    <2>1. sd' = sd + 1 /\ closing' = [l \in Listeners |-> closing[l] \/ l = sd + 1]
      BY <1>13 DEF Shutdown
    <2>2. UNCHANGED <<expired, req>>
      BY <1>13 DEF Shutdown, work
    <2>3. ~expired /\ sd \in Listeners => \A r \in Requests : req[r].on # sd
      BY <1>13, SpecsFacts DEF Shutdown
    <2>4. sd \in Nat /\ (sd = 0 \/ sd \in Listeners)
      BY <1>13, SpecsFacts DEF Shutdown
    <2>5. ASSUME NEW l \in Listeners, l <= sd + 1 PROVE closing'[l]
      <3>1. l <= sd \/ l = sd + 1
        BY <2>4, <2>5, SpecsFacts
      <3>2. closing'[l] = (closing[l] \/ l = sd + 1)
        BY <2>1
      <3>3. l <= sd => closing[l]
        OBVIOUS
      <3>4. QED
        BY <3>1, <3>2, <3>3
    <2>6. ASSUME ~expired, NEW r \in Requests, NEW l \in Listeners, l < sd + 1 PROVE req[r].on # l
      BY <2>3, <2>4, <2>6, SpecsFacts
    <2>7. QED
      BY <2>1, <2>2, <2>5, <2>6
  <1>14. CASE Deadline
    BY <1>14 DEF Deadline, work, files, bounds
  <1>15. ASSUME NEW r \in Requests, NEW l \in Listeners, Accept(r, l)
        PROVE  GraceOK'
    <2> HIDE DEF Shapes
    <2>1. PICK w \in Works :
              req' = [req EXCEPT ![r] = w] /\ w.on = l /\ w.left # <<>> /\ w.at # "idle"
      BY <1>15, RequestComes
    <2>2. QED
      BY <1>15, <2>1, SpecsFacts DEF Accept, Shapes, life, files, NoWork, Work
  <1>16. ASSUME NEW r \in Requests, Acquire(r)
        PROVE  GraceOK'
    <2>1. PICK w \in Works :
              /\ req' = [req EXCEPT ![r] = w]
              /\ w # NoWork => /\ w.on = req[r].on /\ w.on \in Listeners
                              /\ w.left # <<>> /\ w.at # "idle"
      BY <1>16, RequestMoves
    <2>2. QED
      BY <1>16, <2>1, SpecsFacts DEF Acquire, life, files, bounds, NoWork, Work
  <1>17. ASSUME NEW r \in Requests, Execute(r)
        PROVE  GraceOK'
    <2>1. PICK w \in Works :
              /\ req' = [req EXCEPT ![r] = w]
              /\ w # NoWork => /\ w.on = req[r].on /\ w.on \in Listeners
                              /\ w.left # <<>> /\ w.at # "idle"
      BY <1>17, RequestMoves
    <2>2. QED
      BY <1>17, <2>1, SpecsFacts DEF Execute, life, files, bounds, NoWork, Work
  <1>18. ASSUME NEW r \in Requests, GiveUp(r)
        PROVE  GraceOK'
    <2>1. PICK w \in Works :
              /\ req' = [req EXCEPT ![r] = w]
              /\ w # NoWork => /\ w.on = req[r].on /\ w.on \in Listeners
                              /\ w.left # <<>> /\ w.at # "idle"
      BY <1>18, RequestMoves
    <2>2. QED
      BY <1>18, <2>1, SpecsFacts DEF GiveUp, life, files, bounds, NoWork, Work
  <1>19. CASE Signal
    BY <1>19 DEF Signal, work, files, bounds
  <1>20. CASE Kill
    BY <1>20, BlankGrace DEF Kill, files
  <1>21. CASE Age
    BY <1>21 DEF Age, life, work, bounds
  <1>22. CASE Remove
    BY <1>22 DEF Remove, life, work, NoFile, File, bounds
  <1>23. CASE UNCHANGED vars
    BY <1>23 DEF vars, life, work, files, bounds
  <1>24. QED
    BY <1>1, <1>2, <1>3, <1>4, <1>5, <1>6, <1>7, <1>8, <1>9, <1>10, <1>11, <1>12, <1>13,
       <1>14, <1>15, <1>16, <1>17, <1>18, <1>19, <1>20, <1>21, <1>22, <1>23 DEF Next, Main,
       ListenerRuns, Rest

-----------------------------------------------------------------------------
(* The theorems.                                                           *)

\* The first state.
LEMMA InitOK ==
    ASSUME Init
    PROVE  IInv
  <1>1. Flags
    BY DEF Init, Flags
  <1>2. Counts
    BY DEF Init, Counts
  <1>3. Shapes
    <2>1. NoWork \in Works
      BY DEF NoWork, Work, Works
    <2>2. NoFile \in Files /\ File("whole", 0) \in Files
      BY DEF NoFile, File, Files
    <2>3. 0 \in 0 .. Len(Specs) + 1
      BY SpecsFacts
    <2>4. /\ lst \in [Listeners -> {"off", "starting", "serving", "stopped", "failed", "heard"}]
          /\ closing \in [Listeners -> BOOLEAN]
          /\ req \in [Requests -> Works]
      BY <2>1 DEF Init
    <2>5. cert \in Files /\ key \in Files
      BY <2>2 DEF Init
    <2>6. QED
      BY <2>3, <2>4, <2>5 DEF Init, Shapes, Phases
  <1>4. WorkOK
    BY DEF Init, WorkOK
  <1>5. PairOK
    BY DEF Init, PairOK, PairMatches, PairLoads, NoFile, File
  <1>6. LifeOK
    BY DEF Init, LifeOK, ExitIsTruthful
  <1>7. GraceOK
    <2>1. \A l \in Listeners : ~(l <= 0) /\ ~(l < 0)
      BY SpecsFacts
    <2>2. QED
      BY <2>1 DEF Init, GraceOK
  <1>8. QED
    BY <1>1, <1>2, <1>3, <1>4, <1>5, <1>6, <1>7 DEF IInv

LEMMA InductiveInvariant == Spec => []IInv
  <1>1. Init => IInv
    BY InitOK
  <1>2. IInv /\ [Next]_vars => IInv'
    BY FlagStep, CountStep, ShapeStep, WorkStep, PairStep, LifeStep, GraceStep DEF IInv
  <1>3. QED
    BY <1>1, <1>2, PTL DEF Spec

\* What every variable holds.
THEOREM TypeCorrect == Spec => []TypeOK
  <1>1. IInv => TypeOK
    BY DEF IInv, Flags, Shapes, Counts, TypeOK
  <1>2. QED
    BY <1>1, InductiveInvariant, PTL

\* The certificate and the key fit unless their writing was cut short, however
\* often the process is started, killed or fails.
THEOREM PairCorrect == Spec => []PairMatches
  <1>1. IInv => PairMatches
    BY DEF IInv, PairOK
  <1>2. QED
    BY <1>1, InductiveInvariant, PTL

\* The exit status says whether something failed in this life of the process.
THEOREM ExitCorrect == Spec => []ExitIsTruthful
  <1>1. IInv => ExitIsTruthful
    BY DEF IInv, LifeOK
  <1>2. QED
    BY <1>1, InductiveInvariant, PTL

\* Only an expired deadline or a kill leaves requests behind.
THEOREM GraceCorrect == Spec => GraceKept
  <1> DEFINE Kept == proc = "running" /\ proc' # "running" /\ exit' # "killed"
                         => expired \/ \A r \in Requests : req[r] = NoWork
  <1>1. ASSUME IInv, [Next]_vars PROVE [Kept]_vars
    <2>1. SUFFICES ASSUME Next, proc = "running", proc' # "running", exit' # "killed"
                   PROVE  expired \/ \A r \in Requests : req[r] = NoWork
      BY <1>1
    <2>2. Return
      BY <2>1 DEF Next, Main, ListenerRuns, Rest, Start, Open, Certify, WritePair, WriteFails, CancelRun,
         CloseStore, Hear, Listen, ServeReturns, ListenerFails, Shutdown, Deadline, Accept, Acquire,
         Execute, GiveUp, Signal, Kill, Age, Remove, vars
    <2>3. sd = Len(Specs) + 1
      BY <2>2 DEF Return
    <2>4. ASSUME NEW r \in Requests, ~expired PROVE req[r] = NoWork
      <3>1. req[r] # NoWork => req[r].on \in Listeners
        BY <1>1 DEF IInv, WorkOK
      <3>2. \A l \in Listeners : l < sd
        BY <2>3, SpecsFacts DEF Listeners
      <3>3. \A l \in Listeners : req[r].on # l
        BY <1>1, <2>4, <3>2 DEF IInv, GraceOK
      <3>4. QED
        BY <3>1, <3>3
    <2>5. QED
      BY <2>4
  <1>2. QED
    BY <1>1, InductiveInvariant, PTL DEF Spec, GraceKept
=============================================================================
