------------------------------- MODULE Server -------------------------------
(***************************************************************************)
(* The life of the StockIt process: main opens the store, Run makes sure   *)
(* of the certificate, serves on one or two listeners, and stops when it   *)
(* is asked to or when a listener fails.  The process may be killed at any *)
(* step; what stays are the two files of the certificate and its key.      *)
(* Requests share the one connection of the store.                         *)
(***************************************************************************)
EXTENDS Integers, Sequences

CONSTANTS
    Specs,          \* the listeners of Run, in their order
    Requests,       \* requests that may be in flight at once
    NoRequest,      \* nobody holds the connection
    MaxStarts,      \* bound on the starts
    MaxMishaps,     \* bound on kills and failures together
    MaxAccepts      \* bound on the requests

ASSUME ServerInputs ==
    /\ Specs \in {<<"http">>, <<"https">>, <<"http", "https">>}
    /\ NoRequest \notin Requests
    /\ {MaxStarts, MaxMishaps, MaxAccepts} \subseteq Nat

Listeners == 1 .. Len(Specs)
UsesTLS == \E l \in Listeners : Specs[l] = "https"

VARIABLES
    proc,       \* how far main is
    signalled,  \* SIGINT or SIGTERM arrived
    cancelled,  \* runCtx was cancelled by Run itself
    runErr,     \* the first error Run heard
    lst,        \* where the goroutine of each listener is
    closing,    \* Shutdown was called on a listener
    sd,         \* the shutdown goroutine: the listener it waits for
    expired,    \* its deadline passed
    req,        \* the requests in flight
    conn,       \* who holds the connection of the store
    cert, key,  \* the two files
    old,        \* the certificate is within the renewal window
    cut,        \* history: the last writing of the pair was cut short
    failed,     \* history: something failed in this life of the process
    exit,       \* how the last life ended
    starts, mishaps, accepts    \* for the bounds only

life == <<signalled, cancelled, runErr, lst, closing, sd, expired>>
work == <<req, conn>>
files == <<cert, key, old, cut>>
bounds == <<starts, mishaps, accepts>>
vars == <<proc, life, work, files, failed, exit, bounds>>

-----------------------------------------------------------------------------
(* What the variables hold.                                                *)

Phases == {"down", "opening", "certify", "cert", "torn cert", "key", "torn key",
           "running", "closing", "closed"}

\* A file of a pair: not there, written in part, or whole and of one pair.
File(is, pair) == [is |-> is, pair |-> pair]
NoFile == File("none", 0)
Torn == File("torn", 0)
Files == [is : {"none", "torn", "whole"}, pair : Nat]

\* A request on a listener, the statements it has left, and whether the next one
\* asks the pool for the connection or runs on the one it has.
Kinds == {"pool", "begin", "tx", "commit"}
Work(on, left, at) == [on |-> on, left |-> left, at |-> at]
NoWork == Work(0, <<>>, "idle")
Works == [on : Listeners \union {0}, left : Seq(Kinds), at : {"idle", "asks", "runs"}]

TypeOK ==
    /\ proc \in Phases
    /\ signalled \in BOOLEAN /\ cancelled \in BOOLEAN /\ runErr \in BOOLEAN /\ expired \in BOOLEAN
    /\ lst \in [Listeners -> {"off", "starting", "serving", "stopped", "failed", "heard"}]
    /\ closing \in [Listeners -> BOOLEAN]
    /\ sd \in 0 .. Len(Specs) + 1
    /\ req \in [Requests -> Works]
    /\ conn \in Requests \union {NoRequest}
    /\ cert \in Files /\ key \in Files
    /\ old \in BOOLEAN /\ cut \in BOOLEAN /\ failed \in BOOLEAN
    /\ exit \in {"none", "clean", "error", "killed"}
    /\ starts \in Nat /\ mishaps \in Nat /\ accepts \in Nat

\* A process that is not there.
Blank ==
    /\ signalled' = FALSE /\ cancelled' = FALSE /\ runErr' = FALSE
    /\ lst' = [l \in Listeners |-> "off"]
    /\ closing' = [l \in Listeners |-> FALSE]
    /\ sd' = 0 /\ expired' = FALSE
    /\ req' = [r \in Requests |-> NoWork]
    /\ conn' = NoRequest

Init ==
    /\ proc = "down"
    /\ signalled = FALSE /\ cancelled = FALSE /\ runErr = FALSE
    /\ lst = [l \in Listeners |-> "off"]
    /\ closing = [l \in Listeners |-> FALSE]
    /\ sd = 0 /\ expired = FALSE
    /\ req = [r \in Requests |-> NoWork]
    /\ conn = NoRequest
    /\ \/ cert = NoFile /\ key = NoFile
       \/ cert = File("whole", 0) /\ key = File("whole", 0)
    /\ old = FALSE /\ cut = FALSE /\ failed = FALSE
    /\ exit = "none"
    /\ starts = 0 /\ mishaps = 0 /\ accepts = 0

\* The process ends by itself.
Ends(how) ==
    /\ proc' = "down" /\ exit' = how
    /\ Blank
    /\ UNCHANGED <<failed, bounds>>

-----------------------------------------------------------------------------
(* main and the start of Run.                                              *)

Start ==
    /\ proc = "down"
    /\ starts < MaxStarts
    /\ proc' = "opening" /\ starts' = starts + 1
    /\ failed' = FALSE /\ exit' = "none"
    /\ UNCHANGED <<life, work, files, mishaps, accepts>>

\* New: the statements of store.init run under the context of the signals.
Open ==
    /\ proc = "opening"
    /\ \/ proc' = (IF UsesTLS THEN "certify" ELSE "running")
          /\ lst' = [l \in Listeners |-> IF UsesTLS THEN "off" ELSE "starting"]
          /\ UNCHANGED <<signalled, cancelled, runErr, closing, sd, expired, work, failed, exit, bounds>>
       \/ signalled /\ proc' = "down" /\ exit' = "error" /\ failed' = TRUE /\ Blank /\ UNCHANGED bounds
    /\ UNCHANGED files

\* existingCertificateUsable: both files are there, the certificate parses and
\* is not about to expire.  The key is not read.
existingCertificateUsable == cert.is = "whole" /\ key.is # "none" /\ ~old

Certify ==
    /\ proc = "certify"
    /\ IF existingCertificateUsable
       THEN proc' = "running" /\ lst' = [l \in Listeners |-> "starting"]
       ELSE proc' = "cert" /\ UNCHANGED lst
    /\ UNCHANGED <<signalled, cancelled, runErr, closing, sd, expired, work, files, failed, exit, bounds>>

\* Mutant: a key that is there is kept.
WritePairKeepingKey ==
    /\ \/ /\ proc = "cert" /\ proc' = "torn cert"
          /\ cert' = Torn /\ cut' = TRUE
          /\ UNCHANGED <<key, old, lst>>
       \/ /\ proc = "torn cert" /\ proc' = (IF key.is = "none" THEN "torn key" ELSE "running")
          /\ cert' = File("whole", starts) /\ old' = FALSE /\ cut' = (key.is = "none")
          /\ lst' = [l \in Listeners |-> IF key.is = "none" THEN "off" ELSE "starting"]
          /\ UNCHANGED key
       \/ /\ proc = "torn key" /\ proc' = "running"
          /\ key' = File("whole", starts) /\ cut' = FALSE
          /\ lst' = [l \in Listeners |-> "starting"]
          /\ UNCHANGED <<cert, old>>
    /\ UNCHANGED <<signalled, cancelled, runErr, closing, sd, expired, work, failed, exit, bounds>>

\* os.WriteFile truncates the file and then writes it, the certificate first.
\* A pair has the number of the start that made it.
WritePair ==
    /\ \/ /\ proc = "cert" /\ proc' = "torn cert"
          /\ cert' = Torn /\ cut' = TRUE
          /\ UNCHANGED <<key, old, lst>>
       \/ /\ proc = "torn cert" /\ proc' = "key"
          /\ cert' = File("whole", starts) /\ old' = FALSE
          /\ UNCHANGED <<key, cut, lst>>
       \/ /\ proc = "key" /\ proc' = "torn key"
          /\ key' = Torn
          /\ UNCHANGED <<cert, old, cut, lst>>
       \/ /\ proc = "torn key" /\ proc' = "running"
          /\ key' = File("whole", starts) /\ cut' = FALSE
          /\ lst' = [l \in Listeners |-> "starting"]
          /\ UNCHANGED <<cert, old>>
    /\ UNCHANGED <<signalled, cancelled, runErr, closing, sd, expired, work, failed, exit, bounds>>

\* The disk refuses: Run returns the error and log.Fatal ends the process.
WriteFails ==
    /\ proc \in {"cert", "torn cert", "key", "torn key"}
    /\ mishaps < MaxMishaps
    /\ mishaps' = mishaps + 1
    /\ failed' = TRUE
    /\ proc' = "down" /\ exit' = "error"
    /\ Blank
    /\ UNCHANGED <<files, starts, accepts>>

-----------------------------------------------------------------------------
(* The listeners.                                                          *)

PairLoads == cert.is = "whole" /\ key = cert

Lst(l, state) == lst' = [lst EXCEPT ![l] = state]

\* ListenAndServe and ListenAndServeTLS up to the accept loop; ErrServerClosed
\* becomes nil.  The pair is loaded here.
Listen(l) ==
    /\ proc = "running" /\ lst[l] = "starting"
    /\ \/ closing[l] /\ Lst(l, "stopped") /\ UNCHANGED failed
       \/ ~closing[l] /\ (Specs[l] = "https" => PairLoads) /\ Lst(l, "serving") /\ UNCHANGED failed
       \/ ~closing[l] /\ Specs[l] = "https" /\ ~PairLoads /\ Lst(l, "failed") /\ failed' = (failed \/ cut)
    /\ UNCHANGED <<proc, signalled, cancelled, runErr, closing, sd, expired, work, files, exit, bounds>>

\* The address is taken, or Accept returns an error.
ListenerFails(l) ==
    /\ proc = "running" /\ lst[l] \in {"starting", "serving"} /\ ~closing[l]
    /\ mishaps < MaxMishaps
    /\ mishaps' = mishaps + 1
    /\ Lst(l, "failed") /\ failed' = TRUE
    /\ UNCHANGED <<proc, signalled, cancelled, runErr, closing, sd, expired, work, files, exit, starts, accepts>>

ServeReturns(l) ==
    /\ proc = "running" /\ lst[l] = "serving" /\ closing[l]
    /\ Lst(l, "stopped")
    /\ UNCHANGED <<proc, signalled, cancelled, runErr, closing, sd, expired, work, files, failed, exit, bounds>>

-----------------------------------------------------------------------------
(* The rest of Run.                                                        *)

Returned(l) == lst[l] \in {"stopped", "failed"}
AllHeard == \A l \in Listeners : lst[l] = "heard"

\* Mutant: Run forgets to cancel when a listener fails.
HearOnly(l) ==
    /\ proc = "running" /\ Returned(l)
    /\ Lst(l, "heard")
    /\ runErr' = (runErr \/ lst[l] = "failed")
    /\ UNCHANGED <<proc, signalled, cancelled, closing, sd, expired, work, files, failed, exit, bounds>>

\* Mutant: the result of the last listener is the one that counts.
HearLast(l) ==
    /\ proc = "running" /\ Returned(l)
    /\ Lst(l, "heard")
    /\ runErr' = (lst[l] = "failed")
    /\ cancelled' = (cancelled \/ lst[l] = "failed")
    /\ UNCHANGED <<proc, signalled, closing, sd, expired, work, files, failed, exit, bounds>>

\* One result from errCh, which holds all of them: the first error is kept, and
\* cancels.
Hear(l) ==
    /\ proc = "running" /\ Returned(l)
    /\ Lst(l, "heard")
    /\ runErr' = (runErr \/ lst[l] = "failed")
    /\ cancelled' = (cancelled \/ (lst[l] = "failed" /\ ~runErr))
    /\ UNCHANGED <<proc, signalled, closing, sd, expired, work, files, failed, exit, bounds>>

\* The shutdown goroutine: every Shutdown in turn waits until no request of its
\* listener is in flight, or for the deadline they share.
Shutdown ==
    /\ proc = "running"
    /\ \/ sd = 0 /\ (signalled \/ cancelled)
       \/ sd \in Listeners /\ (expired \/ \A r \in Requests : req[r].on # sd)
    /\ sd' = sd + 1
    /\ closing' = [l \in Listeners |-> closing[l] \/ l = sd + 1]
    /\ UNCHANGED <<proc, signalled, cancelled, runErr, lst, expired, work, files, failed, exit, bounds>>

Deadline ==
    /\ proc = "running" /\ sd \in Listeners /\ ~expired
    /\ expired' = TRUE
    /\ UNCHANGED <<proc, signalled, cancelled, runErr, lst, closing, sd, work, files, failed, exit, bounds>>

CancelRun ==
    /\ proc = "running" /\ AllHeard /\ ~cancelled
    /\ cancelled' = TRUE
    /\ UNCHANGED <<proc, signalled, runErr, lst, closing, sd, expired, work, files, failed, exit, bounds>>

\* An error of Run goes to log.Fatal, which runs no deferred call.
Leave ==
    \/ runErr /\ Ends("error")
    \/ ~runErr /\ proc' = "closing" /\ UNCHANGED <<life, work, failed, exit, bounds>>

\* Mutant: Run does not wait for the shutdown goroutine.
ReturnAtOnce ==
    /\ proc = "running" /\ AllHeard /\ cancelled
    /\ Leave
    /\ UNCHANGED files

Return ==
    /\ proc = "running" /\ AllHeard /\ cancelled
    /\ sd = Len(Specs) + 1
    /\ Leave
    /\ UNCHANGED files

\* The deferred Close of main, and its end.
CloseStore ==
    /\ \/ proc = "closing" /\ proc' = "closed" /\ UNCHANGED <<life, work, failed, exit, bounds>>
       \/ proc = "closed" /\ Ends("clean")
    /\ UNCHANGED files

-----------------------------------------------------------------------------
(* Requests and the connection of the store.                               *)

\* Mutant: the limit is read from the pool within the transaction.
ProgramsInside ==
    [create |-> <<"pool", "pool">>,
     decide |-> <<"begin", "pool", "tx", "commit">>]

\* The statements of a request: apiCreateRecord and DecidePurchaseOrder, where
\* "tx" is the reads and writes between BeginTx and Commit.
Programs ==
    [create |-> <<"pool", "pool">>,
     decide |-> <<"pool", "begin", "tx", "commit">>]

\* The next statement asks the pool, but for those of a transaction.
NextAt(left) ==
    IF left = <<>> THEN "idle" ELSE IF Head(left) \in {"tx", "commit"} THEN "runs" ELSE "asks"

Alive == proc \in {"running", "closing", "closed"}

Accept(r, l) ==
    /\ proc = "running" /\ lst[l] = "serving" /\ ~closing[l] /\ req[r] = NoWork
    /\ accepts < MaxAccepts
    /\ accepts' = accepts + 1
    /\ \E p \in DOMAIN Programs : req' = [req EXCEPT ![r] = Work(l, Programs[p], "asks")]
    /\ UNCHANGED <<proc, life, conn, files, failed, exit, starts, mishaps>>

\* database/sql hands out the connection while the store is open.
Acquire(r) ==
    /\ Alive /\ req[r].at = "asks"
    /\ IF proc = "closed"
       THEN req' = [req EXCEPT ![r] = NoWork] /\ UNCHANGED conn
       ELSE /\ conn = NoRequest
            /\ conn' = r
            /\ req' = [req EXCEPT ![r] = Work(req[r].on, req[r].left, "runs")]
    /\ UNCHANGED <<proc, life, files, failed, exit, bounds>>

\* A statement ends; one of the pool and a commit give the connection back.
Execute(r) ==
    /\ Alive /\ req[r].at = "runs"
    /\ LET left == Tail(req[r].left) IN
       req' = [req EXCEPT ![r] = IF left = <<>> THEN NoWork ELSE Work(req[r].on, left, NextAt(left))]
    /\ conn' = IF Head(req[r].left) \in {"pool", "commit"} THEN NoRequest ELSE conn
    /\ UNCHANGED <<proc, life, files, failed, exit, bounds>>

\* A refusal, an error or a client that went away: the deferred Rollback or the
\* driver gives the connection back.
GiveUp(r) ==
    /\ Alive /\ req[r] # NoWork
    /\ req' = [req EXCEPT ![r] = NoWork]
    /\ conn' = IF conn = r THEN NoRequest ELSE conn
    /\ UNCHANGED <<proc, life, files, failed, exit, bounds>>

-----------------------------------------------------------------------------
(* The environment.                                                        *)

Signal ==
    /\ proc # "down" /\ ~signalled
    /\ signalled' = TRUE
    /\ UNCHANGED <<proc, cancelled, runErr, lst, closing, sd, expired, work, files, failed, exit, bounds>>

Kill ==
    /\ proc # "down"
    /\ mishaps < MaxMishaps
    /\ mishaps' = mishaps + 1
    /\ proc' = "down" /\ exit' = "killed"
    /\ Blank
    /\ UNCHANGED <<files, failed, starts, accepts>>

\* Time passes for the certificate, and an operator may remove a file.
Age ==
    /\ proc = "down" /\ cert.is = "whole" /\ ~old
    /\ old' = TRUE
    /\ UNCHANGED <<proc, life, work, cert, key, cut, failed, exit, bounds>>

Remove ==
    /\ proc = "down"
    /\ \/ cert.is # "none" /\ cert' = NoFile /\ UNCHANGED key
       \/ key.is # "none" /\ key' = NoFile /\ UNCHANGED cert
    /\ UNCHANGED <<proc, life, work, old, cut, failed, exit, bounds>>

Rest == proc = "down" /\ UNCHANGED vars

Main == Open \/ Certify \/ WritePair \/ CancelRun \/ Return \/ CloseStore \/ \E l \in Listeners : Hear(l)
ListenerRuns(l) == Listen(l) \/ ServeReturns(l)

Next ==
    \/ Start \/ Main \/ WriteFails
    \/ \E l \in Listeners : ListenerRuns(l) \/ ListenerFails(l)
    \/ Shutdown \/ Deadline
    \/ \E r \in Requests : (\E l \in Listeners : Accept(r, l)) \/ Acquire(r) \/ Execute(r) \/ GiveUp(r)
    \/ Signal \/ Kill \/ Age \/ Remove \/ Rest

\* The goroutines run, the timer fires, a statement ends, and a connection that
\* stays free goes to a request that waits.  The pool picks any of those that
\* wait: under an endless stream of requests more than this would be needed.
Fairness ==
    /\ WF_vars(Main) /\ WF_vars(Shutdown) /\ WF_vars(Deadline)
    /\ \A l \in Listeners : WF_vars(ListenerRuns(l))
    /\ \A r \in Requests : WF_vars(Acquire(r)) /\ WF_vars(Execute(r))

Spec == Init /\ [][Next]_vars /\ Fairness

-----------------------------------------------------------------------------
(* Properties.                                                             *)

\* A certificate with a key of another pair, or with half a key, is there only
\* when the writing of the pair was cut short: such a pair counts as usable and
\* no later start repairs it.
PairMatches == cert.is = "whole" /\ key.is # "none" => PairLoads \/ cut

\* The exit status tells what happened: clean only when nothing failed in this
\* life, also not the listener heard last; an error only when something did.
ExitIsTruthful ==
    /\ exit = "clean" => ~failed
    /\ exit = "error" => failed

\* The process leaves requests behind only after the five seconds of grace,
\* or when it is killed.
GraceKept ==
    [][proc = "running" /\ proc' # "running" /\ exit' # "killed"
           => expired \/ \A r \in Requests : req[r] = NoWork]_vars

\* A signal, or a listener that fails, ends the process, however many requests
\* are in flight.
StopsWhenAsked ==
    (signalled \/ (\E l \in Listeners : lst[l] = "failed")) ~> proc = "down"

\* Every request ends, with one connection for all of them: none waits for a
\* connection its own transaction holds.
RequestsEnd == \A r \in Requests : req[r] # NoWork ~> req[r] = NoWork
=============================================================================
