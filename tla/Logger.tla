------------------------------- MODULE Logger -------------------------------
(***************************************************************************)
(* Logger.log and _routeToBackends of lib/logger/Logger.js.  A message is  *)
(* given to every backend registered for its type; each settles in its own *)
(* time.  While the backends of a message are being called, another call   *)
(* of log is ignored, unless it is fatal: then it is queued, with a        *)
(* deferred for its caller.  When all backends of a fatal message have     *)
(* settled the process is ended, a little later.                           *)
(*                                                                         *)
(* A message stands for one call of log.  Messages that no backend is      *)
(* registered for, or that sampling drops, return at once and are left     *)
(* out.                                                                    *)
(***************************************************************************)
EXTENDS Naturals, SequencesExt

CONSTANTS
    Message,  \* the calls of log that reach a backend
    Fatal,    \* those whose type is exactly 'fatal'
    Nested,   \* message -> the messages its backends log while being called
    Backend,
    Throws    \* <<message, backend>>: the backend throws when called with it

VARIABLES
    status,  \* message -> "new", "ignored", "queued" or "routed"
    result,  \* message -> what log returned: "none", "undefined", "pending" or "done"
    queue,   \* _logRequestQueue: argument lists and deferreds, in pairs
    open,    \* message -> backends whose promise is not settled
    timers,  \* fatal messages whose exit timer is running
    exited

vars == <<status, result, queue, open, timers, exited>>

\* Messages that are not logged from within a backend.
TopLevel == {m \in Message : \A n \in Message : ~Contains(Nested[n], m)}

-----------------------------------------------------------------------------
(* log, on a record of the variables it changes *)

Logger == [status |-> status, result |-> result, queue |-> queue, open |-> open]

\* A call while processingLogRequest is set.
logNested(l, m) ==
    IF m \in Fatal
      THEN [l EXCEPT !.status[m] = "queued", !.result[m] = "pending",
                     !.queue = @ \o <<[kind |-> "args", msg |-> m],
                                      [kind |-> "deferred", msg |-> m]>>]
      ELSE [l EXCEPT !.status[m] = "ignored", !.result[m] = "undefined"]

\* _routeToBackends: every backend is called, and may log in turn.
routeToBackends(l, m) ==
    FoldLeft(logNested,
             [l EXCEPT !.status[m] = "routed", !.result[m] = "pending", !.open[m] = Backend],
             Nested[m])

\* Afterwards a request is taken from the queue with two calls of pop, the first
\* for the arguments.  But the queue holds pairs with the deferred last, so log is
\* applied to a deferred, which is no list, has no type to route and returns
\* undefined: the exception that follows is caught, and this call of log returns
\* undefined too.
log(l, m) ==
    LET routed == routeToBackends(l, m)
    IN  IF routed.queue = <<>> THEN routed
        ELSE [routed EXCEPT !.queue = Front(Front(@)), !.result[m] = "undefined"]

-----------------------------------------------------------------------------
(* The events *)

Init ==
    /\ status = [m \in Message |-> "new"]
    /\ result = [m \in Message |-> "none"]
    /\ queue = <<>>
    /\ open = [m \in Message |-> {}]
    /\ timers = {}
    /\ exited = FALSE

Log(m) ==
    LET l == log(Logger, m)
    IN  /\ status[m] = "new"
        /\ status' = l.status
        /\ result' = l.result
        /\ queue' = l.queue
        /\ open' = l.open
        /\ UNCHANGED <<timers, exited>>

\* Mistake: the exit timer starts with the first backend that settles.
AllDoneAtOnce(m, left) == TRUE

\* Mistake: the exit is tied to the promise that the caller was given.
AllDoneForCaller(m, left) == left = {} /\ result[m] = "pending"

\* Promise.all of the backends of m resolves.
AllDone(m, left) == left = {}

\* The promise of a backend settles; a backend that threw has a promise that
\* nobody resolves.  The last one resolves the promise of log, if its caller got
\* it, and starts the exit timer of a fatal message.
BackendSettles(m, b) ==
    LET left == open[m] \ {b}
    IN  /\ b \in open[m] /\ <<m, b>> \notin Throws
        /\ open' = [open EXCEPT ![m] = left]
        /\ IF AllDone(m, left)
             THEN /\ result' = [result EXCEPT ![m] = IF @ = "pending" THEN "done" ELSE @]
                  /\ timers' = IF m \in Fatal THEN timers \cup {m} ELSE timers
             ELSE UNCHANGED <<result, timers>>
        /\ UNCHANGED <<status, queue, exited>>

\* setTimeout(process.exit, 100)
Exit(m) ==
    /\ m \in timers
    /\ exited' = TRUE
    /\ UNCHANGED <<status, result, queue, open, timers>>

Settle == \E m \in Message : Exit(m) \/ \E b \in Backend : BackendSettles(m, b)

Next == ~exited /\ ((\E m \in TopLevel : Log(m)) \/ Settle)

Spec == Init /\ [][Next]_vars

-----------------------------------------------------------------------------
(* Properties *)

\* "If logType is fatal, exits process after logging to all backends": the
\* process is not ended by a message that a backend still has to deliver.
ExitsAfterLogging == exited => \E m \in Fatal : status[m] = "routed" /\ open[m] = {}

\* A fatal message that reaches the backends ends the process, whatever the
\* backends log meanwhile and whoever else is logging.
Settled == \A m \in Fatal : status[m] = "routed" => exited

\* "We put all fatal log events on the logRequestQueue for processing later on":
\* a queued message is on the queue until it is routed.
QueuedIsKept ==
    \A m \in Message : status[m] = "queued" =>
        \E i \in 1..Len(queue) : queue[i] = [kind |-> "args", msg |-> m]

-----------------------------------------------------------------------------
(* For TLC: the backends of the error "e" log a fatal message and one that is *)
(* not; those of the fatal "g" log two fatal ones; "f", which is fatal, and    *)
(* "w" make them log nothing.                                                  *)

MCMessage == {"e", "f", "g", "w", "ef", "ew", "gf1", "gf2"}
MCFatal == {"f", "g", "ef", "gf1", "gf2"}
MCNested == [m \in MCMessage |->
    CASE m = "e" -> <<"ew", "ef">>
      [] m = "g" -> <<"gf1", "gf2">>
      [] OTHER -> <<>>]
=============================================================================
