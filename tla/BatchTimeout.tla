---------------------------- MODULE BatchTimeout ----------------------------
(***************************************************************************)
(* The clocks of one batch: the timeout of each attempt of its             *)
(* BatchRequest (lib/mw/ApiRequest.js), which is raised before a retry,    *)
(* and the responseTimer that Batcher.dispatch (lib/mw/Batcher.js) starts  *)
(* when it sends the batch, and that ends the process when it fires.  In   *)
(* Batcher the timer may fire at any time; here time is counted.           *)
(***************************************************************************)
EXTENDS Integers

CONSTANTS
    Timeout,  \* timeouts.mwApi.batch, in seconds
    Retries,  \* retries.mwApi.all
    Slack,    \* the 5 * 1000 of maxResponseLatency
    Factor    \* values of 3 + Math.random(), rounded

VARIABLES
    now,      \* seconds since the batch was dispatched
    timeout,  \* requestOptions.timeout of the attempt under way
    started,  \* when that attempt was sent
    retries,
    state     \* "sent", "stalled", "answered", "failed" or "killed"

vars == <<now, timeout, started, retries, state>>

maxResponseLatency == Timeout * (1 + Retries) + Slack

\* The HTTP client gives an attempt up when the answer has not begun.
Deadline == started + timeout

Init == now = 0 /\ timeout = Timeout /\ started = 0 /\ retries = Retries /\ state = "sent"

Tick ==
    /\ state \in {"sent", "stalled"}
    /\ state = "sent" => now < Deadline
    /\ now < maxResponseLatency
    /\ now' = now + 1
    /\ UNCHANGED <<timeout, started, retries, state>>

\* The answer arrives, with results or an error of the API: onBatchResponse
\* clears the timer.
Answer ==
    /\ state = "sent"
    /\ state' = "answered"
    /\ UNCHANGED <<now, timeout, started, retries>>

\* The answer has begun, and does not end.
Stall ==
    /\ state = "sent"
    /\ state' = "stalled"
    /\ UNCHANGED <<now, timeout, started, retries>>

\* The attempt fails, at its deadline at the latest: it is retried with a longer
\* timeout, or the error is passed on.
Fail ==
    /\ state = "sent"
    /\ IF retries > 0
         THEN /\ retries' = retries - 1
              /\ \E f \in Factor : timeout' = timeout * f
              /\ started' = now
              /\ UNCHANGED state
         ELSE /\ state' = "failed"
              /\ UNCHANGED <<timeout, started, retries>>
    /\ UNCHANGED now

\* handleResponseTimeout
ResponseTimeout ==
    /\ state \in {"sent", "stalled"} /\ now = maxResponseLatency
    /\ state' = "killed"
    /\ UNCHANGED <<now, timeout, started, retries>>

Next == Tick \/ Answer \/ Stall \/ Fail \/ ResponseTimeout

Spec == Init /\ [][Next]_vars

\* "This is to catch scenarios where we get no response back": the process is
\* not ended while an attempt may still be answered within its own timeout.
TimerIsLastResort == [][ResponseTimeout => state = "stalled"]_vars
=============================================================================
