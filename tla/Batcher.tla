------------------------------ MODULE Batcher ------------------------------
(***************************************************************************)
(* lib/mw/Batcher.js: the object that combines the expansion requests of   *)
(* one parse into batches for the ParsoidBatchAPI extension.  A request    *)
(* for an item nobody waits for is put on the current batch; one for an    *)
(* item somebody waits for only registers its callback.  A full batch is   *)
(* sealed and dispatched when fewer than TargetConcurrency batches are     *)
(* outstanding, otherwise it is queued; an incomplete batch is dispatched  *)
(* by a zero-delay timer or by a response that finds no batch queued.      *)
(*                                                                         *)
(* A batch is the set of the hashes of its items: the code pairs params i  *)
(* with result i and the hash is all it uses of the params afterwards.     *)
(* The function [batch -> Result] of a response is that pairing.           *)
(***************************************************************************)
EXTENDS Integers, Sequences, FiniteSets

CONSTANTS Req, Hash, HashOf, Result, NotCached,
          MaxBatchSize,      \* env.conf.parsoid.batchSize
          TargetConcurrency  \* env.conf.parsoid.batchConcurrency

ASSUME RequestAssumption == HashOf \in [Req -> Hash]
ASSUME LimitAssumption ==
    /\ MaxBatchSize \in Nat \ {0}
    /\ TargetConcurrency \in Nat \ {0}
ASSUME ResultAssumption ==
    /\ NotCached \notin Result
    /\ Result \cap {"idle", "waiting", "error"} = {}
ASSUME HashAssumption == IsFiniteSet(Hash)

VARIABLES
    answer,         \* the promise each caller holds
    itemCallbacks,  \* hash -> requests whose callbacks are registered ({}: no key)
    currentBatch,   \* the batch being filled
    pendingBatches, \* sealed batches that wait for a free slot
    inFlight,       \* batches dispatched and not answered
    numOutstanding, \* the counter the code keeps of them
    timer,          \* forwardProgressTimer: null, armed, or a handle already fired
    resultCache,    \* hash -> result
    timedOut,       \* batches in flight whose responseTimer has fired
    process         \* "up", "dying" (fatal logged, exit scheduled), "exited"

vars == <<answer, itemCallbacks, currentBatch, pendingBatches, inFlight,
          numOutstanding, timer, resultCache, timedOut, process>>

Service == INSTANCE ExpansionService

Batch == (SUBSET Hash) \ {{}}

TypeOK ==
    /\ answer \in [Req -> Service!Answers]
    /\ itemCallbacks \in [Hash -> SUBSET Req]
    /\ currentBatch \in SUBSET Hash
    /\ pendingBatches \in Seq(Batch)
    /\ inFlight \in SUBSET Batch
    /\ numOutstanding \in 0..TargetConcurrency
    /\ timer \in {"none", "armed", "fired"}
    /\ resultCache \in [Hash -> Result \cup {NotCached}]
    /\ timedOut \in SUBSET inFlight
    /\ process \in {"up", "dying", "exited"}

Init ==
    /\ answer = [r \in Req |-> "idle"]
    /\ itemCallbacks = [h \in Hash |-> {}]
    /\ currentBatch = {}
    /\ pendingBatches = <<>>
    /\ inFlight = {}
    /\ numOutstanding = 0
    /\ timer = "none"
    /\ resultCache = [h \in Hash |-> NotCached]
    /\ timedOut = {}
    /\ process = "up"

-----------------------------------------------------------------------------
(* Dispatching *)

\* Mistake: the loop condition of dispatch is `<=`.
DispatchableOffByOne(out, queue) ==
    LET room == TargetConcurrency - out + 1
    IN  IF Len(queue) < room THEN Len(queue) ELSE room

\* How many iterations the loop of dispatch makes with `out` batches
\* outstanding and the queue `queue`.
Dispatchable(out, queue) ==
    LET room == TargetConcurrency - out
    IN  IF Len(queue) < room THEN Len(queue) ELSE room

\* dispatch: send queued batches, oldest first, while there is room.
dispatch(out, queue, flying) ==
    LET n == Dispatchable(out, queue)
    IN  /\ numOutstanding' = out + n
        /\ pendingBatches' = SubSeq(queue, n + 1, Len(queue))
        /\ inFlight' = flying \cup {queue[i] : i \in 1..n}

\* Mistake: a sealed batch is queued but dispatch is not called.
sealBatchAndDispatchOnlySeals(batch, out, flying) ==
    /\ currentBatch' = {}
    /\ pendingBatches' = Append(pendingBatches, batch)
    /\ numOutstanding' = out
    /\ inFlight' = flying

\* sealBatchAndDispatch, for the batch `batch`.
sealBatchAndDispatch(batch, out, flying) ==
    /\ currentBatch' = {}
    /\ dispatch(out, Append(pendingBatches, batch), flying)

\* Mistake: forceDispatch never seals an incomplete batch.
forceDispatchOnlyQueued(out, flying) ==
    /\ dispatch(out, pendingBatches, flying)
    /\ UNCHANGED currentBatch

\* forceDispatch: with nothing queued an incomplete batch is sealed, otherwise
\* only complete batches go.
forceDispatch(out, flying) ==
    IF pendingBatches = <<>> /\ currentBatch # {}
      THEN sealBatchAndDispatch(currentBatch, out, flying)
      ELSE /\ dispatch(out, pendingBatches, flying)
           /\ UNCHANGED currentBatch

-----------------------------------------------------------------------------
(* The calls of the token transforms *)

\* A request for an item in the result cache is answered from it.
CacheHit(r) ==
    /\ process # "exited"
    /\ answer[r] = "idle"
    /\ resultCache[HashOf[r]] # NotCached
    /\ answer' = [answer EXCEPT ![r] = resultCache[HashOf[r]]]
    /\ UNCHANGED <<itemCallbacks, currentBatch, pendingBatches, inFlight,
                   numOutstanding, timer, resultCache, timedOut, process>>

\* pushGeneric for an item some request already waits for: only the callback
\* is registered, and the timer is left alone.
JoinItem(r) ==
    /\ itemCallbacks[HashOf[r]] # {}
    /\ UNCHANGED <<currentBatch, pendingBatches, inFlight, numOutstanding, timer>>

\* Mistake: an item is batched although callbacks wait for it already.
NewItemNoDedupe(r) ==
    LET batch == currentBatch \cup {HashOf[r]}
    IN  IF Cardinality(batch) >= MaxBatchSize
          THEN /\ timer' = "none"
               /\ sealBatchAndDispatch(batch, numOutstanding, inFlight)
          ELSE /\ timer' = "armed"
               /\ currentBatch' = batch
               /\ UNCHANGED <<pendingBatches, inFlight, numOutstanding>>

\* Mistake: resetForwardProgressTimer is not called for a new item.
NewItemNoTimer(r) ==
    LET batch == currentBatch \cup {HashOf[r]}
    IN  /\ itemCallbacks[HashOf[r]] = {}
        /\ IF Cardinality(batch) >= MaxBatchSize
             THEN /\ timer' = "none"
                  /\ sealBatchAndDispatch(batch, numOutstanding, inFlight)
             ELSE /\ currentBatch' = batch
                  /\ UNCHANGED <<timer, pendingBatches, inFlight, numOutstanding>>

\* pushGeneric for a new item.
NewItem(r) ==
    LET batch == currentBatch \cup {HashOf[r]}
    IN  /\ itemCallbacks[HashOf[r]] = {}
        /\ IF Cardinality(batch) >= MaxBatchSize
             THEN /\ timer' = "none"
                  /\ sealBatchAndDispatch(batch, numOutstanding, inFlight)
             ELSE /\ timer' = "armed"
                  /\ currentBatch' = batch
                  /\ UNCHANGED <<pendingBatches, inFlight, numOutstanding>>

pushGeneric(r) ==
    /\ process # "exited"
    /\ answer[r] = "idle"
    /\ resultCache[HashOf[r]] = NotCached
    /\ answer' = [answer EXCEPT ![r] = "waiting"]
    /\ itemCallbacks' = [itemCallbacks EXCEPT ![HashOf[r]] = @ \cup {r}]
    /\ JoinItem(r) \/ NewItem(r)
    /\ UNCHANGED <<resultCache, timedOut, process>>

\* preprocess, parse and imageinfo with useBatchAPI.
Request(r) == CacheHit(r) \/ pushGeneric(r)

-----------------------------------------------------------------------------
(* The event loop *)

\* The zero-delay timer fires.  At the concurrency limit nothing happens, and
\* the handle of the fired timer stays in forwardProgressTimer.
makeForwardProgress ==
    /\ process # "exited"
    /\ timer = "armed"
    /\ IF numOutstanding < TargetConcurrency
         THEN /\ forceDispatch(numOutstanding, inFlight)
              /\ timer' = "none"
         ELSE /\ timer' = "fired"
              /\ UNCHANGED <<currentBatch, pendingBatches, inFlight, numOutstanding>>
    /\ UNCHANGED <<answer, itemCallbacks, resultCache, timedOut, process>>

\* Mistake: the callback lists of the answered items are not deleted.
CompleteBatchKeepsCallbacks(b) ==
    /\ process # "exited"
    /\ b \in inFlight
    /\ forceDispatch(numOutstanding - 1, inFlight \ {b})
    /\ timedOut' = timedOut \ {b}
    /\ UNCHANGED <<itemCallbacks, timer, process>>

\* What onBatchResponse does for every batch: free the slot, clear the
\* response timer, refill the slots, and drop the items' callback lists.
CompleteBatch(b) ==
    /\ process # "exited"
    /\ b \in inFlight
    /\ forceDispatch(numOutstanding - 1, inFlight \ {b})
    /\ itemCallbacks' = [h \in Hash |-> IF h \in b THEN {} ELSE itemCallbacks[h]]
    /\ timedOut' = timedOut \ {b}
    /\ UNCHANGED <<timer, process>>

\* Mistake: callbacks of earlier, failed requests are still called.
CalledEver(b) == {r \in Req : answer[r] # "idle" /\ HashOf[r] \in b}

\* The requests whose callbacks a response for batch b calls.
Called(b) == UNION {itemCallbacks[h] : h \in b}

\* Mistake: the results are not recorded in resultCache.
BatchResultNotCached(b, result) ==
    /\ CompleteBatch(b)
    /\ answer' = [r \in Req |-> IF r \in Called(b)
                                  THEN result[HashOf[r]] ELSE answer[r]]
    /\ UNCHANGED resultCache

\* onBatchResponse with results: each item's result is cached and handed to
\* every callback registered for it.
BatchResult(b, result) ==
    /\ CompleteBatch(b)
    /\ answer' = [r \in Req |-> IF r \in Called(b)
                                  THEN result[HashOf[r]] ELSE answer[r]]
    /\ resultCache' = [h \in Hash |-> IF h \in b THEN result[h] ELSE resultCache[h]]

\* onBatchResponse with an error: every callback gets it, nothing is cached.
BatchError(b) ==
    /\ CompleteBatch(b)
    /\ answer' = [r \in Req |-> IF r \in Called(b) THEN "error" ELSE answer[r]]
    /\ UNCHANGED resultCache

\* The responseTimer of a batch fires: log 'fatal', which has the logger exit
\* the process 100ms later.
handleResponseTimeout(b) ==
    /\ process # "exited"
    /\ b \in inFlight \ timedOut
    /\ timedOut' = timedOut \cup {b}
    /\ process' = "dying"
    /\ UNCHANGED <<answer, itemCallbacks, currentBatch, pendingBatches, inFlight,
                   numOutstanding, timer, resultCache>>

\* process.exit(1) in Logger._routeToBackends.
Exit ==
    /\ process = "dying"
    /\ process' = "exited"
    /\ UNCHANGED <<answer, itemCallbacks, currentBatch, pendingBatches, inFlight,
                   numOutstanding, timer, resultCache, timedOut>>

Respond(b) == BatchError(b) \/ \E result \in [b -> Result] : BatchResult(b, result)

\* The steps of one batch: its response, or its response timer.
BatchStep(b) == Respond(b) \/ handleResponseTimeout(b)

Next ==
    \/ \E r \in Req : Request(r)
    \/ makeForwardProgress
    \/ \E b \in Batch : BatchStep(b)
    \/ Exit

Spec == Init /\ [][Next]_vars

\* The event loop runs every armed timer, each batch is answered or its
\* response timer fires, and a scheduled exit happens.
Fairness ==
    /\ WF_vars(makeForwardProgress)
    /\ \A b \in Batch : WF_vars(BatchStep(b))
    /\ WF_vars(Exit)

FairSpec == Spec /\ Fairness

-----------------------------------------------------------------------------
(* Properties *)

\* The batches that wait for a slot.
Queued == {pendingBatches[i] : i \in 1..Len(pendingBatches)}

\* The items the batcher holds: being batched, queued, or at the API.
Held == currentBatch \cup (UNION Queued) \cup (UNION inFlight)

\* The items somebody waits for are exactly those the batcher holds, and it
\* holds each in one place: pushGeneric never sends an item twice and no
\* response drops one (pushGeneric's `hash in itemCallbacks` test against the
\* `delete` in onBatchResponse, which runs after the next batch is dispatched).
OneHome ==
    /\ \A h \in Hash : itemCallbacks[h] # {} <=> h \in Held
    /\ \A b \in Queued \cup inFlight : b \cap currentBatch = {}
    /\ \A b \in Queued, c \in inFlight : b \cap c = {}
    /\ \A b, c \in inFlight : b # c => b \cap c = {}
    /\ \A i, j \in 1..Len(pendingBatches) :
          i # j => pendingBatches[i] \cap pendingBatches[j] = {}

\* The counter that gates dispatch is the number of batches at the API, and
\* never passes batchConcurrency, whatever mix of full batches, timers and
\* responses dispatched them.
ConcurrencyBound ==
    /\ numOutstanding = Cardinality(inFlight)
    /\ numOutstanding <= TargetConcurrency

\* There is always something that will move the next batch: queued batches
\* exist only while every slot is taken, and a partly filled batch with a free
\* slot has an armed timer.  makeForwardProgress drops its timer at the limit,
\* so this is what keeps a document from hanging.
NoStall ==
    /\ pendingBatches # <<>> => numOutstanding = TargetConcurrency
    /\ currentBatch # {} /\ numOutstanding < TargetConcurrency => timer = "armed"

\* The callbacks registered for an item are those of the callers that wait for
\* it: no caller is forgotten by a response and none is called again by a later
\* batch with the same item.
CallbacksAreWaiting ==
    \A h \in Hash : itemCallbacks[h] =
        {r \in Req : answer[r] = "waiting" /\ HashOf[r] = h}

\* Two callers with the same parameters never see different expansions in one
\* document, though they may ask before, during or after the API request.
SameAnswer ==
    \A r \in Req : answer[r] \in Result => resultCache[HashOf[r]] = answer[r]

\* An item that has been expanded is never sent to the API again.
NoRefetch == \A h \in Held : resultCache[h] = NotCached

\* A caller is answered once: neither a late response nor a second batch
\* changes what it was told.
AnsweredOnce ==
    [][\A r \in Req : answer[r] \in Service!Final => answer'[r] = answer[r]]_vars

\* No call of dispatch sends two batches.  The response listener of a batch
\* closes over `var batch`, which the iterations of dispatch's loop share: were
\* two batches sent by one call, both responses would be taken for the second.
OneDispatchPerCall == [][Cardinality(inFlight' \ inFlight) <= 1]_vars

\* The batcher implements the service the transforms rely on.
ImplementsService == Service!Spec

\* Every caller is answered, unless a batch timed out and took the process
\* with it.
EveryRequestAnswered ==
    \A r \in Req : answer[r] = "waiting" ~> (answer[r] \in Service!Final \/ process = "exited")

-----------------------------------------------------------------------------
(* For TLC: a request for each item, and the others ask for one of the items. *)

MCHashOf == [r \in Req |-> IF r \in Hash THEN r ELSE CHOOSE h \in Hash : TRUE]
=============================================================================
