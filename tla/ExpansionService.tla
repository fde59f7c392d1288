-------------------------- MODULE ExpansionService --------------------------
(***************************************************************************)
(* What the API batcher promises the token transforms that use it: a       *)
(* transform asks for the expansion of an item (a transclusion, an         *)
(* extension tag, an image) and is told once, either the result or an      *)
(* error.  Requests for the same item that are outstanding together share  *)
(* one answer, and once an item has been expanded its result never changes *)
(* for the life of the parse.  Batches, queues, timers and the concurrency *)
(* limit are not visible here.                                             *)
(***************************************************************************)
CONSTANTS
    Req,        \* one call of Batcher.preprocess / parse / imageinfo
    Hash,       \* item identities (Util.makeHash of the parameters)
    HashOf,     \* the item that each request asks for
    Result,     \* what the API can answer for an item
    NotCached   \* "no entry" in the result cache

VARIABLES
    answer,      \* what each request has been told
    resultCache  \* the result recorded for each item

svars == <<answer, resultCache>>

Answers == {"idle", "waiting", "error"} \cup Result

Final == {"error"} \cup Result

Init ==
    /\ answer = [r \in Req |-> "idle"]
    /\ resultCache = [h \in Hash |-> NotCached]

\* A request for an item that is not known yet waits; one for a known item is
\* told the recorded result at once.
Ask(r) ==
    /\ answer[r] = "idle"
    /\ answer' = [answer EXCEPT ![r] =
                    IF resultCache[HashOf[r]] = NotCached
                      THEN "waiting" ELSE resultCache[HashOf[r]]]
    /\ UNCHANGED resultCache

Waiting(r, items) == answer[r] = "waiting" /\ HashOf[r] \in items

\* A set of unknown items is expanded: everyone who waits for one of them is
\* told its result, and the results are recorded.
Settle(items, result) ==
    /\ \A h \in items : resultCache[h] = NotCached
    /\ answer' = [r \in Req |-> IF Waiting(r, items)
                                  THEN result[HashOf[r]] ELSE answer[r]]
    /\ resultCache' = [h \in Hash |-> IF h \in items
                                        THEN result[h] ELSE resultCache[h]]

\* The expansion of a set of unknown items fails: everyone who waits for one of
\* them is told so, and nothing is recorded.
Fail(items) ==
    /\ \A h \in items : resultCache[h] = NotCached
    /\ answer' = [r \in Req |-> IF Waiting(r, items)
                                  THEN "error" ELSE answer[r]]
    /\ UNCHANGED resultCache

Next ==
    \/ \E r \in Req : Ask(r)
    \/ \E items \in SUBSET Hash :
          \/ Fail(items)
          \/ \E result \in [items -> Result] : Settle(items, result)

Spec == Init /\ [][Next]_svars
=============================================================================
