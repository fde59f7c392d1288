----------------------------- MODULE ApiRequest -----------------------------
(***************************************************************************)
(* Requests for the source of a template: TemplateRequest and its base     *)
(* class in lib/mw/ApiRequest.js, with _fetchTemplateAndTitle of           *)
(* lib/wt2html/tt/TemplateHandler.js, which shares one request between all *)
(* the transclusions of a page that wait for it.  A request that fails is  *)
(* retried; its listeners are called one per turn of the event loop; a     *)
(* page that was fetched is kept in pageCache.                             *)
(*                                                                         *)
(* A caller is one transclusion, and asks at any time: what a listener     *)
(* starts goes through a promise first, so it asks in a later turn.        *)
(***************************************************************************)
EXTENDS Integers, FiniteSets, SequencesExt

CONSTANTS
    Title,
    Caller,
    TitleOf,  \* caller -> the template it transcludes
    Retries,  \* env.conf.parsoid.retries.mwApi.all
    Throws    \* callers whose listener throws an exception

VARIABLES
    answer,        \* what each caller was told
    pageCache,     \* titles whose source is cached
    requestQueue,  \* title -> the request that may be joined (0: none)
    requests,      \* every request made, see NewRequest
    fatal          \* a listener has thrown, and 'fatal' was logged

\* phase: "open" (sent, no answer yet), "turn" (a processSome is scheduled),
\* "over".
NewRequest(title, c) ==
    [title |-> title, retries |-> Retries, phase |-> "open", error |-> FALSE, listeners |-> <<c>>]

Answers == {"source", "error"}

Init ==
    /\ answer = [c \in Caller |-> "idle"]
    /\ pageCache = {}
    /\ requestQueue = [t \in Title |-> 0]
    /\ requests = <<>>
    /\ fatal = FALSE

-----------------------------------------------------------------------------
(* _fetchTemplateAndTitle *)

FromCache(c) ==
    /\ TitleOf[c] \in pageCache
    /\ answer' = [answer EXCEPT ![c] = "source"]
    /\ UNCHANGED <<requestQueue, requests>>

\* A request that waits for its answer is shared.
Join(c) ==
    LET r == requestQueue[TitleOf[c]]
    IN  /\ TitleOf[c] \notin pageCache /\ r # 0
        /\ requests' = [requests EXCEPT ![r].listeners = Append(@, c)]
        /\ answer' = [answer EXCEPT ![c] = "waiting"]
        /\ UNCHANGED requestQueue

\* Mistake: the queue is not looked at.
StartAlways(c) ==
    /\ TitleOf[c] \notin pageCache
    /\ requests' = Append(requests, NewRequest(TitleOf[c], c))
    /\ requestQueue' = [requestQueue EXCEPT ![TitleOf[c]] = Len(requests')]
    /\ answer' = [answer EXCEPT ![c] = "waiting"]

Start(c) ==
    /\ TitleOf[c] \notin pageCache /\ requestQueue[TitleOf[c]] = 0
    /\ requests' = Append(requests, NewRequest(TitleOf[c], c))
    /\ requestQueue' = [requestQueue EXCEPT ![TitleOf[c]] = Len(requests')]
    /\ answer' = [answer EXCEPT ![c] = "waiting"]

Fetch(c) ==
    /\ answer[c] = "idle"
    /\ FromCache(c) \/ Join(c) \/ Start(c)
    /\ UNCHANGED <<pageCache, fatal>>

-----------------------------------------------------------------------------
(* _requestCB *)

\* Mistake: the request stays in the queue until its listeners have run.
DequeuedLater(r) == requestQueue

Dequeued(r) == [requestQueue EXCEPT ![requests[r].title] = 0]

\* The connection failed, or timed out, and may be tried again: the same request
\* is sent once more.
Retry(r) ==
    /\ requests[r].phase = "open" /\ requests[r].retries > 0
    /\ requests' = [requests EXCEPT ![r].retries = @ - 1]
    /\ UNCHANGED <<answer, pageCache, requestQueue, fatal>>

\* The answer is an error, or a page: _handleJSON caches the page and schedules
\* the listeners, then the request is taken off the queue.
Answered(r, error) ==
    /\ requests[r].phase = "open"
    /\ requests' = [requests EXCEPT ![r].phase = "turn", ![r].error = error]
    /\ pageCache' = IF error THEN pageCache ELSE pageCache \cup {requests[r].title}
    /\ requestQueue' = Dequeued(r)
    /\ UNCHANGED <<answer, fatal>>

\* What a listener goes on with: revision['*'].  That is the text on a wiki without
\* slots, whose revisions have it there; with slots the code gets undefined.
Source(r) == IF requests[r].error THEN "error" ELSE "source"

\* Mistake: the last listener is not counted.
NextPhaseEarly(left) == IF Len(left) > 1 THEN "turn" ELSE "over"

NextPhase(left) == IF left = <<>> THEN "over" ELSE "turn"

\* processSome: the first listener is removed and called, and another turn is
\* scheduled if there are more.  An exception ends the turns of this request.
processSome(r) ==
    LET req  == requests[r]
        c    == Head(req.listeners)
        left == Tail(req.listeners)
    IN  /\ req.phase = "turn"
        /\ answer' = [answer EXCEPT ![c] = Source(r)]
        /\ requests' = [requests EXCEPT ![r].listeners = left,
                            ![r].phase = IF c \in Throws THEN "over" ELSE NextPhase(left)]
        /\ fatal' = (fatal \/ c \in Throws)
        /\ UNCHANGED <<pageCache, requestQueue>>

requestStep(r) == Retry(r) \/ Answered(r, TRUE) \/ Answered(r, FALSE) \/ processSome(r)

RequestStep == \E r \in 1..Len(requests) : requestStep(r)

Next ==
    \/ \E c \in Caller : Fetch(c)
    \/ RequestStep

-----------------------------------------------------------------------------
(* Properties *)

\* While the listeners of a request wait for their turns the request may not be
\* joined, and until then nobody starts another: a caller that waits is the
\* listener of one request, which will call it.
NobodyForgotten ==
    \A c \in Caller : answer[c] = "waiting" /\ ~fatal =>
        \E r \in 1..Len(requests) :
            /\ requests[r].phase # "over"
            /\ Contains(requests[r].listeners, c)
            /\ \A s \in 1..Len(requests) : Contains(requests[s].listeners, c) => s = r

\* A template is fetched again only when the earlier request for it has failed:
\* transclusions share the request that is under way, and then its result.
RefetchOnlyAfterError ==
    \A r, s \in 1..Len(requests) :
        r < s /\ requests[r].title = requests[s].title =>
            requests[r].phase # "open" /\ requests[r].error

\* Every transclusion goes on, with the source or an error, or the process is
\* about to end.
Settled == fatal \/ \A c \in Caller : answer[c] # "waiting"
=============================================================================
