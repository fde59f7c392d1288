------------------------------ MODULE HttpService ------------------------------
(***************************************************************************)
(* The life of a request to the HTTP API: the middleware of api/routes.js  *)
(* (v3Middle, updateActiveRequests, parserEnvMw, acceptable), the routes   *)
(* v3Get and v3Post, and the versions of the content that goes in and out  *)
(* (api/apiUtils.js, parse.js, FromHTML.js).  Without workers one process  *)
(* serves all requests, and the timeout of one of them ends it, after the  *)
(* 100 ms that the message about it is given.                              *)
(*                                                                         *)
(* A version is <<major, minor>>.  What a request asks for is chosen when  *)
(* the code looks at it.                                                   *)
(***************************************************************************)
EXTENDS Naturals, Sequences

CONSTANTS
    Requests,
    Accepts,     \* Accept headers: sequences of versions by quality
    Versions     \* versions that documents sent by clients may have

VARIABLES
    useWorker,   \* parsing is done by a farm of other processes
    reqs,        \* request -> see Idle
    ended       \* the process has ended

NoVersion == <<0, 0>>
AnyVersion == <<0, 1>>  \* a type without a profile, or a wildcard

\* state: "new", "routed", "environment", "acceptable", then the asynchronous work
\* that is under way: "info" (the revision is fetched), "parse", or "over".
\* sent: the answers; finished: the last of them has gone out.  timer: the timeout is
\* running; expired: it has fired, and then whether the answer was out; from then on
\* the second timer runs, which ends the process.
Idle == [state |-> "new", op |-> "none", accept |-> <<>>, output |-> NoVersion, input |-> NoVersion,
         original |-> NoVersion, src |-> FALSE, timer |-> FALSE, expired |-> "no", sent |-> <<>>,
         finished |-> FALSE, closed |-> FALSE]

Init ==
    /\ useWorker \in BOOLEAN
    /\ reqs = [r \in Requests |-> Idle]
    /\ ended = FALSE

-----------------------------------------------------------------------------
(* Versions *)

availableVersions == <<<<2, 0>>, <<1, 8>>, <<999, 0>>>>

Caret(v, a) == a[1] = v[1] /\ a[2] >= v[2]

\* The first version Parsoid can produce that satisfies ^v; none before 1.6.
resolveContentVersion(v) ==
    LET Fits(i) == Caret(v, availableVersions[i]) /\ (v[1] = 1 => v[2] >= 6) /\ v[1] > 0
    IN  IF \E i \in 1..3 : Fits(i)
          THEN availableVersions[CHOOSE i \in 1..3 : Fits(i) /\ \A j \in 1..(i - 1) : ~Fits(j)]
          ELSE NoVersion

\* Mistake: the first type of the header that names a version is taken, and
\* what cannot be resolved leaves the default.
validateAndSetFirst(accept) ==
    IF accept = <<>> \/ Head(accept) = AnyVersion \/ resolveContentVersion(Head(accept)) = NoVersion
      THEN availableVersions[1] ELSE resolveContentVersion(Head(accept))

\* validateAndSetOutputContentVersion: the best type that can be served, or none.
\* Without a header, or a profile in it, that is the default.
validateAndSetOutputContentVersion(accept) ==
    LET Serves(i) == accept[i] = AnyVersion \/ resolveContentVersion(accept[i]) # NoVersion
        Best == CHOOSE i \in DOMAIN accept : Serves(i) /\ \A j \in 1..(i - 1) : ~Serves(j)
    IN  IF accept = <<>> THEN availableVersions[1]
        ELSE IF ~\E i \in DOMAIN accept : Serves(i) THEN NoVersion
        ELSE IF accept[Best] = AnyVersion THEN availableVersions[1]
        ELSE resolveContentVersion(accept[Best])

findDowngrade(from, to) ==
    \/ Caret(<<999, 0>>, from) /\ Caret(<<2, 0>>, to)
    \/ Caret(<<2, 0>>, from) /\ Caret(<<1, 0>>, to)

-----------------------------------------------------------------------------
(* Answers.  Every way to send one looks at headersSent first. *)

Respond(q, answer) == IF q.sent # <<>> THEN q ELSE [q EXCEPT !.sent = <<answer>>]

Over(req) == [req EXCEPT !.state = "over"]
Error == [kind |-> "error", version |-> NoVersion]

\* Mistake: it is held to be too late once the work has begun.
errBackEarly(q) == IF q.closed \/ q.state = "parse" THEN Over(q) ELSE Over(Respond(q, Error))

\* fatalRequest, errorHandler: 'fatal/request' is logged, and errBack, which the
\* environment has as a backend, sends the error unless it is too late.
errBack(q) == IF q.closed THEN Over(q) ELSE Over(Respond(q, Error))

\* wt2htmlRes, plainResponse, _redirect.  The client may have gone; then the answer
\* is written to a closed socket.
Answer(q, kind, version) == Over(Respond(q, [kind |-> kind, version |-> version]))

-----------------------------------------------------------------------------
(* The middleware *)

Is(r, state) == ~ended /\ reqs[r].state = state
Set(r, req) == reqs' = [reqs EXCEPT ![r] = req] /\ UNCHANGED <<useWorker, ended>>

\* v3Middle: format, domain or method may be invalid; otherwise the request is made
\* active, with a timer if this is the process that does the work.
v3Middle(r) ==
    /\ Is(r, "new")
    /\ \/ Set(r, Over(Respond(reqs[r], Error)))
       \/ \E op \in {"source", "wt2html", "html2wt", "pb2pb"} :
             Set(r, [reqs[r] EXCEPT !.state = "routed", !.op = op, !.timer = ~useWorker])

\* parserEnvMw: the configuration of the wiki comes, or errBack is called.
parserEnvMw(r) ==
    /\ Is(r, "routed")
    /\ Set(r, errBack(reqs[r])) \/ Set(r, [reqs[r] EXCEPT !.state = "environment"])

acceptable(r) ==
    /\ Is(r, "environment")
    /\ IF reqs[r].op \in {"source", "html2wt"}
         THEN Set(r, [reqs[r] EXCEPT !.state = "acceptable"])
         ELSE \E accept \in Accepts :
                LET version == validateAndSetOutputContentVersion(accept)
                    q == [reqs[r] EXCEPT !.accept = accept, !.output = version,
                                         !.state = "acceptable"]
                IN  Set(r, IF version = NoVersion THEN errBack(q) ELSE q)

-----------------------------------------------------------------------------
(* The routes *)

\* GET of the source, or of the HTML without a revision: the revision is fetched
\* first.  With text or a revision the page is parsed.
StartWt2html(r) ==
    /\ Is(r, "acceptable") /\ reqs[r].op \in {"source", "wt2html"}
    /\ \/ Set(r, [reqs[r] EXCEPT !.state = "info"])
       \/ reqs[r].op = "wt2html" /\ Set(r, [reqs[r] EXCEPT !.state = "parse"])
       \/ reqs[r].op = "wt2html" /\ Set(r, errBack(reqs[r]))  \* neither title nor text

\* Mistake: an original that is not of the version of the edited document is
\* taken as it is.
OriginalAsSent(edited, original, bundle) == [ok |-> TRUE, input |-> edited, original |-> original]

\* html2wt: the version of the edited document decides, and an original of another
\* one is downgraded to it, if it came in a page bundle and there is a way to.
OriginalFor(edited, original, bundle) ==
    LET Fits(input, old) == [ok |-> TRUE, input |-> input, original |-> old]
    IN  IF edited = NoVersion \/ edited = original THEN Fits(original, original)
        ELSE IF findDowngrade(original, edited) /\ bundle THEN Fits(edited, edited)
        ELSE [ok |-> FALSE, input |-> edited, original |-> original]

Html2wt(r) ==
    /\ Is(r, "acceptable") /\ reqs[r].op = "html2wt"
    /\ \/ Set(r, errBack(reqs[r]))  \* no HTML, an original without version, a bad bundle
       \/ \E edited \in Versions \cup {NoVersion}, src \in BOOLEAN :
             LET input == IF edited = NoVersion THEN availableVersions[1] ELSE edited
             IN  Set(r, [reqs[r] EXCEPT !.state = "parse", !.input = input, !.src = src])
       \/ \E edited \in Versions \cup {NoVersion}, original \in Versions, bundle \in BOOLEAN, src \in BOOLEAN :
             LET old == OriginalFor(edited, original, bundle)
                 q == [reqs[r] EXCEPT !.input = old.input, !.original = old.original, !.src = src,
                                      !.state = "parse"]
             IN  Set(r, IF old.ok THEN q ELSE errBack(q))

\* pb2pb: an update of red links or variants answers in the version it was given.
\* Otherwise the revision is downgraded, or parsed again if it is near enough to be
\* of use, which without a revision id ends in a redirect.
Pb2pb(r) ==
    /\ Is(r, "acceptable") /\ reqs[r].op = "pb2pb"
    /\ \/ Set(r, errBack(reqs[r]))  \* no HTML or no version
       \/ \E input \in Versions :
             LET q == [reqs[r] EXCEPT !.input = input]
             IN  \/ Set(r, [q EXCEPT !.op = "update", !.state = "info"])
                 \/ Set(r, IF findDowngrade(input, q.output) THEN Answer(q, "html", q.output)
                           ELSE IF Caret(input, q.output) THEN [q EXCEPT !.op = "wt2html", !.state = "parse"]
                           ELSE errBack(q))
                 \/ /\ ~findDowngrade(input, q.output)
                    /\ Caret(input, q.output)
                    /\ Set(r, [q EXCEPT !.op = "wt2html", !.state = "info"])

\* setPageSrcInfo answers: the source, a redirect to the latest revision, or the
\* updated revision; or it fails.
Info(r) ==
    LET q == reqs[r]
    IN  /\ Is(r, "info")
        /\ \/ Set(r, errBack(q))
           \/ q.op = "source" /\ Set(r, Answer(q, "wikitext", NoVersion))
           \/ q.op \in {"source", "wt2html"} /\ Set(r, Answer(q, "redirect", NoVersion))
           \/ q.op = "update" /\ Set(r, Answer(q, "html", q.input))

\* fetchSelser: a source that was not sent is fetched, an original DOM that was not
\* is made from the source.  Selective serialization needs both, and a revision.
Serialized(src, dom, original) ==
    IF ~src \/ (original = NoVersion /\ ~dom) THEN "full"
    ELSE IF original = NoVersion THEN "selser, made" ELSE "selser, sent"

\* parse() resolves, or rejects: a worker that times out, too many calls, an exception.
Parse(r) ==
    LET q == reqs[r]
    IN  /\ Is(r, "parse")
        /\ \/ Set(r, errBack(q))
           \/ q.op = "wt2html" /\ Set(r, Answer(q, "html", q.output))
           \/ /\ q.op = "html2wt"
              /\ \/ Set(r, Answer(q, "full", NoVersion))
                 \/ \E fetched \in {q.src, TRUE}, dom \in BOOLEAN :
                      Set(r, Answer(q, Serialized(fetched, dom, q.original), q.original))

-----------------------------------------------------------------------------
(* The connection and the timers *)

\* Mistake: the timer is not cleared.
FinishedOnly(q) == [q EXCEPT !.finished = TRUE]

Finished(q) == [q EXCEPT !.finished = TRUE, !.timer = FALSE]

\* 'finish': the answer is out.
Finish(r) ==
    /\ ~ended /\ reqs[r].sent # <<>> /\ ~reqs[r].finished /\ ~reqs[r].closed
    /\ Set(r, Finished(reqs[r]))

\* The client closes the connection; nothing in the service listens for that.
Close(r) ==
    /\ ~ended /\ reqs[r].state # "new" /\ ~reqs[r].finished /\ ~reqs[r].closed
    /\ Set(r, [reqs[r] EXCEPT !.closed = TRUE])

\* The timeout of a request: 'fatal' is logged, and another timer is set.
TimeOut(r) ==
    /\ ~ended /\ reqs[r].timer
    /\ Set(r, [reqs[r] EXCEPT !.timer = FALSE,
                              !.expired = IF reqs[r].finished THEN "answered" ELSE "unanswered"])

\* That timer ends the process.  Nothing stops it: the answer may have gone out in the
\* meantime, and the other requests are lost.
Exit(r) ==
    /\ ~ended /\ reqs[r].expired # "no"
    /\ ended' = TRUE
    /\ UNCHANGED <<useWorker, reqs>>

Work(r) ==
    \/ v3Middle(r) \/ parserEnvMw(r) \/ acceptable(r)
    \/ StartWt2html(r) \/ Html2wt(r) \/ Pb2pb(r) \/ Info(r) \/ Parse(r) \/ Finish(r) \/ Exit(r)

WorkStep == \E r \in Requests : Work(r)

Next == WorkStep \/ \E r \in Requests : Close(r) \/ TimeOut(r)

-----------------------------------------------------------------------------
(* Properties *)

\* The HTML that is sent has a version the client accepts, unless the client asked
\* for an update of HTML it sent.
ServedAsAsked ==
    \A r \in Requests : \A i \in DOMAIN reqs[r].sent :
        LET q == reqs[r]
        IN  (q.sent[i].kind = "html" /\ q.op # "update") =>
               \/ q.accept = <<>>
               \/ \E j \in DOMAIN q.accept : q.accept[j] = AnyVersion \/ Caret(q.accept[j], q.sent[i].version)

\* "We need to downgrade the original to match the edited doc's version": selective
\* serialization compares an original that was sent with an edited document of the
\* same version.
LikeWithLike ==
    \A r \in Requests : \A i \in DOMAIN reqs[r].sent :
        reqs[r].sent[i].kind = "selser, sent" => reqs[r].sent[i].version = reqs[r].input

\* The process is ended for a request whose answer was not out when its timeout fired;
\* a timeout never fires for a request whose answer is out.  (An answer may still go
\* out in the 100 ms after that; the process ends all the same.)
EndedForCause ==
    /\ \A r \in Requests : reqs[r].expired # "answered"
    /\ ended => \E r \in Requests : reqs[r].expired = "unanswered"

\* A request is settled when its answer is out, its client has gone or the process
\* has ended; and a timeout that has fired has ended it.
Settled ==
    ended \/ \A r \in Requests : (reqs[r].finished \/ reqs[r].closed) /\ reqs[r].expired = "no"
=============================================================================
