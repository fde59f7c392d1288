---------------------------- MODULE ServiceProofs ----------------------------
(***************************************************************************)
(* Proofs about Service, for any requests, transclusions, log messages and *)
(* backends, and any number of retries.                                    *)
(*                                                                         *)
(* Each part has an inductive invariant of its own: HttpInv says what is   *)
(* known of a request in each of its states, ApiInv where the listeners    *)
(* that wait are, LogInv which messages the exit timers are for.           *)
(***************************************************************************)
EXTENDS Service, TLAPS, FiniteSetTheorems, SequenceTheorems

\* The messages that a backend logs are taken one after the other.
Nesting == INSTANCE SequenceFolds WITH op <- Log!logNested

-----------------------------------------------------------------------------
(* HttpService *)

Version == Nat \X Nat

HttpAnswer ==
    [kind : {"error", "html", "wikitext", "redirect", "full", "selser, made", "selser, sent"},
     version : Version]

HttpRequest ==
    [state : {"new", "routed", "environment", "acceptable", "info", "parse", "over"},
     op : {"none", "source", "wt2html", "html2wt", "pb2pb", "update"},
     accept : Seq(Version), output : Version, input : Version, original : Version,
     src : BOOLEAN, timer : BOOLEAN, expired : {"no", "unanswered"}, sent : Seq(HttpAnswer),
     finished : BOOLEAN, closed : BOOLEAN]

\* The client accepts version v.
AcceptedBy(accept, v) ==
    \/ accept = <<>>
    \/ \E j \in DOMAIN accept : accept[j] = Http!AnyVersion \/ Http!Caret(accept[j], v)

\* HTML is made in a version the client accepts, from the time the header was read.
OutputIsAsked(q) ==
    q.state \in {"acceptable", "info", "parse"} /\ q.op \in {"wt2html", "pb2pb", "update"} =>
        AcceptedBy(q.accept, q.output)

\* The original that parse() is given is of the version of the edited document.
OriginalFits(q) ==
    /\ q.state \in {"new", "routed", "environment", "acceptable"} => q.original = Http!NoVersion
    /\ q.state = "parse" /\ q.op = "html2wt" /\ q.original # Http!NoVersion =>
           q.original = q.input

AnswersFit(q) ==
    \A i \in DOMAIN q.sent :
        /\ q.sent[i].kind = "html" /\ q.op # "update" => AcceptedBy(q.accept, q.sent[i].version)
        /\ q.sent[i].kind = "selser, sent" => q.sent[i].version = q.input

\* What is sent is the end, and the timer is cleared when it is out.
SentIsOver(q) ==
    /\ q.sent # <<>> => q.state = "over"
    /\ q.finished => q.sent # <<>> /\ ~q.timer

GoodRequest(q) ==
    q \in HttpRequest /\ OutputIsAsked(q) /\ OriginalFits(q) /\ AnswersFit(q) /\ SentIsOver(q)

HttpInv ==
    /\ reqs \in [Requests -> HttpRequest]
    /\ ended \in BOOLEAN
    /\ \A r \in Requests : GoodRequest(reqs[r])
    /\ Http!EndedForCause

-----------------------------------------------------------------------------
(* ApiRequest *)

ApiRequestType ==
    [title : Title, retries : Nat, phase : {"open", "turn", "over"}, error : BOOLEAN,
     listeners : Seq(Caller)]

ApiTypeOK ==
    /\ answer \in [Caller -> {"idle", "waiting", "source", "error"}]
    /\ pageCache \subseteq Title
    /\ requestQueue \in [Title -> Nat]
    /\ requests \in Seq(ApiRequestType)
    /\ fatal \in BOOLEAN

\* The queue holds the requests that wait for an answer, each under its title.
QueueIsOpen ==
    /\ \A t \in Title : requestQueue[t] # 0 =>
           /\ requestQueue[t] \in 1..Len(requests)
           /\ requests[requestQueue[t]].title = t
           /\ requests[requestQueue[t]].phase = "open"
    /\ \A r \in 1..Len(requests) : requests[r].phase = "open" =>
           requestQueue[requests[r].title] = r

\* A listener is there once, and waits; a request that is not over has one.
ListenersWait ==
    /\ \A r \in 1..Len(requests) : requests[r].phase # "over" => requests[r].listeners # <<>>
    /\ \A r \in 1..Len(requests) : \A i \in 1..Len(requests[r].listeners) :
           answer[requests[r].listeners[i]] = "waiting"
    /\ \A r, s \in 1..Len(requests) :
       \A i \in 1..Len(requests[r].listeners), j \in 1..Len(requests[s].listeners) :
           requests[r].listeners[i] = requests[s].listeners[j] => r = s /\ i = j

WaitersListen ==
    \A c \in Caller : answer[c] = "waiting" /\ ~fatal =>
        \E r \in 1..Len(requests) :
            /\ requests[r].phase # "over"
            /\ \E i \in 1..Len(requests[r].listeners) : requests[r].listeners[i] = c

AnswersAreCached ==
    \A r \in 1..Len(requests) :
        requests[r].phase # "open" /\ ~requests[r].error => requests[r].title \in pageCache

ApiInv ==
    /\ ApiTypeOK
    /\ QueueIsOpen
    /\ ListenersWait
    /\ WaitersListen
    /\ AnswersAreCached
    /\ Api!RefetchOnlyAfterError

-----------------------------------------------------------------------------
(* Logger *)

LogTypeOK ==
    /\ status \in [Message -> {"new", "ignored", "queued", "routed"}]
    /\ result \in [Message -> {"none", "undefined", "pending", "done"}]
    /\ queue \in Seq([kind : {"args", "deferred"}, msg : Message])
    /\ open \in [Message -> SUBSET Backend]
    /\ timers \subseteq Fatal
    /\ exited \in BOOLEAN

LogInv ==
    /\ LogTypeOK
    /\ \A m \in Message : status[m] = "routed" => m \in Log!TopLevel
    /\ \A m \in Message : open[m] # {} => status[m] = "routed"
    /\ \A m \in timers : status[m] = "routed" /\ open[m] = {}
    /\ exited => timers # {}

IInv ==
    /\ part \in {"http", "api", "log"}
    /\ part = "http" => HttpInv
    /\ part = "api" => ApiInv
    /\ part = "log" => LogInv

-----------------------------------------------------------------------------
(* Versions *)

\* What resolveContentVersion finds is compatible with what it was asked for.
LEMMA ResolvedFits ==
    ASSUME NEW v \in Version
    PROVE  /\ Http!resolveContentVersion(v) \in Version
           /\ Http!resolveContentVersion(v) # Http!NoVersion =>
                  Http!Caret(v, Http!resolveContentVersion(v))
<1> DEFINE Fits(i) == /\ Http!Caret(v, Http!availableVersions[i])
                      /\ (v[1] = 1 => v[2] >= 6) /\ v[1] > 0
           First(i) == Fits(i) /\ \A j \in 1..(i - 1) : ~Fits(j)
           found == CHOOSE i \in 1..3 : First(i)
<1>1. \A i \in 1..3 : Http!availableVersions[i] \in Version
    BY DEF Http!availableVersions, Version
<1>2. CASE \E i \in 1..3 : Fits(i)
    <2> HIDE DEF Fits
    <2>1. \E i \in 1..3 : First(i)
        <3>1. CASE Fits(1)
            BY <3>1
        <3>2. CASE ~Fits(1) /\ Fits(2)
            <4>1. \A j \in 1..1 : j = 1
                OBVIOUS
            <4> QED BY <3>2, <4>1
        <3>3. CASE ~Fits(1) /\ ~Fits(2) /\ Fits(3)
            <4>1. \A j \in 1..2 : j = 1 \/ j = 2
                OBVIOUS
            <4> QED BY <3>3, <4>1
        <3>4. \A i \in 1..3 : i = 1 \/ i = 2 \/ i = 3
            OBVIOUS
        <3> QED BY <1>2, <3>1, <3>2, <3>3, <3>4
    <2>2. found \in 1..3 /\ First(found)
        BY <2>1
    <2>3. Http!resolveContentVersion(v) = Http!availableVersions[found]
        BY <1>2 DEF Http!resolveContentVersion, Fits
    <2> HIDE DEF found
    <2> QED BY <1>1, <2>2, <2>3 DEF Fits
<1>3. CASE ~\E i \in 1..3 : Fits(i)
    BY <1>3 DEF Http!resolveContentVersion, Http!NoVersion, Version
<1> QED BY <1>2, <1>3

\* The version that is chosen for a header is one the header accepts.
LEMMA ChosenIsAccepted ==
    ASSUME NEW accept \in Seq(Version)
    PROVE  /\ Http!validateAndSetOutputContentVersion(accept) \in Version
           /\ Http!validateAndSetOutputContentVersion(accept) # Http!NoVersion =>
                  AcceptedBy(accept, Http!validateAndSetOutputContentVersion(accept))
<1> DEFINE Serves(i) == \/ accept[i] = Http!AnyVersion
                        \/ Http!resolveContentVersion(accept[i]) # Http!NoVersion
           Best(i) == Serves(i) /\ \A j \in 1..(i - 1) : ~Serves(j)
           best == CHOOSE i \in DOMAIN accept : Best(i)
           version == Http!validateAndSetOutputContentVersion(accept)
<1>1. Http!availableVersions[1] \in Version /\ Http!NoVersion \in Version
    BY DEF Http!availableVersions, Http!NoVersion, Version
<1>2. CASE accept = <<>>
    BY <1>1, <1>2 DEF Http!validateAndSetOutputContentVersion, AcceptedBy
<1>3. CASE accept # <<>> /\ ~\E i \in DOMAIN accept : Serves(i)
    BY <1>1, <1>3 DEF Http!validateAndSetOutputContentVersion
<1>4. CASE accept # <<>> /\ \E i \in DOMAIN accept : Serves(i)
    <2> HIDE DEF Serves
    <2>1. \E i \in DOMAIN accept : Best(i)
        <3> DEFINE S == {i \in DOMAIN accept : Serves(i)}
        <3>1. S \in SUBSET Nat /\ S # {}
            BY <1>4
        <3>2. PICK n \in S : \A m \in S : n <= m
            BY <3>1, Nesting!LeastNat
        <3>3. \A j \in 1..(n - 1) : j \in DOMAIN accept /\ ~(n <= j)
            BY DEF S
        <3> QED BY <3>2, <3>3
    <2>2. best \in DOMAIN accept /\ Best(best)
        BY <2>1
    <2>3. version = IF accept[best] = Http!AnyVersion THEN Http!availableVersions[1]
                    ELSE Http!resolveContentVersion(accept[best])
        BY <1>4 DEF Http!validateAndSetOutputContentVersion, Serves
    <2> HIDE DEF best
    <2>4. accept[best] \in Version
        BY <2>2
    <2>5. CASE accept[best] = Http!AnyVersion
        BY <1>1, <2>2, <2>3, <2>5 DEF AcceptedBy
    <2>6. CASE accept[best] # Http!AnyVersion
        BY <2>2, <2>3, <2>4, <2>6, ResolvedFits DEF AcceptedBy
    <2> QED BY <2>5, <2>6
<1> QED BY <1>2, <1>3, <1>4

-----------------------------------------------------------------------------
(* The requests of HttpService *)

LEMMA Singleton ==
    ASSUME NEW S, NEW a \in S
    PROVE  /\ <<a>> \in Seq(S) /\ <<a>> # <<>> /\ <<a>>[1] = a
           /\ \A i \in DOMAIN <<a>> : i = 1
    OBVIOUS

\* A request that has not been answered may be, once, with what was asked for.
LEMMA RespondIsGood ==
    ASSUME NEW q \in HttpRequest, q.sent = <<>>, ~q.finished, NEW ans \in HttpAnswer,
           ans.kind = "html" /\ q.op # "update" => AcceptedBy(q.accept, ans.version),
           ans.kind = "selser, sent" => ans.version = q.input
    PROVE  GoodRequest(Http!Over(Http!Respond(q, ans)))
<1> DEFINE o == Http!Over(Http!Respond(q, ans))
<1>1. o = [q EXCEPT !.sent = <<ans>>, !.state = "over"]
    BY DEF Http!Over, Http!Respond, HttpRequest
<1>2. /\ <<ans>> \in Seq(HttpAnswer) /\ <<ans>> # <<>> /\ <<ans>>[1] = ans
      /\ \A i \in DOMAIN <<ans>> : i = 1
    BY Singleton, Zenon
<1>3. o \in HttpRequest
    BY <1>1, <1>2 DEF HttpRequest
<1>4. /\ o.sent = <<ans>> /\ o.state = "over" /\ o.finished = q.finished
      /\ o.op = q.op /\ o.accept = q.accept /\ o.input = q.input
    BY <1>1 DEF HttpRequest
<1> HIDE DEF o
<1>5. OutputIsAsked(o) /\ OriginalFits(o) /\ SentIsOver(o)
    BY <1>2, <1>4 DEF OutputIsAsked, OriginalFits, SentIsOver
<1>6. AnswersFit(o)
    BY <1>2, <1>4 DEF AnswersFit
<1> QED BY <1>3, <1>5, <1>6 DEF GoodRequest, o

LEMMA ErrorIsAnswer == Http!Error \in HttpAnswer /\ Http!Error.kind = "error"
    BY DEF Http!Error, HttpAnswer, Http!NoVersion, Version

\* So does the way out of every error.
LEMMA ErrBackIsGood ==
    ASSUME NEW q \in HttpRequest, q.sent = <<>>, ~q.finished
    PROVE  GoodRequest(Http!errBack(q))
<1>1. CASE q.closed
    <2> DEFINE o == Http!Over(q)
    <2>1. o = [q EXCEPT !.state = "over"]
        BY DEF Http!Over
    <2>2. o \in HttpRequest /\ o.sent = <<>> /\ o.state = "over" /\ ~o.finished
        BY <2>1 DEF HttpRequest
    <2> HIDE DEF o
    <2>3. GoodRequest(o)
        BY <2>2 DEF GoodRequest, OutputIsAsked, OriginalFits, AnswersFit, SentIsOver
    <2> QED BY <1>1, <2>3 DEF Http!errBack, o
<1>2. CASE ~q.closed
    BY <1>2, ErrorIsAnswer, RespondIsGood DEF Http!errBack
<1> QED BY <1>1, <1>2

\* A step of one request that leaves it in order keeps the invariant.
LEMMA SetKeepsInv ==
    ASSUME HttpInv, NEW r \in Requests, NEW q, GoodRequest(q), ~ended, Http!Set(r, q)
    PROVE  HttpInv'
<1>1. reqs' = [reqs EXCEPT ![r] = q] /\ ended' = ended
    BY DEF Http!Set
<1>2. q \in HttpRequest
    BY DEF GoodRequest
<1>3. reqs' \in [Requests -> HttpRequest] /\ ended' \in BOOLEAN
    BY <1>1, <1>2 DEF HttpInv
<1>4. \A s \in Requests : GoodRequest(reqs'[s])
    BY <1>1 DEF HttpInv
<1>5. Http!EndedForCause'
    <2>1. \A s \in Requests : reqs'[s].expired \in {"no", "unanswered"}
        BY <1>3 DEF HttpRequest
    <2> QED BY <1>1, <2>1 DEF Http!EndedForCause
<1>6. (\A s \in Requests : GoodRequest(reqs[s]))'
    BY <1>4
<1> QED BY <1>3, <1>5, <1>6 DEF HttpInv

\* A request that goes on unanswered is in order if its new state is.
LEMMA GoesOnGood ==
    ASSUME NEW q \in HttpRequest, q.sent = <<>>, ~q.finished, OutputIsAsked(q), OriginalFits(q)
    PROVE  GoodRequest(q)
BY DEF GoodRequest, AnswersFit, SentIsOver

LEMMA Unanswered ==
    ASSUME HttpInv, NEW r \in Requests, NEW state, Http!Is(r, state), state # "over"
    PROVE  /\ ~ended /\ reqs[r].state = state
           /\ reqs[r] \in HttpRequest /\ GoodRequest(reqs[r])
           /\ reqs[r].sent = <<>> /\ ~reqs[r].finished
BY DEF HttpInv, GoodRequest, SentIsOver, Http!Is

LEMMA V3MiddleKeeps ==
    ASSUME HttpInv, NEW r \in Requests, Http!v3Middle(r)
    PROVE  HttpInv'
<1> DEFINE q == reqs[r]
<1>1. /\ ~ended /\ q \in HttpRequest /\ q.sent = <<>> /\ ~q.finished
      /\ q.state = "new" /\ GoodRequest(q)
    BY Unanswered DEF Http!v3Middle
<1>2. CASE Http!Set(r, Http!Over(Http!Respond(q, Http!Error)))
    <2>1. GoodRequest(Http!Over(Http!Respond(q, Http!Error)))
        BY <1>1, ErrorIsAnswer, RespondIsGood
    <2> QED BY <1>1, <1>2, <2>1, SetKeepsInv
<1>3. CASE \E op \in {"source", "wt2html", "html2wt", "pb2pb"} :
              Http!Set(r, [q EXCEPT !.state = "routed", !.op = op, !.timer = ~useWorker])
    <2>1. PICK op \in {"source", "wt2html", "html2wt", "pb2pb"} :
              Http!Set(r, [q EXCEPT !.state = "routed", !.op = op, !.timer = ~useWorker])
        BY <1>3
    <2> DEFINE n == [q EXCEPT !.state = "routed", !.op = op, !.timer = ~useWorker]
    <2>2. (~useWorker) \in BOOLEAN
        OBVIOUS
    <2>3. n \in HttpRequest
        BY <1>1, <2>2 DEF HttpRequest
    <2>4. n.sent = <<>> /\ ~n.finished /\ n.state = "routed" /\ n.original = q.original
        BY <1>1 DEF HttpRequest
    <2> HIDE DEF n
    <2>5. OutputIsAsked(n) /\ OriginalFits(n)
        BY <1>1, <2>4 DEF OutputIsAsked, OriginalFits, GoodRequest
    <2>6. GoodRequest(n)
        BY <2>3, <2>4, <2>5, GoesOnGood
    <2> QED BY <1>1, <2>1, <2>6, SetKeepsInv DEF n
<1> QED BY <1>2, <1>3 DEF Http!v3Middle

LEMMA ParserEnvMwKeeps ==
    ASSUME HttpInv, NEW r \in Requests, Http!parserEnvMw(r)
    PROVE  HttpInv'
<1> DEFINE q == reqs[r]
           n == [q EXCEPT !.state = "environment"]
<1>1. /\ ~ended /\ q \in HttpRequest /\ q.sent = <<>> /\ ~q.finished
      /\ q.state = "routed" /\ GoodRequest(q)
    BY Unanswered DEF Http!parserEnvMw
<1>2. GoodRequest(Http!errBack(q))
    BY <1>1, ErrBackIsGood
<1>3. n \in HttpRequest /\ n.sent = <<>> /\ ~n.finished /\ n.state = "environment" /\ n.original = q.original
    BY <1>1 DEF HttpRequest
<1>4. GoodRequest(n)
    <2> HIDE DEF n
    <2>1. OutputIsAsked(n) /\ OriginalFits(n)
        BY <1>1, <1>3 DEF OutputIsAsked, OriginalFits, GoodRequest
    <2> QED BY <1>3, <2>1, GoesOnGood
<1> QED BY <1>1, <1>2, <1>4, SetKeepsInv DEF Http!parserEnvMw

LEMMA AcceptableKeeps ==
    ASSUME HttpInv, NEW r \in Requests, Http!acceptable(r)
    PROVE  HttpInv'
<1> DEFINE q == reqs[r]
<1>1. /\ ~ended /\ q \in HttpRequest /\ q.sent = <<>> /\ ~q.finished
      /\ q.state = "environment" /\ GoodRequest(q)
    BY Unanswered DEF Http!acceptable
<1>2. CASE q.op \in {"source", "html2wt"}
    <2> DEFINE n == [q EXCEPT !.state = "acceptable"]
    <2>1. /\ n \in HttpRequest /\ n.sent = <<>> /\ ~n.finished /\ n.state = "acceptable"
          /\ n.op = q.op /\ n.original = q.original
        BY <1>1 DEF HttpRequest
    <2>2. Http!Set(r, n)
        BY <1>2 DEF Http!acceptable
    <2> HIDE DEF n
    <2>3. OutputIsAsked(n) /\ OriginalFits(n)
        BY <1>1, <1>2, <2>1 DEF OutputIsAsked, OriginalFits, GoodRequest
    <2> QED BY <1>1, <2>1, <2>2, <2>3, GoesOnGood, SetKeepsInv
<1>3. CASE q.op \notin {"source", "html2wt"}
    <2> DEFINE version(a) == Http!validateAndSetOutputContentVersion(a)
               n(a) == [q EXCEPT !.accept = a, !.output = version(a), !.state = "acceptable"]
    <2>1. PICK accept \in Accepts :
              Http!Set(r, IF version(accept) = Http!NoVersion THEN Http!errBack(n(accept)) ELSE n(accept))
        BY <1>3 DEF Http!acceptable
    <2>2. accept \in Seq(Version)
        BY ServiceAssumption DEF ServiceAssumption, Version
    <2>3. /\ version(accept) \in Version
          /\ version(accept) # Http!NoVersion => AcceptedBy(accept, version(accept))
        BY <2>2, ChosenIsAccepted
    <2> HIDE DEF version
    <2>4. /\ n(accept) \in HttpRequest /\ n(accept).sent = <<>> /\ ~n(accept).finished
          /\ n(accept).state = "acceptable" /\ n(accept).original = q.original
          /\ n(accept).accept = accept /\ n(accept).output = version(accept)
        BY <1>1, <2>2, <2>3 DEF HttpRequest
    <2> HIDE DEF n
    <2>5. CASE version(accept) = Http!NoVersion
        BY <1>1, <2>1, <2>4, <2>5, ErrBackIsGood, SetKeepsInv
    <2>6. CASE version(accept) # Http!NoVersion
        <3>1. OutputIsAsked(n(accept)) /\ OriginalFits(n(accept))
            BY <1>1, <2>3, <2>4, <2>6 DEF OutputIsAsked, OriginalFits, GoodRequest
        <3> QED BY <1>1, <2>1, <2>4, <2>6, <3>1, GoesOnGood, SetKeepsInv
    <2> QED BY <2>5, <2>6
<1> QED BY <1>2, <1>3

LEMMA StartWt2htmlKeeps ==
    ASSUME HttpInv, NEW r \in Requests, Http!StartWt2html(r)
    PROVE  HttpInv'
<1> DEFINE q == reqs[r]
           n(state) == [q EXCEPT !.state = state]
<1>1. /\ ~ended /\ q \in HttpRequest /\ q.sent = <<>> /\ ~q.finished
      /\ q.state = "acceptable" /\ GoodRequest(q)
    BY Unanswered DEF Http!StartWt2html
<1>2. GoodRequest(Http!errBack(q))
    BY <1>1, ErrBackIsGood
<1>3. \A state \in {"info", "parse"} : GoodRequest(n(state))
    <2> TAKE state \in {"info", "parse"}
    <2>1. /\ n(state) \in HttpRequest /\ n(state).sent = <<>> /\ ~n(state).finished
          /\ n(state).state = state /\ n(state).op = q.op /\ n(state).original = q.original
          /\ n(state).accept = q.accept /\ n(state).output = q.output
        BY <1>1 DEF HttpRequest
    <2> HIDE DEF n
    <2>2. OutputIsAsked(n(state)) /\ OriginalFits(n(state))
        BY <1>1, <2>1 DEF OutputIsAsked, OriginalFits, GoodRequest
    <2> QED BY <2>1, <2>2, GoesOnGood
<1> QED BY <1>1, <1>2, <1>3, SetKeepsInv DEF Http!StartWt2html

\* The original that is taken is of the version of the edited document.
LEMMA OriginalForFits ==
    ASSUME NEW edited \in Version, NEW original \in Version, NEW bundle \in BOOLEAN
    PROVE  LET old == Http!OriginalFor(edited, original, bundle)
           IN  /\ old.input \in Version /\ old.original \in Version /\ old.ok \in BOOLEAN
               /\ old.ok => old.original = old.input
BY DEF Http!OriginalFor

LEMMA Html2wtKeeps ==
    ASSUME HttpInv, NEW r \in Requests, Http!Html2wt(r)
    PROVE  HttpInv'
<1> DEFINE q == reqs[r]
<1>1. /\ ~ended /\ q \in HttpRequest /\ q.sent = <<>> /\ ~q.finished
      /\ q.state = "acceptable" /\ q.op = "html2wt" /\ GoodRequest(q)
    BY Unanswered DEF Http!Html2wt
<1>2. GoodRequest(Http!errBack(q))
    BY <1>1, ErrBackIsGood
<1>3. Http!NoVersion \in Version /\ Http!availableVersions[1] \in Version
    BY DEF Http!NoVersion, Http!availableVersions, Version
<1>4. Versions \subseteq Version
    BY ServiceAssumption DEF ServiceAssumption, Version
<1>5. ASSUME NEW input \in Version, NEW src \in BOOLEAN
      PROVE  GoodRequest([q EXCEPT !.state = "parse", !.input = input, !.src = src])
    <2> DEFINE n == [q EXCEPT !.state = "parse", !.input = input, !.src = src]
    <2>1. /\ n \in HttpRequest /\ n.sent = <<>> /\ ~n.finished
          /\ n.state = "parse" /\ n.op = "html2wt" /\ n.original = q.original
        BY <1>1 DEF HttpRequest
    <2> HIDE DEF n
    <2>2. OutputIsAsked(n) /\ OriginalFits(n)
        BY <1>1, <2>1 DEF OutputIsAsked, OriginalFits, GoodRequest
    <2>3. GoodRequest(n)
        BY <2>1, <2>2, GoesOnGood
    <2> QED BY <2>3 DEF n
<1>6. ASSUME NEW input \in Version, NEW original \in Version, NEW src \in BOOLEAN
      PROVE  LET n == [q EXCEPT !.input = input, !.original = original, !.src = src,
                                !.state = "parse"]
             IN  /\ GoodRequest(Http!errBack(n))
                 /\ input = original => GoodRequest(n)
    <2> DEFINE n == [q EXCEPT !.input = input, !.original = original, !.src = src,
                              !.state = "parse"]
    <2>1. /\ n \in HttpRequest /\ n.sent = <<>> /\ ~n.finished
          /\ n.state = "parse" /\ n.op = "html2wt" /\ n.original = original /\ n.input = input
        BY <1>1 DEF HttpRequest
    <2> HIDE DEF n
    <2>2. input = original => OutputIsAsked(n) /\ OriginalFits(n)
        BY <2>1 DEF OutputIsAsked, OriginalFits
    <2>3. /\ GoodRequest(Http!errBack(n))
          /\ input = original => GoodRequest(n)
        BY <2>1, <2>2, GoesOnGood, ErrBackIsGood
    <2> QED BY <2>3 DEF n
<1>7. CASE Http!Set(r, Http!errBack(q))
    BY <1>1, <1>2, <1>7, SetKeepsInv
<1>8. CASE \E edited \in Versions \cup {Http!NoVersion}, src \in BOOLEAN :
             LET input == IF edited = Http!NoVersion THEN Http!availableVersions[1] ELSE edited
             IN  Http!Set(r, [q EXCEPT !.state = "parse", !.input = input, !.src = src])
    <2>1. PICK input \in Version, src \in BOOLEAN :
              Http!Set(r, [q EXCEPT !.state = "parse", !.input = input, !.src = src])
        BY <1>3, <1>4, <1>8, Zenon
    <2> QED BY <1>1, <1>5, <2>1, SetKeepsInv
<1>9. CASE \E edited \in Versions \cup {Http!NoVersion}, original \in Versions,
              bundle \in BOOLEAN, src \in BOOLEAN :
             LET old == Http!OriginalFor(edited, original, bundle)
                 n == [q EXCEPT !.input = old.input, !.original = old.original, !.src = src,
                                !.state = "parse"]
             IN  Http!Set(r, IF old.ok THEN n ELSE Http!errBack(n))
    <2>1. PICK edited \in Version, original \in Version, bundle \in BOOLEAN, src \in BOOLEAN :
             LET old == Http!OriginalFor(edited, original, bundle)
                 n == [q EXCEPT !.input = old.input, !.original = old.original, !.src = src,
                                !.state = "parse"]
             IN  Http!Set(r, IF old.ok THEN n ELSE Http!errBack(n))
        BY <1>3, <1>4, <1>9, Zenon
    <2> DEFINE old == Http!OriginalFor(edited, original, bundle)
               n == [q EXCEPT !.input = old.input, !.original = old.original, !.src = src,
                              !.state = "parse"]
    <2>2. /\ old.input \in Version /\ old.original \in Version
          /\ old.ok => old.original = old.input
        BY OriginalForFits
    <2>3. /\ GoodRequest(Http!errBack(n))
          /\ old.ok => GoodRequest(n)
        <3> HIDE DEF old
        <3> QED BY <1>6, <2>2
    <2>4. Http!Set(r, IF old.ok THEN n ELSE Http!errBack(n))
        BY <2>1
    <2> HIDE DEF old, n
    <2> QED BY <1>1, <2>3, <2>4, SetKeepsInv
<1> QED BY <1>7, <1>8, <1>9 DEF Http!Html2wt

LEMMA Pb2pbKeeps ==
    ASSUME HttpInv, NEW r \in Requests, Http!Pb2pb(r)
    PROVE  HttpInv'
<1> DEFINE q == reqs[r]
           n(input) == [q EXCEPT !.input = input]
           html(input) == [kind |-> "html", version |-> q.output]
<1>1. /\ ~ended /\ q \in HttpRequest /\ q.sent = <<>> /\ ~q.finished
      /\ q.state = "acceptable" /\ q.op = "pb2pb" /\ GoodRequest(q)
    BY Unanswered DEF Http!Pb2pb
<1>2. GoodRequest(Http!errBack(q))
    BY <1>1, ErrBackIsGood
<1>3. Versions \subseteq Version /\ q.output \in Version /\ AcceptedBy(q.accept, q.output)
    BY <1>1, ServiceAssumption DEF ServiceAssumption, Version, HttpRequest, GoodRequest, OutputIsAsked
<1>4. ASSUME NEW input \in Versions
      PROVE  /\ n(input) \in HttpRequest /\ n(input).sent = <<>> /\ ~n(input).finished
             /\ n(input).accept = q.accept /\ n(input).output = q.output
             /\ n(input).original = q.original
    BY <1>1, <1>3 DEF HttpRequest
<1>5. ASSUME NEW input \in Versions, NEW op \in {"update", "wt2html"}, NEW state \in {"info", "parse"}
      PROVE  GoodRequest([n(input) EXCEPT !.op = op, !.state = state])
    <2> DEFINE m == [n(input) EXCEPT !.op = op, !.state = state]
    <2>0. n(input) \in HttpRequest
        BY <1>4
    <2>1. /\ m \in HttpRequest /\ m.sent = n(input).sent /\ m.finished = n(input).finished
          /\ m.accept = n(input).accept /\ m.output = n(input).output
          /\ m.state = state /\ m.op = op
        <3> HIDE DEF n
        <3> QED BY <2>0 DEF HttpRequest
    <2> HIDE DEF m
    <2>2. OutputIsAsked(m) /\ OriginalFits(m)
        <3> HIDE DEF n
        <3> QED BY <1>3, <1>4, <2>1 DEF OutputIsAsked, OriginalFits
    <2>3. GoodRequest(m)
        <3> HIDE DEF n
        <3> QED BY <1>4, <2>1, <2>2, GoesOnGood
    <2> QED BY <2>3 DEF m
<1>6. ASSUME NEW input \in Versions
      PROVE  /\ GoodRequest(Http!Answer(n(input), "html", n(input).output))
             /\ GoodRequest(Http!errBack(n(input)))
    <2>1. /\ html(input) \in HttpAnswer /\ html(input).kind = "html"
          /\ html(input).version = q.output
        BY <1>3 DEF HttpAnswer
    <2>2. Http!Answer(n(input), "html", n(input).output) = Http!Over(Http!Respond(n(input), html(input)))
        <3>1. n(input).output = q.output
            BY <1>4
        <3> HIDE DEF n
        <3> QED BY <3>1 DEF Http!Answer
    <2> HIDE DEF n, html
    <2> QED BY <1>3, <1>4, <2>1, <2>2, RespondIsGood, ErrBackIsGood
<1>7. CASE Http!Set(r, Http!errBack(q))
    BY <1>1, <1>2, <1>7, SetKeepsInv
<1>8. CASE \E input \in Versions : 
              \/ Http!Set(r, [n(input) EXCEPT !.op = "update", !.state = "info"])
              \/ Http!Set(r, IF Http!findDowngrade(input, n(input).output)
                               THEN Http!Answer(n(input), "html", n(input).output)
                             ELSE IF Http!Caret(input, n(input).output)
                               THEN [n(input) EXCEPT !.op = "wt2html", !.state = "parse"]
                             ELSE Http!errBack(n(input)))
              \/ Http!Set(r, [n(input) EXCEPT !.op = "wt2html", !.state = "info"])
    <2> HIDE DEF n
    <2> QED BY <1>1, <1>5, <1>6, <1>8, SetKeepsInv
<1> QED BY <1>7, <1>8 DEF Http!Pb2pb

LEMMA InfoKeeps ==
    ASSUME HttpInv, NEW r \in Requests, Http!Info(r)
    PROVE  HttpInv'
<1> DEFINE q == reqs[r]
<1>1. /\ ~ended /\ q \in HttpRequest /\ q.sent = <<>> /\ ~q.finished
      /\ q.state = "info" /\ GoodRequest(q)
    BY Unanswered DEF Http!Info
<1>2. GoodRequest(Http!errBack(q))
    BY <1>1, ErrBackIsGood
<1>3. Http!NoVersion \in Version /\ q.input \in Version
    BY <1>1 DEF Http!NoVersion, Version, HttpRequest
<1>4. ASSUME NEW kind \in {"wikitext", "redirect", "html"}, NEW version \in Version,
             kind = "html" => q.op = "update"
      PROVE  GoodRequest(Http!Answer(q, kind, version))
    <2> DEFINE a == [kind |-> kind, version |-> version]
    <2>1. a \in HttpAnswer /\ a.kind = kind /\ a.version = version
        BY DEF HttpAnswer
    <2>2. Http!Answer(q, kind, version) = Http!Over(Http!Respond(q, a))
        BY DEF Http!Answer
    <2> HIDE DEF a
    <2> QED BY <1>1, <1>4, <2>1, <2>2, RespondIsGood
<1>5. \/ Http!Set(r, Http!errBack(q))
      \/ Http!Set(r, Http!Answer(q, "wikitext", Http!NoVersion))
      \/ Http!Set(r, Http!Answer(q, "redirect", Http!NoVersion))
      \/ q.op = "update" /\ Http!Set(r, Http!Answer(q, "html", q.input))
    BY DEF Http!Info
<1> QED BY <1>1, <1>2, <1>3, <1>4, <1>5, SetKeepsInv

\* Selective serialization with an original that was sent is with one that fits.
LEMMA ParseKeeps ==
    ASSUME HttpInv, NEW r \in Requests, Http!Parse(r)
    PROVE  HttpInv'
<1> DEFINE q == reqs[r]
           kinds == {"html", "full", "selser, made", "selser, sent"}
<1>1. /\ ~ended /\ q \in HttpRequest /\ q.sent = <<>> /\ ~q.finished
      /\ q.state = "parse" /\ GoodRequest(q)
    BY Unanswered DEF Http!Parse
<1>2. GoodRequest(Http!errBack(q))
    BY <1>1, ErrBackIsGood
<1>3. Http!NoVersion \in Version /\ q.original \in Version /\ q.output \in Version
    BY <1>1 DEF Http!NoVersion, Version, HttpRequest
<1>4. ASSUME NEW kind \in kinds, NEW version \in Version,
             kind = "html" => AcceptedBy(q.accept, version),
             kind = "selser, sent" => version = q.input
      PROVE  GoodRequest(Http!Answer(q, kind, version))
    <2> DEFINE a == [kind |-> kind, version |-> version]
    <2>1. a \in HttpAnswer /\ a.kind = kind /\ a.version = version
        BY DEF HttpAnswer
    <2>2. Http!Answer(q, kind, version) = Http!Over(Http!Respond(q, a))
        BY DEF Http!Answer
    <2> HIDE DEF a
    <2> QED BY <1>1, <1>4, <2>1, <2>2, RespondIsGood
<1>5. CASE Http!Set(r, Http!errBack(q))
    BY <1>1, <1>2, <1>5, SetKeepsInv
<1>6. CASE q.op = "wt2html" /\ Http!Set(r, Http!Answer(q, "html", q.output))
    <2>1. AcceptedBy(q.accept, q.output)
        BY <1>1, <1>6 DEF GoodRequest, OutputIsAsked
    <2>2. GoodRequest(Http!Answer(q, "html", q.output))
        BY <1>3, <1>4, <2>1
    <2> QED BY <1>1, <1>6, <2>2, SetKeepsInv
<1>7. CASE q.op = "html2wt" /\ Http!Set(r, Http!Answer(q, "full", Http!NoVersion))
    <2>1. GoodRequest(Http!Answer(q, "full", Http!NoVersion))
        BY <1>3, <1>4
    <2> QED BY <1>1, <1>7, <2>1, SetKeepsInv
<1>8. CASE /\ q.op = "html2wt"
           /\ \E fetched \in {q.src, TRUE}, dom \in BOOLEAN :
                  Http!Set(r, Http!Answer(q, Http!Serialized(fetched, dom, q.original), q.original))
    <2>1. PICK fetched \in {q.src, TRUE}, dom \in BOOLEAN :
                  Http!Set(r, Http!Answer(q, Http!Serialized(fetched, dom, q.original), q.original))
        BY <1>8
    <2> DEFINE kind == Http!Serialized(fetched, dom, q.original)
    <2>2. /\ kind \in {"full", "selser, made", "selser, sent"}
          /\ kind = "selser, sent" => q.original # Http!NoVersion
        BY DEF Http!Serialized
    <2>3. q.original # Http!NoVersion => q.original = q.input
        BY <1>1, <1>8 DEF GoodRequest, OriginalFits
    <2> HIDE DEF kind
    <2>4. GoodRequest(Http!Answer(q, kind, q.original))
        BY <1>3, <1>4, <2>2, <2>3
    <2> QED BY <1>1, <2>1, <2>4, SetKeepsInv DEF kind
<1> QED BY <1>5, <1>6, <1>7, <1>8 DEF Http!Parse

\* The end of the answer stops the timer.
LEMMA FinishKeeps ==
    ASSUME HttpInv, NEW r \in Requests, Http!Finish(r)
    PROVE  HttpInv'
<1> DEFINE q == reqs[r]
           n == [q EXCEPT !.finished = TRUE, !.timer = FALSE]
<1>1. ~ended /\ q \in HttpRequest /\ q.sent # <<>> /\ GoodRequest(q) /\ Http!Set(r, n)
    BY DEF HttpInv, Http!Finish, Http!Finished
<1>2. /\ n \in HttpRequest /\ n.finished /\ ~n.timer /\ n.sent = q.sent /\ n.state = q.state
      /\ n.op = q.op /\ n.accept = q.accept /\ n.output = q.output /\ n.input = q.input
      /\ n.original = q.original
    BY <1>1 DEF HttpRequest
<1> HIDE DEF n
<1>3. GoodRequest(n)
    BY <1>1, <1>2 DEF GoodRequest, OutputIsAsked, OriginalFits, AnswersFit, SentIsOver
<1> QED BY <1>1, <1>3, SetKeepsInv

LEMMA CloseKeeps ==
    ASSUME HttpInv, NEW r \in Requests, Http!Close(r)
    PROVE  HttpInv'
<1> DEFINE q == reqs[r]
           n == [q EXCEPT !.closed = TRUE]
<1>1. ~ended /\ q \in HttpRequest /\ GoodRequest(q) /\ Http!Set(r, n)
    BY DEF HttpInv, Http!Close
<1>2. /\ n \in HttpRequest /\ n.finished = q.finished /\ n.timer = q.timer /\ n.sent = q.sent
      /\ n.state = q.state /\ n.op = q.op /\ n.accept = q.accept /\ n.output = q.output
      /\ n.input = q.input /\ n.original = q.original
    BY <1>1 DEF HttpRequest
<1> HIDE DEF n
<1>3. GoodRequest(n)
    BY <1>1, <1>2 DEF GoodRequest, OutputIsAsked, OriginalFits, AnswersFit, SentIsOver
<1> QED BY <1>1, <1>3, SetKeepsInv

\* A timer that runs out is that of a request whose answer is not out.
LEMMA TimeOutKeeps ==
    ASSUME HttpInv, NEW r \in Requests, Http!TimeOut(r)
    PROVE  HttpInv'
<1> DEFINE q == reqs[r]
           n == [q EXCEPT !.timer = FALSE, !.expired = "unanswered"]
<1>1. /\ ~ended /\ q \in HttpRequest /\ GoodRequest(q) /\ ~q.finished
      /\ Http!Set(r, [q EXCEPT !.timer = FALSE,
                               !.expired = IF q.finished THEN "answered" ELSE "unanswered"])
    BY DEF HttpInv, Http!TimeOut, GoodRequest, SentIsOver
<1>2. Http!Set(r, n)
    BY <1>1
<1>3. /\ n \in HttpRequest /\ ~n.finished /\ n.sent = q.sent /\ n.state = q.state
      /\ n.op = q.op /\ n.accept = q.accept /\ n.output = q.output /\ n.input = q.input
      /\ n.original = q.original
    BY <1>1 DEF HttpRequest
<1> HIDE DEF n
<1>4. GoodRequest(n)
    BY <1>1, <1>3 DEF GoodRequest, OutputIsAsked, OriginalFits, AnswersFit, SentIsOver
<1> QED BY <1>1, <1>2, <1>4, SetKeepsInv

LEMMA ExitKeeps ==
    ASSUME HttpInv, NEW r \in Requests, Http!Exit(r)
    PROVE  HttpInv'
<1>1. ended' /\ reqs' = reqs /\ ended' \in BOOLEAN
    BY DEF Http!Exit
<1>2. \A s \in Requests : reqs[s] \in HttpRequest /\ GoodRequest(reqs[s])
    BY DEF HttpInv
<1>3. \A s \in Requests : reqs[s].expired \in {"no", "unanswered"}
    BY <1>2 DEF HttpRequest
<1>4. reqs[r].expired = "unanswered"
    BY <1>3 DEF Http!Exit
<1> QED BY <1>1, <1>2, <1>3, <1>4 DEF HttpInv, Http!EndedForCause

LEMMA HttpInit == Http!Init => HttpInv
<1> SUFFICES ASSUME Http!Init PROVE HttpInv
    OBVIOUS
<1>1. Http!NoVersion \in Version
    BY DEF Http!NoVersion, Version
<1>2. Http!Idle \in HttpRequest
    <2>1. <<>> \in Seq(Version) /\ <<>> \in Seq(HttpAnswer)
        OBVIOUS
    <2> QED BY <1>1, <2>1 DEF Http!Idle, HttpRequest
<1>3. /\ Http!Idle.state = "new" /\ Http!Idle.op = "none" /\ Http!Idle.original = Http!NoVersion
      /\ Http!Idle.sent = <<>> /\ ~Http!Idle.finished
    BY DEF Http!Idle
<1>4. GoodRequest(Http!Idle)
    BY <1>2, <1>3, GoesOnGood DEF OutputIsAsked, OriginalFits
<1>5. Http!Idle.expired = "no"
    BY DEF Http!Idle
<1> QED BY <1>2, <1>4, <1>5 DEF Http!Init, HttpInv, Http!EndedForCause

LEMMA HttpKeeps == HttpInv /\ Http!Next => HttpInv'
<1> SUFFICES ASSUME HttpInv, Http!Next PROVE HttpInv'
    OBVIOUS
<1>1. \E r \in Requests : Http!Work(r) \/ Http!Close(r) \/ Http!TimeOut(r)
    BY DEF Http!Next, Http!WorkStep
<1> QED BY <1>1, V3MiddleKeeps, ParserEnvMwKeeps, AcceptableKeeps, StartWt2htmlKeeps,
           Html2wtKeeps, Pb2pbKeeps, InfoKeeps, ParseKeeps, FinishKeeps, CloseKeeps, TimeOutKeeps,
           ExitKeeps
        DEF Http!Work

-----------------------------------------------------------------------------
(* The requests of ApiRequest *)

LEMMA ReplaceInSeq ==
    ASSUME NEW S, NEW s \in Seq(S), NEW r \in 1..Len(s), NEW q \in S
    PROVE  LET t == [s EXCEPT ![r] = q]
           IN  /\ t \in Seq(S) /\ Len(t) = Len(s) /\ t[r] = q
               /\ \A i \in 1..Len(s) : i # r => t[i] = s[i]
OBVIOUS

LEMMA ApiTypes ==
    ASSUME ApiTypeOK
    PROVE  /\ answer \in [Caller -> {"idle", "waiting", "source", "error"}]
           /\ pageCache \subseteq Title
           /\ requestQueue \in [Title -> Nat]
           /\ requests \in Seq(ApiRequestType)
           /\ Len(requests) \in Nat
           /\ \A r \in 1..Len(requests) :
                  /\ requests[r] \in ApiRequestType
                  /\ requests[r].title \in Title
                  /\ requests[r].retries \in Nat
                  /\ requests[r].phase \in {"open", "turn", "over"}
                  /\ requests[r].error \in BOOLEAN
                  /\ requests[r].listeners \in Seq(Caller)
                  /\ Len(requests[r].listeners) \in Nat
                  /\ \A i \in 1..Len(requests[r].listeners) : requests[r].listeners[i] \in Caller
           /\ \A c \in Caller : TitleOf[c] \in Title /\ requestQueue[TitleOf[c]] \in Nat
<1>1. \A q \in ApiRequestType :
          /\ q.title \in Title /\ q.retries \in Nat /\ q.phase \in {"open", "turn", "over"}
          /\ q.error \in BOOLEAN /\ q.listeners \in Seq(Caller) /\ Len(q.listeners) \in Nat
          /\ \A i \in 1..Len(q.listeners) : q.listeners[i] \in Caller
    BY DEF ApiRequestType
<1>2. \A r \in 1..Len(requests) : requests[r] \in ApiRequestType
    BY DEF ApiTypeOK
<1> QED BY <1>1, <1>2, ServiceAssumption DEF ApiTypeOK, ServiceAssumption

LEMMA FromCacheKeeps ==
    ASSUME ApiInv, NEW c \in Caller, Api!Fetch(c), Api!FromCache(c)
    PROVE  ApiInv'
<1>1. /\ answer' = [answer EXCEPT ![c] = "source"] /\ answer[c] = "idle"
      /\ UNCHANGED <<pageCache, requestQueue, requests, fatal>>
    BY DEF Api!Fetch, Api!FromCache
<1>2. answer \in [Caller -> {"idle", "waiting", "source", "error"}]
    BY DEF ApiInv, ApiTypeOK
<1>3. \A d \in Caller : answer'[d] = "waiting" <=> answer[d] = "waiting"
    BY <1>1, <1>2
<1>4. ApiTypeOK'
    BY <1>1 DEF ApiInv, ApiTypeOK
<1>5. ListenersWait'
    <2>1. \A r \in 1..Len(requests) : \A i \in 1..Len(requests[r].listeners) :
              requests[r].listeners[i] \in Caller
        BY ApiTypes DEF ApiInv
    <2> QED BY <1>1, <1>3, <2>1 DEF ApiInv, ListenersWait
<1>6. WaitersListen'
    BY <1>1, <1>3 DEF ApiInv, WaitersListen
<1> QED BY <1>1, <1>4, <1>5, <1>6 DEF ApiInv, QueueIsOpen, AnswersAreCached, Api!RefetchOnlyAfterError

LEMMA AppendIsSeq ==
    ASSUME NEW S, NEW s \in Seq(S), NEW e \in S
    PROVE  /\ Append(s, e) \in Seq(S) /\ Len(Append(s, e)) = Len(s) + 1 /\ Len(s) \in Nat
           /\ \A i \in 1..Len(s) : Append(s, e)[i] = s[i]
           /\ Append(s, e)[Len(s) + 1] = e
OBVIOUS

LEMMA JoinKeeps ==
    ASSUME ApiInv, NEW c \in Caller, Api!Fetch(c), Api!Join(c)
    PROVE  ApiInv'
<1> DEFINE r == requestQueue[TitleOf[c]]
           old == requests[r]
           ls == Append(old.listeners, c)
           q == [old EXCEPT !.listeners = ls]
           n == Len(old.listeners)
<1>0. ApiTypeOK /\ QueueIsOpen /\ ListenersWait /\ WaitersListen
    BY DEF ApiInv
<1>1. /\ answer' = [answer EXCEPT ![c] = "waiting"] /\ answer[c] = "idle" /\ r # 0
      /\ requests' = [requests EXCEPT ![r] = q]
      /\ UNCHANGED <<pageCache, requestQueue, fatal>>
    BY DEF Api!Fetch, Api!Join
<1>2. r \in 1..Len(requests) /\ old.title = TitleOf[c] /\ old.phase = "open"
    BY <1>0, <1>1, ApiTypes DEF QueueIsOpen
<1>3. old \in ApiRequestType /\ old.listeners \in Seq(Caller) /\ requests \in Seq(ApiRequestType)
    BY <1>0, <1>2, ApiTypes
<1>4. /\ ls \in Seq(Caller) /\ Len(ls) = n + 1 /\ n \in Nat /\ ls[n + 1] = c
      /\ \A i \in 1..n : ls[i] = old.listeners[i]
    BY <1>3, AppendIsSeq
<1> HIDE DEF ls
<1>5. /\ q \in ApiRequestType /\ q.title = old.title /\ q.phase = old.phase /\ q.error = old.error
      /\ q.listeners = ls
    <2> HIDE DEF old
    <2> QED BY <1>3, <1>4 DEF ApiRequestType
<1> HIDE DEF q, r
<1>6. /\ requests' \in Seq(ApiRequestType) /\ Len(requests') = Len(requests) /\ requests'[r] = q
      /\ \A s \in 1..Len(requests) : s # r => requests'[s] = requests[s]
    BY <1>1, <1>2, <1>3, <1>5, ReplaceInSeq
<1>7. \A s \in 1..Len(requests) : /\ requests'[s].title = requests[s].title
                                  /\ requests'[s].phase = requests[s].phase
                                  /\ requests'[s].error = requests[s].error
    BY <1>5, <1>6
<1>8. ApiTypeOK'
    BY <1>0, <1>1, <1>6 DEF ApiTypeOK
<1>9. QueueIsOpen'
    BY <1>0, <1>1, <1>6, <1>7 DEF QueueIsOpen
<1>10. AnswersAreCached' /\ Api!RefetchOnlyAfterError'
    BY <1>1, <1>6, <1>7 DEF ApiInv, AnswersAreCached, Api!RefetchOnlyAfterError
<1>11. ASSUME NEW s \in 1..Len(requests), NEW i \in 1..Len(requests'[s].listeners)
       PROVE  \/ s = r /\ i = n + 1 /\ requests'[s].listeners[i] = c
              \/ /\ i \in 1..Len(requests[s].listeners)
                 /\ requests'[s].listeners[i] = requests[s].listeners[i]
    <2>1. CASE s # r
        BY <1>6, <2>1
    <2>2. CASE s = r
        <3>1. requests'[s].listeners = ls
            BY <1>5, <1>6, <2>2
        <3> QED BY <1>4, <2>2, <3>1
    <2> QED BY <2>1, <2>2
<1>12. \A s \in 1..Len(requests) : \A i \in 1..Len(requests[s].listeners) :
           requests[s].listeners[i] # c
    BY <1>0, <1>1 DEF ListenersWait
<1>13. ListenersWait'
    <2>1. \A s \in 1..Len(requests) : requests'[s].phase # "over" => requests'[s].listeners # <<>>
        <3>1. ls # <<>>
            BY <1>4
        <3> QED BY <1>0, <1>5, <1>6, <3>1 DEF ListenersWait
    <2>2. \A s \in 1..Len(requests) : \A i \in 1..Len(requests'[s].listeners) :
              answer'[requests'[s].listeners[i]] = "waiting"
        <3> TAKE s \in 1..Len(requests)
        <3> TAKE i \in 1..Len(requests'[s].listeners)
        <3>1. answer \in [Caller -> {"idle", "waiting", "source", "error"}]
            BY <1>0 DEF ApiTypeOK
        <3>2. CASE requests'[s].listeners[i] = c
            BY <1>1, <3>1, <3>2
        <3>3. CASE /\ i \in 1..Len(requests[s].listeners)
                   /\ requests'[s].listeners[i] = requests[s].listeners[i]
            <4>1. answer[requests[s].listeners[i]] = "waiting" /\ requests[s].listeners[i] \in Caller
                BY <1>0, <3>3, ApiTypes DEF ListenersWait
            <4> QED BY <1>1, <3>1, <3>3, <4>1
        <3> QED BY <1>11, <3>2, <3>3
    <2>3. ASSUME NEW s \in 1..Len(requests), NEW t \in 1..Len(requests),
                 NEW i \in 1..Len(requests'[s].listeners), NEW j \in 1..Len(requests'[t].listeners),
                 requests'[s].listeners[i] = requests'[t].listeners[j]
          PROVE  s = t /\ i = j
        <3>1. CASE s = r /\ i = n + 1 /\ requests'[s].listeners[i] = c
            BY <1>11, <1>12, <2>3, <3>1
        <3>2. CASE t = r /\ j = n + 1 /\ requests'[t].listeners[j] = c
            BY <1>11, <1>12, <2>3, <3>2
        <3>3. CASE /\ i \in 1..Len(requests[s].listeners)
                   /\ requests'[s].listeners[i] = requests[s].listeners[i]
                   /\ j \in 1..Len(requests[t].listeners)
                   /\ requests'[t].listeners[j] = requests[t].listeners[j]
            <4>1. requests[s].listeners[i] = requests[t].listeners[j]
                BY <2>3, <3>3
            <4>2. \A k \in 1..Len(requests[s].listeners), l \in 1..Len(requests[t].listeners) :
                      requests[s].listeners[k] = requests[t].listeners[l] => s = t /\ k = l
                BY <1>0 DEF ListenersWait
            <4> QED BY <3>3, <4>1, <4>2
        <3> QED BY <1>11, <3>1, <3>2, <3>3
    <2> QED BY <1>6, <2>1, <2>2, <2>3 DEF ListenersWait
<1>14. WaitersListen'
    <2> SUFFICES ASSUME NEW d \in Caller, answer'[d] = "waiting", ~fatal
                 PROVE  \E s \in 1..Len(requests') :
                            /\ requests'[s].phase # "over"
                            /\ \E i \in 1..Len(requests'[s].listeners) : requests'[s].listeners[i] = d
        BY <1>1 DEF WaitersListen
    <2>1. CASE d = c
        <3>1. requests'[r].listeners = ls /\ requests'[r].phase = "open"
            BY <1>2, <1>5, <1>6
        <3>2. n + 1 \in 1..Len(requests'[r].listeners) /\ requests'[r].listeners[n + 1] = d
            BY <1>4, <2>1, <3>1
        <3> QED BY <1>2, <1>6, <3>1, <3>2
    <2>2. CASE d # c
        <3>1. answer[d] = "waiting"
            BY <1>0, <1>1, <2>2 DEF ApiTypeOK
        <3>2. PICK s \in 1..Len(requests) :
                  /\ requests[s].phase # "over"
                  /\ \E i \in 1..Len(requests[s].listeners) : requests[s].listeners[i] = d
            BY <1>0, <1>1, <3>1 DEF WaitersListen
        <3>3. PICK i \in 1..Len(requests[s].listeners) : requests[s].listeners[i] = d
            BY <3>2
        <3>4. i \in 1..Len(requests'[s].listeners) /\ requests'[s].listeners[i] = d
            <4>1. CASE s # r
                BY <1>6, <3>3, <4>1
            <4>2. CASE s = r
                <5>1. requests'[s].listeners = ls
                    BY <1>5, <1>6, <4>2
                <5> QED BY <1>4, <3>3, <4>2, <5>1
            <4> QED BY <4>1, <4>2
        <3> QED BY <1>6, <1>7, <3>2, <3>4
    <2> QED BY <2>1, <2>2
<1> QED BY <1>8, <1>9, <1>10, <1>13, <1>14 DEF ApiInv

\* The new request is the only listener's only one.
LEMMA StartKeeps ==
    ASSUME ApiInv, NEW c \in Caller, Api!Fetch(c), Api!Start(c)
    PROVE  ApiInv'
<1> DEFINE t == TitleOf[c]
           q == Api!NewRequest(t, c)
           new == Len(requests) + 1
<1>0. ApiTypeOK /\ QueueIsOpen /\ ListenersWait /\ WaitersListen /\ AnswersAreCached
    BY DEF ApiInv
<1>1. /\ t \notin pageCache /\ requestQueue[t] = 0 /\ answer[c] = "idle"
      /\ answer' = [answer EXCEPT ![c] = "waiting"]
      /\ requests' = Append(requests, q)
      /\ requestQueue' = [requestQueue EXCEPT ![t] = Len(requests')]
      /\ UNCHANGED <<pageCache, fatal>>
    BY DEF Api!Fetch, Api!Start
<1>2. t \in Title /\ requests \in Seq(ApiRequestType) /\ Len(requests) \in Nat
    BY <1>0, ApiTypes
<1>3. /\ q \in ApiRequestType /\ q.title = t /\ q.phase = "open" /\ q.listeners = <<c>>
    <2>1. <<c>> \in Seq(Caller)
        OBVIOUS
    <2> QED BY <1>2, <2>1, ServiceAssumption
            DEF ServiceAssumption, Api!NewRequest, ApiRequestType
<1>4. /\ <<c>> # <<>> /\ Len(<<c>>) = 1 /\ <<c>>[1] = c
    OBVIOUS
<1> HIDE DEF q
<1>5. /\ requests' \in Seq(ApiRequestType) /\ Len(requests') = new /\ requests'[new] = q
      /\ \A s \in 1..Len(requests) : requests'[s] = requests[s]
    BY <1>1, <1>2, <1>3, AppendIsSeq
<1>6. \A s \in 1..Len(requests') : s \in 1..Len(requests) \/ s = new
    BY <1>2, <1>5
<1>7. ApiTypeOK'
    BY <1>0, <1>1, <1>2, <1>5 DEF ApiTypeOK
<1>8. \A s \in 1..Len(requests) : requests[s].title = t => requests[s].phase # "open" /\ requests[s].error
    <2> TAKE s \in 1..Len(requests)
    <2>1. requests[s].title = t => requests[s].phase # "open"
        BY <1>0, <1>1, <1>2 DEF QueueIsOpen
    <2>2. requests[s].title = t /\ ~requests[s].error => t \in pageCache
        BY <1>0, <2>1 DEF AnswersAreCached
    <2> QED BY <1>0, <1>1, <2>1, <2>2, ApiTypes
<1>9. QueueIsOpen'
    <2>1. \A u \in Title : requestQueue'[u] = IF u = t THEN new ELSE requestQueue[u]
        BY <1>0, <1>1, <1>5 DEF ApiTypeOK
    <2>2. \A u \in Title : requestQueue'[u] # 0 =>
              /\ requestQueue'[u] \in 1..Len(requests')
              /\ requests'[requestQueue'[u]].title = u
              /\ requests'[requestQueue'[u]].phase = "open"
        <3> TAKE u \in Title
        <3>1. CASE u = t
            BY <1>2, <1>3, <1>5, <2>1, <3>1
        <3>2. CASE u # t
            BY <1>0, <1>2, <1>5, <2>1, <3>2 DEF QueueIsOpen
        <3> QED BY <3>1, <3>2
    <2>3. \A s \in 1..Len(requests') : requests'[s].phase = "open" =>
              requestQueue'[requests'[s].title] = s
        <3> TAKE s \in 1..Len(requests')
        <3>1. CASE s = new
            BY <1>2, <1>3, <1>5, <2>1, <3>1
        <3>2. CASE s \in 1..Len(requests)
            <4>1. requests'[s] = requests[s] /\ requests[s].title \in Title
                BY <1>0, <1>5, <3>2, ApiTypes
            <4> QED BY <1>0, <1>8, <2>1, <3>2, <4>1 DEF QueueIsOpen
        <3> QED BY <1>6, <3>1, <3>2
    <2> QED BY <2>2, <2>3 DEF QueueIsOpen
<1>10. AnswersAreCached'
    BY <1>0, <1>1, <1>3, <1>5, <1>6 DEF AnswersAreCached
<1>11. Api!RefetchOnlyAfterError'
    <2> SUFFICES ASSUME NEW r \in 1..Len(requests'), NEW s \in 1..Len(requests'),
                        r < s, requests'[r].title = requests'[s].title
                 PROVE  requests'[r].phase # "open" /\ requests'[r].error
        BY DEF Api!RefetchOnlyAfterError
    <2>1. r \in 1..Len(requests) /\ requests'[r] = requests[r]
        BY <1>2, <1>5, <1>6
    <2>2. CASE s = new
        BY <1>3, <1>5, <1>8, <2>1, <2>2
    <2>3. CASE s \in 1..Len(requests)
        BY <1>5, <2>1, <2>3 DEF ApiInv, Api!RefetchOnlyAfterError
    <2> QED BY <1>6, <2>2, <2>3
<1>12. \A s \in 1..Len(requests) : \A i \in 1..Len(requests[s].listeners) :
           requests[s].listeners[i] # c
    BY <1>0, <1>1 DEF ListenersWait
<1>13. \A i \in 1..Len(requests'[new].listeners) : i = 1 /\ requests'[new].listeners[i] = c
    <2>1. requests'[new].listeners = <<c>>
        BY <1>3, <1>5
    <2>2. \A i \in 1..Len(<<c>>) : i = 1 /\ <<c>>[i] = c
        BY <1>4
    <2> QED BY <2>1, <2>2
<1>14. ListenersWait'
    <2>1. \A s \in 1..Len(requests') : requests'[s].phase # "over" => requests'[s].listeners # <<>>
        BY <1>0, <1>3, <1>4, <1>5, <1>6 DEF ListenersWait
    <2>2. ASSUME NEW s \in 1..Len(requests'), NEW i \in 1..Len(requests'[s].listeners)
          PROVE  answer'[requests'[s].listeners[i]] = "waiting"
        <3>1. answer \in [Caller -> {"idle", "waiting", "source", "error"}]
            BY <1>0 DEF ApiTypeOK
        <3>2. CASE s = new
            BY <1>1, <1>13, <3>1, <3>2
        <3>3. CASE s \in 1..Len(requests)
            <4>1. answer[requests[s].listeners[i]] = "waiting" /\ requests[s].listeners[i] \in Caller
                BY <1>0, <1>5, <3>3, ApiTypes DEF ListenersWait
            <4> QED BY <1>1, <1>5, <3>1, <3>3, <4>1
        <3> QED BY <1>6, <3>2, <3>3
    <2>3. ASSUME NEW s \in 1..Len(requests'), NEW u \in 1..Len(requests'),
                 NEW i \in 1..Len(requests'[s].listeners), NEW j \in 1..Len(requests'[u].listeners),
                 requests'[s].listeners[i] = requests'[u].listeners[j]
          PROVE  s = u /\ i = j
        <3>1. CASE s = new /\ u = new
            BY <1>13, <3>1
        <3>2. CASE s = new /\ u \in 1..Len(requests)
            BY <1>5, <1>12, <1>13, <2>3, <3>2
        <3>3. CASE s \in 1..Len(requests) /\ u = new
            BY <1>5, <1>12, <1>13, <2>3, <3>3
        <3>4. CASE s \in 1..Len(requests) /\ u \in 1..Len(requests)
            <4>1. \A k \in 1..Len(requests[s].listeners), l \in 1..Len(requests[u].listeners) :
                      requests[s].listeners[k] = requests[u].listeners[l] => s = u /\ k = l
                BY <1>0, <3>4 DEF ListenersWait
            <4>2. requests'[s] = requests[s] /\ requests'[u] = requests[u]
                BY <1>5, <3>4
            <4> QED BY <2>3, <4>1, <4>2
        <3> QED BY <1>6, <3>1, <3>2, <3>3, <3>4
    <2> QED BY <2>1, <2>2, <2>3 DEF ListenersWait
<1>15. WaitersListen'
    <2> SUFFICES ASSUME NEW d \in Caller, answer'[d] = "waiting", ~fatal
                 PROVE  \E s \in 1..Len(requests') :
                            /\ requests'[s].phase # "over"
                            /\ \E i \in 1..Len(requests'[s].listeners) : requests'[s].listeners[i] = d
        BY <1>1 DEF WaitersListen
    <2>1. CASE d = c
        <3>1. new \in 1..Len(requests') /\ requests'[new].listeners = <<c>> /\ requests'[new].phase = "open"
            BY <1>2, <1>3, <1>5
        <3>2. 1 \in 1..Len(<<c>>)
            BY <1>4
        <3> QED BY <1>4, <2>1, <3>1, <3>2
    <2>2. CASE d # c
        <3>1. answer[d] = "waiting"
            BY <1>0, <1>1, <2>2 DEF ApiTypeOK
        <3>2. PICK s \in 1..Len(requests) :
                  /\ requests[s].phase # "over"
                  /\ \E i \in 1..Len(requests[s].listeners) : requests[s].listeners[i] = d
            BY <1>0, <1>1, <3>1 DEF WaitersListen
        <3>3. s \in 1..Len(requests') /\ requests'[s] = requests[s]
            BY <1>2, <1>5
        <3> QED BY <3>2, <3>3
    <2> QED BY <2>1, <2>2
<1> QED BY <1>7, <1>9, <1>10, <1>11, <1>14, <1>15 DEF ApiInv

\* An open request that is tried again or answered keeps its listeners.
LEMMA ListenersStay ==
    ASSUME ApiInv, NEW r \in 1..Len(requests), requests[r].phase = "open",
           NEW q \in ApiRequestType, q.title = requests[r].title,
           q.listeners = requests[r].listeners, q.phase \in {"open", "turn"},
           requests' = [requests EXCEPT ![r] = q],
           UNCHANGED <<answer, fatal>>
    PROVE  /\ requests' \in Seq(ApiRequestType) /\ Len(requests') = Len(requests)
           /\ requests'[r] = q
           /\ \A s \in 1..Len(requests) : s # r => requests'[s] = requests[s]
           /\ \A s \in 1..Len(requests) : requests'[s].title = requests[s].title
           /\ ListenersWait'
           /\ WaitersListen'
<1>0. ListenersWait /\ WaitersListen /\ requests \in Seq(ApiRequestType)
    BY ApiTypes DEF ApiInv
<1>1. /\ requests' \in Seq(ApiRequestType) /\ Len(requests') = Len(requests)
      /\ requests'[r] = q
      /\ \A s \in 1..Len(requests) : s # r => requests'[s] = requests[s]
    BY <1>0, ReplaceInSeq
<1>2. \A s \in 1..Len(requests) :
          /\ requests'[s].title = requests[s].title
          /\ requests'[s].listeners = requests[s].listeners
          /\ requests'[s].phase # "over" <=> requests[s].phase # "over"
    <2> TAKE s \in 1..Len(requests)
    <2>1. CASE s = r
        BY <1>1, <2>1
    <2>2. CASE s # r
        BY <1>1, <2>2
    <2> QED BY <2>1, <2>2
<1>3. ListenersWait'
    BY <1>0, <1>1, <1>2 DEF ListenersWait
<1>4. WaitersListen'
    BY <1>0, <1>1, <1>2 DEF WaitersListen
<1> QED BY <1>1, <1>2, <1>3, <1>4

LEMMA RetryKeeps ==
    ASSUME ApiInv, NEW r \in 1..Len(requests), Api!Retry(r)
    PROVE  ApiInv'
<1> DEFINE old == requests[r]
           q == [old EXCEPT !.retries = @ - 1]
<1>1. /\ old.phase = "open" /\ old.retries > 0
      /\ requests' = [requests EXCEPT ![r] = q]
      /\ UNCHANGED <<answer, pageCache, requestQueue, fatal>>
    BY DEF Api!Retry
<1>2. old \in ApiRequestType /\ old.retries \in Nat
    BY ApiTypes DEF ApiInv
<1>3. /\ q \in ApiRequestType /\ q.title = old.title /\ q.phase = old.phase /\ q.error = old.error
      /\ q.listeners = old.listeners
    <2> HIDE DEF old
    <2>1. old.retries - 1 \in Nat
        BY <1>1, <1>2
    <2> QED BY <1>2, <2>1 DEF ApiRequestType
<1> HIDE DEF q
<1>4. /\ requests' \in Seq(ApiRequestType) /\ Len(requests') = Len(requests)
      /\ requests'[r] = q
      /\ \A s \in 1..Len(requests) : s # r => requests'[s] = requests[s]
      /\ ListenersWait' /\ WaitersListen'
    BY <1>1, <1>3, ListenersStay
<1>5. \A s \in 1..Len(requests) : /\ requests'[s].title = requests[s].title
                                  /\ requests'[s].phase = requests[s].phase
                                  /\ requests'[s].error = requests[s].error
    BY <1>3, <1>4
<1>6. ApiTypeOK'
    BY <1>1, <1>4 DEF ApiInv, ApiTypeOK
<1>7. QueueIsOpen'
    BY <1>1, <1>4, <1>5 DEF ApiInv, QueueIsOpen
<1>8. AnswersAreCached' /\ Api!RefetchOnlyAfterError'
    BY <1>1, <1>4, <1>5 DEF ApiInv, AnswersAreCached, Api!RefetchOnlyAfterError
<1> QED BY <1>4, <1>6, <1>7, <1>8 DEF ApiInv

\* With the answer the request leaves the queue, and a page goes into the cache.
LEMMA AnsweredKeeps ==
    ASSUME ApiInv, NEW r \in 1..Len(requests), NEW error \in BOOLEAN, Api!Answered(r, error)
    PROVE  ApiInv'
<1> DEFINE old == requests[r]
           q == [old EXCEPT !.phase = "turn", !.error = error]
<1>0. ApiTypeOK /\ QueueIsOpen /\ AnswersAreCached /\ Api!RefetchOnlyAfterError
    BY DEF ApiInv
<1>1. /\ old.phase = "open"
      /\ requests' = [requests EXCEPT ![r] = q]
      /\ pageCache' = IF error THEN pageCache ELSE pageCache \cup {old.title}
      /\ requestQueue' = [requestQueue EXCEPT ![old.title] = 0]
      /\ UNCHANGED <<answer, fatal>>
    BY <1>0, ApiTypes DEF Api!Answered, Api!Dequeued
<1>2. old \in ApiRequestType /\ old.title \in Title
    BY <1>0, ApiTypes
<1>3. /\ q \in ApiRequestType /\ q.title = old.title /\ q.phase = "turn" /\ q.error = error
      /\ q.listeners = old.listeners
    <2> HIDE DEF old
    <2> QED BY <1>2 DEF ApiRequestType
<1> HIDE DEF q
<1>4. /\ requests' \in Seq(ApiRequestType) /\ Len(requests') = Len(requests)
      /\ requests'[r] = q
      /\ \A s \in 1..Len(requests) : s # r => requests'[s] = requests[s]
      /\ ListenersWait' /\ WaitersListen'
    BY <1>1, <1>3, ListenersStay
<1>5. \A t \in Title : requestQueue'[t] = IF t = old.title THEN 0 ELSE requestQueue[t]
    BY <1>0, <1>1, <1>2 DEF ApiTypeOK
<1>6. ApiTypeOK'
    BY <1>0, <1>1, <1>2, <1>4 DEF ApiTypeOK
<1>7. requestQueue[old.title] = r
    BY <1>0, <1>1 DEF QueueIsOpen
<1>8. QueueIsOpen'
    <2>1. \A t \in Title : requestQueue'[t] # 0 =>
              /\ requestQueue'[t] \in 1..Len(requests')
              /\ requests'[requestQueue'[t]].title = t
              /\ requests'[requestQueue'[t]].phase = "open"
        <3> SUFFICES ASSUME NEW t \in Title, requestQueue'[t] # 0
                     PROVE  /\ requestQueue'[t] \in 1..Len(requests')
                            /\ requests'[requestQueue'[t]].title = t
                            /\ requests'[requestQueue'[t]].phase = "open"
            OBVIOUS
        <3>1. t # old.title /\ requestQueue'[t] = requestQueue[t]
            BY <1>5
        <3>2. /\ requestQueue[t] \in 1..Len(requests)
              /\ requests[requestQueue[t]].title = t
              /\ requests[requestQueue[t]].phase = "open"
            BY <1>0, <3>1 DEF QueueIsOpen
        <3> QED BY <1>4, <3>1, <3>2
    <2>2. \A s \in 1..Len(requests') : requests'[s].phase = "open" =>
              requestQueue'[requests'[s].title] = s
        <3> SUFFICES ASSUME NEW s \in 1..Len(requests'), requests'[s].phase = "open"
                     PROVE  requestQueue'[requests'[s].title] = s
            OBVIOUS
        <3>1. s # r /\ s \in 1..Len(requests) /\ requests'[s] = requests[s]
            BY <1>3, <1>4
        <3>2. requestQueue[requests[s].title] = s /\ requests[s].title \in Title
            BY <1>0, <3>1, ApiTypes DEF QueueIsOpen
        <3> QED BY <1>5, <1>7, <3>1, <3>2
    <2> QED BY <2>1, <2>2 DEF QueueIsOpen
<1>9. AnswersAreCached'
    BY <1>0, <1>1, <1>3, <1>4 DEF AnswersAreCached
<1>10. Api!RefetchOnlyAfterError'
    <2> SUFFICES ASSUME NEW s \in 1..Len(requests), NEW u \in 1..Len(requests),
                        s < u, requests'[s].title = requests'[u].title
                 PROVE  requests'[s].phase # "open" /\ requests'[s].error
        BY <1>4 DEF Api!RefetchOnlyAfterError
    <2>1. requests[s].title = requests[u].title
        BY <1>3, <1>4
    <2>2. requests[s].phase # "open" /\ requests[s].error
        BY <1>0, <2>1 DEF Api!RefetchOnlyAfterError
    <2>3. s # r
        BY <1>1, <2>2
    <2> QED BY <1>4, <2>2, <2>3
<1> QED BY <1>4, <1>6, <1>8, <1>9, <1>10 DEF ApiInv

LEMMA HeadAndTail ==
    ASSUME NEW S, NEW s \in Seq(S), s # <<>>
    PROVE  /\ Len(s) \in Nat \ {0} /\ Head(s) = s[1] /\ Head(s) \in S /\ Tail(s) \in Seq(S)
           /\ Len(Tail(s)) = Len(s) - 1
           /\ \A i \in 1..Len(Tail(s)) : Tail(s)[i] = s[i + 1] /\ i + 1 \in 1..Len(s)
OBVIOUS

\* The first listener is told, and the others still wait.
LEMMA ProcessSomeKeeps ==
    ASSUME ApiInv, NEW r \in 1..Len(requests), Api!processSome(r)
    PROVE  ApiInv'
<1> DEFINE old == requests[r]
           c == Head(old.listeners)
           left == Tail(old.listeners)
           phase == IF c \in ThrowingCallers THEN "over" ELSE Api!NextPhase(left)
           q == [old EXCEPT !.listeners = left, !.phase = phase]
<1>0. ApiTypeOK /\ QueueIsOpen /\ ListenersWait /\ WaitersListen /\ AnswersAreCached
    BY DEF ApiInv
<1>1. /\ old.phase = "turn"
      /\ answer' = [answer EXCEPT ![c] = Api!Source(r)]
      /\ requests' = [requests EXCEPT ![r].listeners = left, ![r].phase = phase]
      /\ fatal' = (fatal \/ c \in ThrowingCallers)
      /\ UNCHANGED <<pageCache, requestQueue>>
    BY DEF Api!processSome
<1>2. /\ old \in ApiRequestType /\ old.listeners \in Seq(Caller)
      /\ old.listeners # <<>> /\ requests \in Seq(ApiRequestType)
    BY <1>0, <1>1, ApiTypes DEF ListenersWait
<1>3. /\ Len(old.listeners) \in Nat \ {0} /\ c = old.listeners[1] /\ c \in Caller
      /\ left \in Seq(Caller) /\ Len(left) = Len(old.listeners) - 1
      /\ \A i \in 1..Len(left) : left[i] = old.listeners[i + 1] /\ i + 1 \in 1..Len(old.listeners)
    BY <1>2, HeadAndTail
<1>4. phase \in {"turn", "over"} /\ (phase = "turn" => left # <<>>)
      /\ (phase = "over" => c \in ThrowingCallers \/ left = <<>>)
    BY DEF Api!NextPhase
<1> HIDE DEF phase, left, c
<1>5. /\ q \in ApiRequestType /\ q.title = old.title /\ q.phase = phase /\ q.error = old.error
      /\ q.listeners = left
    <2> HIDE DEF old
    <2> QED BY <1>2, <1>3, <1>4 DEF ApiRequestType
<1>6. requests' = [requests EXCEPT ![r] = q]
    BY <1>1, <1>2
<1> HIDE DEF q
<1>7. /\ requests' \in Seq(ApiRequestType) /\ Len(requests') = Len(requests)
      /\ requests'[r] = q
      /\ \A s \in 1..Len(requests) : s # r => requests'[s] = requests[s]
    BY <1>2, <1>5, <1>6, ReplaceInSeq
<1>8. \A s \in 1..Len(requests) : /\ requests'[s].title = requests[s].title
                                  /\ requests'[s].error = requests[s].error
                                  /\ requests'[s].phase = "open" <=> requests[s].phase = "open"
    <2> TAKE s \in 1..Len(requests)
    <2>1. CASE s = r
        BY <1>1, <1>4, <1>5, <1>7, <2>1
    <2>2. CASE s # r
        BY <1>7, <2>2
    <2> QED BY <2>1, <2>2
<1>9. Api!Source(r) \in {"source", "error"}
    BY DEF Api!Source
<1>10. \A d \in Caller : answer'[d] = IF d = c THEN Api!Source(r) ELSE answer[d]
    BY <1>0, <1>1, <1>3 DEF ApiTypeOK
<1>11. ApiTypeOK'
    BY <1>0, <1>1, <1>3, <1>7, <1>9 DEF ApiTypeOK
<1>12. QueueIsOpen'
    <2>1. \A t \in Title : requestQueue[t] # 0 =>
              /\ requestQueue[t] \in 1..Len(requests')
              /\ requests'[requestQueue[t]].title = t
              /\ requests'[requestQueue[t]].phase = "open"
        BY <1>0, <1>7, <1>8 DEF QueueIsOpen
    <2>2. \A s \in 1..Len(requests') : requests'[s].phase = "open" => requestQueue[requests'[s].title] = s
        BY <1>0, <1>7, <1>8 DEF QueueIsOpen
    <2> QED BY <1>1, <2>1, <2>2 DEF QueueIsOpen
<1>13. AnswersAreCached' /\ Api!RefetchOnlyAfterError'
    BY <1>1, <1>7, <1>8 DEF ApiInv, AnswersAreCached, Api!RefetchOnlyAfterError
<1>14. ASSUME NEW s \in 1..Len(requests), NEW i \in 1..Len(requests'[s].listeners)
       PROVE  \E k \in 1..Len(requests[s].listeners) :
                  /\ requests'[s].listeners[i] = requests[s].listeners[k]
                  /\ k = IF s = r THEN i + 1 ELSE i
    <2>1. CASE s = r
        <3>1. requests'[s].listeners = left
            BY <1>5, <1>7, <2>1
        <3> QED BY <1>3, <2>1, <3>1
    <2>2. CASE s # r
        BY <1>7, <2>2
    <2> QED BY <2>1, <2>2
<1>15. \A s, u \in 1..Len(requests) :
       \A k \in 1..Len(requests[s].listeners), l \in 1..Len(requests[u].listeners) :
           requests[s].listeners[k] = requests[u].listeners[l] => s = u /\ k = l
    BY <1>0 DEF ListenersWait
<1>16. ASSUME NEW s \in 1..Len(requests), NEW i \in 1..Len(requests'[s].listeners)
       PROVE  requests'[s].listeners[i] # c
    <2>1. PICK k \in 1..Len(requests[s].listeners) :
              /\ requests'[s].listeners[i] = requests[s].listeners[k]
              /\ k = IF s = r THEN i + 1 ELSE i
        BY <1>14
    <2>2. 1 \in 1..Len(old.listeners)
        BY <1>3
    <2>3. i # 0 /\ i \in Nat
        OBVIOUS
    <2> QED BY <1>3, <1>15, <2>1, <2>2, <2>3
<1>17. ListenersWait'
    <2>1. \A s \in 1..Len(requests') : requests'[s].phase # "over" => requests'[s].listeners # <<>>
        <3> TAKE s \in 1..Len(requests')
        <3>1. CASE s = r
            BY <1>4, <1>5, <1>7, <3>1
        <3>2. CASE s # r
            BY <1>0, <1>7, <3>2 DEF ListenersWait
        <3> QED BY <3>1, <3>2
    <2>2. ASSUME NEW s \in 1..Len(requests'), NEW i \in 1..Len(requests'[s].listeners)
          PROVE  answer'[requests'[s].listeners[i]] = "waiting"
        <3>1. PICK k \in 1..Len(requests[s].listeners) :
                  requests'[s].listeners[i] = requests[s].listeners[k]
            BY <1>7, <1>14
        <3>2. answer[requests[s].listeners[k]] = "waiting" /\ requests[s].listeners[k] \in Caller
            BY <1>0, <1>7, ApiTypes DEF ListenersWait
        <3>3. requests'[s].listeners[i] # c
            BY <1>7, <1>16
        <3> QED BY <1>10, <3>1, <3>2, <3>3
    <2>3. ASSUME NEW s \in 1..Len(requests'), NEW u \in 1..Len(requests'),
                 NEW i \in 1..Len(requests'[s].listeners), NEW j \in 1..Len(requests'[u].listeners),
                 requests'[s].listeners[i] = requests'[u].listeners[j]
          PROVE  s = u /\ i = j
        <3>0. s \in 1..Len(requests) /\ u \in 1..Len(requests)
            BY <1>7
        <3>1. PICK k \in 1..Len(requests[s].listeners) :
                  /\ requests'[s].listeners[i] = requests[s].listeners[k]
                  /\ k = IF s = r THEN i + 1 ELSE i
            BY <1>14, <3>0
        <3>2. PICK l \in 1..Len(requests[u].listeners) :
                  /\ requests'[u].listeners[j] = requests[u].listeners[l]
                  /\ l = IF u = r THEN j + 1 ELSE j
            BY <1>14, <3>0
        <3>3. s = u /\ k = l
            <4>1. requests[s].listeners[k] = requests[u].listeners[l]
                BY <2>3, <3>1, <3>2
            <4> QED BY <1>15, <3>0, <4>1
        <3>4. i \in Nat /\ j \in Nat
            OBVIOUS
        <3> QED BY <3>1, <3>2, <3>3, <3>4
    <2> QED BY <2>1, <2>2, <2>3 DEF ListenersWait
<1>18. WaitersListen'
    <2> SUFFICES ASSUME NEW d \in Caller, answer'[d] = "waiting", ~fatal'
                 PROVE  \E s \in 1..Len(requests') :
                            /\ requests'[s].phase # "over"
                            /\ \E i \in 1..Len(requests'[s].listeners) : requests'[s].listeners[i] = d
        BY DEF WaitersListen
    <2>1. d # c /\ answer[d] = "waiting" /\ ~fatal /\ c \notin ThrowingCallers
        BY <1>1, <1>9, <1>10
    <2>2. PICK s \in 1..Len(requests) :
              /\ requests[s].phase # "over"
              /\ \E i \in 1..Len(requests[s].listeners) : requests[s].listeners[i] = d
        BY <1>0, <2>1 DEF WaitersListen
    <2>3. PICK k \in 1..Len(requests[s].listeners) : requests[s].listeners[k] = d
        BY <2>2
    <2>4. CASE s # r
        BY <1>7, <2>2, <2>4
    <2>5. CASE s = r
        <3>1. k # 1
            BY <1>3, <2>1, <2>3, <2>5
        <3>2. k - 1 \in 1..Len(left) /\ left[k - 1] = d
            <4>1. k \in 1..Len(old.listeners)
                BY <2>5
            <4>2. k - 1 \in 1..Len(left) /\ (k - 1) + 1 = k
                BY <1>3, <3>1, <4>1
            <4>3. left[k - 1] = old.listeners[(k - 1) + 1]
                BY <1>3, <4>2
            <4> QED BY <2>3, <2>5, <4>2, <4>3
        <3>3. left # <<>>
            BY <3>2
        <3>4. requests'[s].phase # "over" /\ requests'[s].listeners = left
            BY <1>4, <1>5, <1>7, <2>1, <2>5, <3>3
        <3> QED BY <1>7, <3>2, <3>4
    <2> QED BY <2>4, <2>5
<1> QED BY <1>11, <1>12, <1>13, <1>17, <1>18 DEF ApiInv

LEMMA ApiInit == Api!Init => ApiInv
<1> SUFFICES ASSUME Api!Init PROVE ApiInv
    OBVIOUS
<1>1. requests = <<>> /\ Len(requests) = 0 /\ <<>> \in Seq(ApiRequestType)
    BY DEF Api!Init
<1>2. ApiTypeOK
    BY <1>1 DEF Api!Init, ApiTypeOK
<1> QED BY <1>1, <1>2
        DEF Api!Init, ApiInv, QueueIsOpen, ListenersWait, WaitersListen, AnswersAreCached,
            Api!RefetchOnlyAfterError

LEMMA ApiKeeps == ApiInv /\ Api!Next => ApiInv'
BY FromCacheKeeps, JoinKeeps, StartKeeps, RetryKeeps, AnsweredKeeps, ProcessSomeKeeps
   DEF Api!Next, Api!Fetch, Api!RequestStep, Api!requestStep

-----------------------------------------------------------------------------
(* The messages of Logger *)

LoggerType ==
    [status : [Message -> {"new", "ignored", "queued", "routed"}],
     result : [Message -> {"none", "undefined", "pending", "done"}],
     queue : Seq([kind : {"args", "deferred"}, msg : Message]),
     open : [Message -> SUBSET Backend]]

\* The logger after some calls for messages of S: they were queued or ignored.
AfterCalls(old, S) ==
    {l \in LoggerType :
        /\ l.open = old.open
        /\ \A n \in Message \ S : l.status[n] = old.status[n]
        /\ \A n \in Message : l.status[n] = "routed" => old.status[n] = "routed"}

LEMMA logNestedCalls ==
    ASSUME NEW old, NEW S \in SUBSET Message, NEW l \in AfterCalls(old, S), NEW m \in S
    PROVE  Log!logNested(l, m) \in AfterCalls(old, S)
<1> DEFINE pair == <<[kind |-> "args", msg |-> m], [kind |-> "deferred", msg |-> m]>>
           new == Log!logNested(l, m)
<1>1. /\ l \in LoggerType /\ m \in Message
      /\ l.status \in [Message -> {"new", "ignored", "queued", "routed"}]
      /\ l.result \in [Message -> {"none", "undefined", "pending", "done"}]
      /\ l.queue \in Seq([kind : {"args", "deferred"}, msg : Message])
    BY DEF AfterCalls, LoggerType
<1>2. pair \in Seq([kind : {"args", "deferred"}, msg : Message])
    BY <1>1
<1>3. l.queue \o pair \in Seq([kind : {"args", "deferred"}, msg : Message])
    <2> HIDE DEF pair
    <2> QED BY <1>1, <1>2, ConcatProperties
<1> HIDE DEF pair
<1>4. ASSUME NEW st \in {"queued", "ignored"}, NEW rs \in {"undefined", "pending"},
             NEW qu \in Seq([kind : {"args", "deferred"}, msg : Message])
      PROVE  [l EXCEPT !.status = [l.status EXCEPT ![m] = st],
                       !.result = [l.result EXCEPT ![m] = rs], !.queue = qu] \in AfterCalls(old, S)
    <2> DEFINE status1 == [l.status EXCEPT ![m] = st]
               result1 == [l.result EXCEPT ![m] = rs]
               o == [l EXCEPT !.status = status1, !.result = result1, !.queue = qu]
    <2>1. /\ status1 \in [Message -> {"new", "ignored", "queued", "routed"}]
          /\ status1[m] = st
          /\ \A n \in Message : n # m => status1[n] = l.status[n]
          /\ result1 \in [Message -> {"none", "undefined", "pending", "done"}]
        BY <1>1
    <2> HIDE DEF status1, result1
    <2>2. o \in LoggerType /\ o.open = l.open /\ o.status = status1
        BY <1>1, <2>1 DEF LoggerType
    <2> HIDE DEF o
    <2>3. o \in AfterCalls(old, S)
        BY <1>1, <2>1, <2>2 DEF AfterCalls
    <2> QED BY <2>3 DEF o, status1, result1
<1>5. CASE m \in Fatal
    <2>1. new = [l EXCEPT !.status = [l.status EXCEPT ![m] = "queued"],
                          !.result = [l.result EXCEPT ![m] = "pending"], !.queue = l.queue \o pair]
        BY <1>1, <1>5 DEF Log!logNested, LoggerType, pair
    <2> QED BY <1>3, <1>4, <2>1
<1>6. CASE m \notin Fatal
    <2>1. new = [l EXCEPT !.status = [l.status EXCEPT ![m] = "ignored"],
                          !.result = [l.result EXCEPT ![m] = "undefined"], !.queue = l.queue]
        BY <1>1, <1>6 DEF Log!logNested, LoggerType
    <2> QED BY <1>1, <1>4, <2>1
<1> QED BY <1>5, <1>6

LEMMA NestingIsLogs ==
    ASSUME NEW l, NEW s
    PROVE  Nesting!FoldLeft(Log!logNested, l, s) = Log!FoldLeft(Log!logNested, l, s)
BY Zenon DEF Nesting!FoldLeft, Nesting!MapThenFoldSet, Nesting!Max,
             Log!FoldLeft, Log!MapThenFoldSet, Log!Max

\* Whatever its backends log, a message ends up with them, and the logger has
\* changed elsewhere only in what it knows of the messages they logged.
LEMMA RoutedAndCalled ==
    ASSUME NEW l \in LoggerType, NEW m \in Message,
           \A i \in 1..Len(Nested[m]) : Nested[m][i] # m
    PROVE  LET n == Log!routeToBackends(l, m)
           IN  /\ n \in LoggerType
               /\ n.open = [l.open EXCEPT ![m] = Backend]
               /\ n.status[m] = "routed"
               /\ \A k \in Message : k # m /\ ~Log!Contains(Nested[m], k) => n.status[k] = l.status[k]
               /\ \A k \in Message : n.status[k] = "routed" => k = m \/ l.status[k] = "routed"
<1> DEFINE status1 == [l.status EXCEPT ![m] = "routed"]
           result1 == [l.result EXCEPT ![m] = "pending"]
           open1 == [l.open EXCEPT ![m] = Backend]
           o == [l EXCEPT !.status = status1, !.result = result1, !.open = open1]
           S == {Nested[m][i] : i \in 1..Len(Nested[m])}
           n == Log!routeToBackends(l, m)
<1>1. /\ l.status \in [Message -> {"new", "ignored", "queued", "routed"}]
      /\ l.result \in [Message -> {"none", "undefined", "pending", "done"}]
      /\ l.open \in [Message -> SUBSET Backend]
    BY DEF LoggerType
<1>2. /\ status1 \in [Message -> {"new", "ignored", "queued", "routed"}]
      /\ status1[m] = "routed" /\ \A k \in Message : k # m => status1[k] = l.status[k]
      /\ result1 \in [Message -> {"none", "undefined", "pending", "done"}]
      /\ open1 \in [Message -> SUBSET Backend]
    BY <1>1
<1>3. n = Log!FoldLeft(Log!logNested, o, Nested[m])
    BY DEF Log!routeToBackends, LoggerType
<1> HIDE DEF status1, result1
<1>4. o \in LoggerType /\ o.open = open1 /\ o.status = status1
    <2> HIDE DEF open1
    <2> QED BY <1>2 DEF LoggerType
<1> HIDE DEF o
<1>5. Nested[m] \in Seq(Message) /\ S \in SUBSET Message
    BY ServiceAssumption DEF ServiceAssumption
<1>6. o \in AfterCalls(o, S)
    BY <1>4 DEF AfterCalls
<1>7. ASSUME NEW a \in AfterCalls(o, S), NEW i \in 1..Len(Nested[m])
      PROVE  Log!logNested(a, Nested[m][i]) \in AfterCalls(o, S)
    <2>1. Nested[m][i] \in S
        OBVIOUS
    <2> HIDE DEF S
    <2> QED BY <1>5, <2>1, logNestedCalls
<1>8. Nesting!FoldLeft(Log!logNested, o, Nested[m]) \in AfterCalls(o, S)
    <2> HIDE DEF S
    <2> QED BY <1>5, <1>6, <1>7, Nesting!FoldStays
<1>9. n \in AfterCalls(o, S)
    BY <1>3, <1>8, NestingIsLogs
<1> HIDE DEF n
<1>10. \A k \in Message : k \in S => Log!Contains(Nested[m], k)
    BY DEF Log!Contains
<1>11. m \notin S
    OBVIOUS
<1> HIDE DEF S
<1>12. /\ n \in LoggerType /\ n.open = open1 /\ n.status[m] = "routed"
       /\ \A k \in Message : k # m /\ ~Log!Contains(Nested[m], k) => n.status[k] = l.status[k]
       /\ \A k \in Message : n.status[k] = "routed" => k = m \/ l.status[k] = "routed"
    BY <1>2, <1>4, <1>9, <1>10, <1>11 DEF AfterCalls
<1> QED BY <1>12 DEF n

LEMMA FrontIsSeq ==
    ASSUME NEW S, NEW s \in Seq(S)
    PROVE  Log!Front(s) \in Seq(S)
BY DEF Log!Front

LEMMA LogKeeps ==
    ASSUME LogInv, NEW m \in Log!TopLevel, Log!Log(m)
    PROVE  LogInv'
<1> DEFINE n == Log!routeToBackends(Log!Logger, m)
           l == Log!log(Log!Logger, m)
<1>0. m \in Message /\ \A i \in 1..Len(Nested[m]) : Nested[m][i] # m
    BY DEF Log!TopLevel, Log!Contains
<1>1. /\ status[m] = "new" /\ status' = l.status /\ result' = l.result /\ queue' = l.queue
      /\ open' = l.open /\ UNCHANGED <<timers, exited>>
    BY DEF Log!Log
<1>2. /\ Log!Logger \in LoggerType /\ Log!Logger.status = status /\ Log!Logger.open = open
    BY DEF LogInv, LogTypeOK, Log!Logger, LoggerType
<1>3. /\ n \in LoggerType
      /\ n.open = [open EXCEPT ![m] = Backend]
      /\ n.status[m] = "routed"
      /\ \A k \in Message : k # m /\ ~Log!Contains(Nested[m], k) => n.status[k] = status[k]
      /\ \A k \in Message : n.status[k] = "routed" => k = m \/ status[k] = "routed"
    BY <1>0, <1>2, RoutedAndCalled
<1>4. /\ n.queue \in Seq([kind : {"args", "deferred"}, msg : Message])
      /\ Log!Front(Log!Front(n.queue)) \in Seq([kind : {"args", "deferred"}, msg : Message])
      /\ n.result \in [Message -> {"none", "undefined", "pending", "done"}]
    BY <1>3, FrontIsSeq DEF LoggerType
<1>5. /\ l.status = n.status /\ l.open = n.open
      /\ l.queue \in Seq([kind : {"args", "deferred"}, msg : Message])
      /\ l.result \in [Message -> {"none", "undefined", "pending", "done"}]
    <2>1. CASE n.queue = <<>>
        BY <1>4, <2>1 DEF Log!log
    <2>2. CASE n.queue # <<>>
        <3> DEFINE result1 == [n.result EXCEPT ![m] = "undefined"]
                   queue1 == Log!Front(Log!Front(n.queue))
        <3>1. l = [n EXCEPT !.queue = queue1, !.result = result1]
            BY <1>3, <2>2 DEF Log!log, LoggerType
        <3>2. result1 \in [Message -> {"none", "undefined", "pending", "done"}]
            BY <1>4
        <3> HIDE DEF n, result1, queue1, l
        <3>3. l.status = n.status /\ l.open = n.open /\ l.queue = queue1 /\ l.result = result1
            BY <1>3, <3>1 DEF LoggerType
        <3> QED BY <1>4, <3>2, <3>3 DEF queue1
    <2> QED BY <2>1, <2>2
<1> HIDE DEF n, l
<1>6. LogTypeOK'
    BY <1>1, <1>3, <1>5 DEF LogInv, LogTypeOK, LoggerType
<1>7. \A k \in Message : status'[k] = "routed" => k \in Log!TopLevel
    BY <1>1, <1>3, <1>5 DEF LogInv
<1>8. ASSUME NEW k \in Message, status[k] = "routed", k # m
      PROVE  status'[k] = "routed" /\ open'[k] = open[k]
    <2>1. ~Log!Contains(Nested[m], k)
        BY <1>0, <1>8 DEF LogInv, Log!TopLevel
    <2> QED BY <1>1, <1>3, <1>5, <1>8, <2>1 DEF LogInv, LogTypeOK
<1>9. \A k \in Message : open'[k] # {} => status'[k] = "routed"
    <2> SUFFICES ASSUME NEW k \in Message, open'[k] # {} PROVE status'[k] = "routed"
        OBVIOUS
    <2>1. CASE k = m
        BY <1>1, <1>3, <1>5, <2>1
    <2>2. CASE k # m
        <3>1. open[k] # {}
            BY <1>1, <1>3, <1>5, <2>2 DEF LogInv, LogTypeOK
        <3> QED BY <1>8, <2>2, <3>1 DEF LogInv
    <2> QED BY <2>1, <2>2
<1>10. \A k \in timers' : status'[k] = "routed" /\ open'[k] = {}
    <2> TAKE k \in timers'
    <2>1. k \in Message /\ status[k] = "routed" /\ open[k] = {} /\ k # m
        BY <1>1, ServiceAssumption DEF LogInv, LogTypeOK, ServiceAssumption
    <2> QED BY <1>8, <2>1
<1>11. exited' => timers' # {}
    BY <1>1 DEF LogInv
<1>12. Log!TopLevel' = Log!TopLevel
    BY DEF Log!TopLevel, Log!Contains
<1> QED BY <1>6, <1>7, <1>9, <1>10, <1>11 DEF LogInv

\* The timer of a fatal message starts when its last backend has settled.
LEMMA BackendSettlesKeeps ==
    ASSUME LogInv, NEW m \in Message, NEW b \in Backend, Log!BackendSettles(m, b)
    PROVE  LogInv'
<1> DEFINE left == open[m] \ {b}
<1>1. /\ b \in open[m] /\ open' = [open EXCEPT ![m] = left]
      /\ UNCHANGED <<status, queue, exited>>
      /\ \/ UNCHANGED <<result, timers>>
         \/ /\ left = {}
            /\ result' = [result EXCEPT ![m] = IF @ = "pending" THEN "done" ELSE @]
            /\ timers' = IF m \in Fatal THEN timers \cup {m} ELSE timers
    BY DEF Log!BackendSettles, Log!AllDone
<1>2. status[m] = "routed"
    BY <1>1 DEF LogInv
<1>3. LogTypeOK'
    <2>1. open' \in [Message -> SUBSET Backend]
        BY <1>1 DEF LogInv, LogTypeOK
    <2>2. result' \in [Message -> {"none", "undefined", "pending", "done"}]
        BY <1>1 DEF LogInv, LogTypeOK
    <2>3. timers' \subseteq Fatal
        BY <1>1 DEF LogInv, LogTypeOK
    <2> QED BY <1>1, <2>1, <2>2, <2>3 DEF LogInv, LogTypeOK
<1>4. \A k \in Message : open'[k] = IF k = m THEN left ELSE open[k]
    BY <1>1 DEF LogInv, LogTypeOK
<1>5. \A k \in timers' : status'[k] = "routed" /\ open'[k] = {}
    <2> TAKE k \in timers'
    <2>1. CASE k \in timers
        <3>1. status[k] = "routed" /\ open[k] = {} /\ k \in Message
            BY <2>1, ServiceAssumption DEF LogInv, LogTypeOK, ServiceAssumption
        <3>2. k # m
            BY <1>1, <3>1
        <3> QED BY <1>1, <1>4, <3>1, <3>2
    <2>2. CASE k \notin timers
        <3>1. k = m /\ left = {}
            BY <1>1, <2>2
        <3> QED BY <1>1, <1>2, <1>4, <3>1
    <2> QED BY <2>1, <2>2
<1>6. \A k \in Message : open'[k] # {} => status'[k] = "routed"
    BY <1>1, <1>2, <1>4 DEF LogInv
<1>7. exited' => timers' # {}
    BY <1>1 DEF LogInv
<1> QED BY <1>1, <1>3, <1>5, <1>6, <1>7 DEF LogInv

LEMMA LogInit == Log!Init => LogInv
<1> SUFFICES ASSUME Log!Init PROVE LogInv
    OBVIOUS
<1>1. /\ status = [m \in Message |-> "new"] /\ open = [m \in Message |-> {}]
      /\ result = [m \in Message |-> "none"] /\ queue = <<>> /\ timers = {} /\ exited = FALSE
    BY DEF Log!Init
<1>2. queue \in Seq([kind : {"args", "deferred"}, msg : Message])
    BY <1>1
<1>3. LogTypeOK
    BY <1>1, <1>2 DEF LogTypeOK
<1> QED BY <1>1, <1>3 DEF LogInv

LEMMA LogNextKeeps == LogInv /\ Log!Next => LogInv'
<1>1. ASSUME LogInv, NEW m \in Message, Log!Exit(m) PROVE LogInv'
    BY <1>1 DEF Log!Exit, LogInv, LogTypeOK
<1> QED BY <1>1, LogKeeps, BackendSettlesKeeps DEF Log!Next, Log!Settle

-----------------------------------------------------------------------------
(* Service *)

LEMMA IInvInit == Init => IInv
BY HttpInit, ApiInit, LogInit DEF Init, IInv

LEMMA IInvNext == IInv /\ [Next]_vars => IInv'
<1> SUFFICES ASSUME IInv, [Next]_vars PROVE IInv'
    OBVIOUS
<1>1. CASE HttpStep
    BY <1>1, HttpKeeps DEF IInv, HttpStep
<1>2. CASE ApiStep
    BY <1>2, ApiKeeps DEF IInv, ApiStep
<1>3. CASE LogStep
    BY <1>3, LogNextKeeps DEF IInv, LogStep
<1>4. CASE UNCHANGED vars
    <2>1. HttpInv => HttpInv'
        BY <1>4 DEF vars, httpVars, HttpInv, Http!EndedForCause
    <2>2. ApiInv => ApiInv'
        BY <1>4 DEF vars, apiVars, ApiInv, ApiTypeOK, QueueIsOpen, ListenersWait, WaitersListen,
                    AnswersAreCached, Api!RefetchOnlyAfterError
    <2>3. LogInv => LogInv'
        BY <1>4 DEF vars, logVars, LogInv, LogTypeOK
    <2> QED BY <1>4, <2>1, <2>2, <2>3 DEF IInv, vars
<1> QED BY <1>1, <1>2, <1>3, <1>4 DEF Next

\* The inductive invariant: what is known of a request in each of its states, where
\* the transclusions that wait are, and which messages the exit timers are for.
THEOREM ServiceInvariant == Spec => []IInv
BY IInvInit, IInvNext, PTL DEF Spec

\* A page is sent in a version the client accepts, whatever versions its header
\* names (validateAndSetOutputContentVersion); selective serialization compares
\* documents of one version; and the timeout that ends the process is that of a
\* request whose answer was not out when it fired.
THEOREM SendsRightAnswer == Spec => []RightAnswer
<1>1. HttpInv => Http!ServedAsAsked
    BY DEF HttpInv, GoodRequest, AnswersFit, AcceptedBy, Http!ServedAsAsked
<1>2. HttpInv => Http!LikeWithLike
    BY DEF HttpInv, GoodRequest, AnswersFit, Http!LikeWithLike
<1>3. IInv => RightAnswer
    BY <1>1, <1>2 DEF IInv, RightAnswer, HttpInv
<1> QED BY <1>3, ServiceInvariant, PTL

\* A transclusion that waits is the listener of exactly one request that is not
\* over, and a page is fetched again only when it could not be fetched before.
THEOREM ForgetsNobody == Spec => []NobodyForgotten
<1>1. ASSUME ApiInv PROVE Api!NobodyForgotten
    <2> SUFFICES ASSUME NEW c \in Caller, answer[c] = "waiting", ~fatal
                 PROVE  \E r \in 1..Len(requests) :
                            /\ requests[r].phase # "over"
                            /\ Api!Contains(requests[r].listeners, c)
                            /\ \A s \in 1..Len(requests) :
                                   Api!Contains(requests[s].listeners, c) => s = r
        BY DEF Api!NobodyForgotten
    <2>1. PICK r \in 1..Len(requests) :
              /\ requests[r].phase # "over"
              /\ \E i \in 1..Len(requests[r].listeners) : requests[r].listeners[i] = c
        BY <1>1 DEF ApiInv, WaitersListen
    <2>2. ASSUME NEW s \in 1..Len(requests), Api!Contains(requests[s].listeners, c)
          PROVE  s = r
        BY <1>1, <2>1, <2>2 DEF ApiInv, ListenersWait, Api!Contains
    <2> QED BY <2>1, <2>2 DEF Api!Contains
<1>2. IInv => NobodyForgotten
    BY <1>1 DEF IInv, NobodyForgotten, ApiInv
<1> QED BY <1>2, ServiceInvariant, PTL

\* When the process has exited there is a fatal message that every backend has
\* settled, however the backends of other messages interleave with its own.
THEOREM ExitsWhenLogged == Spec => []ExitsAfterLogging
<1>1. LogInv => Log!ExitsAfterLogging
    BY DEF LogInv, LogTypeOK, Log!ExitsAfterLogging
<1>2. IInv => ExitsAfterLogging
    BY <1>1 DEF IInv, ExitsAfterLogging
<1> QED BY <1>2, ServiceInvariant, PTL
=============================================================================
