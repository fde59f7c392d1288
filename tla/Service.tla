-------------------------------- MODULE Service --------------------------------
(***************************************************************************)
(* The process around the parser: the requests it serves (HttpService),    *)
(* those it makes for the source of templates (ApiRequest), and the log    *)
(* that ends it (Logger).  A behaviour is one of one of them, `part`.      *)
(***************************************************************************)
EXTENDS Naturals, Sequences

CONSTANTS
    Requests, Accepts, Versions,                        \* of HttpService
    Title, Caller, TitleOf, Retries, ThrowingCallers,   \* of ApiRequest
    Message, Fatal, Nested, Backend, ThrowingBackends   \* of Logger

ASSUME ServiceAssumption ==
    /\ TitleOf \in [Caller -> Title]
    /\ Retries \in Nat
    /\ ThrowingCallers \subseteq Caller
    /\ Accepts \subseteq Seq(Nat \X Nat)
    /\ Versions \subseteq Nat \X Nat
    /\ Fatal \subseteq Message
    /\ Nested \in [Message -> Seq(Message)]
    /\ ThrowingBackends \subseteq Message \X Backend

VARIABLES
    part,
    useWorker, reqs, ended,                              \* of HttpService
    answer, pageCache, requestQueue, requests, fatal,    \* of ApiRequest
    status, result, queue, open, timers, exited          \* of Logger

httpVars == <<useWorker, reqs, ended>>
apiVars == <<answer, pageCache, requestQueue, requests, fatal>>
logVars == <<status, result, queue, open, timers, exited>>
vars == <<part, httpVars, apiVars, logVars>>

Http == INSTANCE HttpService
Api == INSTANCE ApiRequest WITH Throws <- ThrowingCallers
Log == INSTANCE Logger WITH Throws <- ThrowingBackends

-----------------------------------------------------------------------------
NoHttp == useWorker = FALSE /\ reqs = <<>> /\ ended = FALSE
NoApi == answer = <<>> /\ pageCache = {} /\ requestQueue = <<>> /\ requests = <<>> /\ fatal = FALSE
NoLog == status = <<>> /\ result = <<>> /\ queue = <<>> /\ open = <<>> /\ timers = {} /\ exited = FALSE

Init ==
    \/ part = "http" /\ Http!Init /\ NoApi /\ NoLog
    \/ part = "api" /\ Api!Init /\ NoHttp /\ NoLog
    \/ part = "log" /\ Log!Init /\ NoHttp /\ NoApi

HttpStep == part = "http" /\ Http!Next /\ UNCHANGED <<part, apiVars, logVars>>
ApiStep == part = "api" /\ Api!Next /\ UNCHANGED <<part, httpVars, logVars>>
LogStep == part = "log" /\ Log!Next /\ UNCHANGED <<part, httpVars, apiVars>>

Next == HttpStep \/ ApiStep \/ LogStep

\* The thread takes up what has come: an answer, a turn of a listener, a backend that
\* settles, a timer, also that which ends the process.  The API answers, or its timeout
\* does; a worker ends, or is ended.
\* Nobody has to call log, and clients need not ask; they do not have to stay either.
Fairness ==
    /\ WF_vars(part = "http" /\ Http!WorkStep /\ UNCHANGED <<part, apiVars, logVars>>)
    /\ WF_vars(part = "api" /\ Api!RequestStep /\ UNCHANGED <<part, httpVars, logVars>>)
    /\ WF_vars(part = "log" /\ ~exited /\ Log!Settle /\ UNCHANGED <<part, httpVars, apiVars>>)

Spec == Init /\ [][Next]_vars /\ Fairness

-----------------------------------------------------------------------------
(* Properties *)

\* A page is sent in a version the client accepts; selective
\* serialization compares documents of one version; and the process is not ended by
\* a timeout that fires when the answer of its request is out.
RightAnswer ==
    part = "http" =>
        Http!ServedAsAsked /\ Http!LikeWithLike /\ Http!EndedForCause

\* "If logType is fatal, exits process after logging to all backends": the process is
\* not ended by a message that a backend still has to deliver.
ExitsAfterLogging == part = "log" => Log!ExitsAfterLogging

\* A caller that waits is the listener of one request, which will call it; and a
\* template is fetched again only when the earlier request for it has failed.
NobodyForgotten == part = "api" => Api!NobodyForgotten /\ Api!RefetchOnlyAfterError

\* Every request is answered, every transclusion goes on, and a fatal message that
\* reaches the backends ends the process.
Settled ==
    CASE part = "http" -> Http!Settled
      [] part = "api" -> Api!Settled
      [] part = "log" -> Log!Settled
EverythingSettles == <>[]Settled

-----------------------------------------------------------------------------
(* For TLC: two HTTP requests; four transclusions of two templates; and two   *)
(* log backends for the messages of LoggerNested.cfg, which may throw.        *)

MCVersions == {<<1, 8>>, <<2, 0>>, <<999, 0>>}
MCAny == <<0, 1>>  \* AnyVersion of HttpService
MCAccepts == {<<>>, <<<<1, 5>>>>, <<<<2, 1>>, <<1, 7>>>>, <<<<1, 5>>, <<999, 0>>>>,
              <<<<2, 1>>, MCAny>>}
MCTitleOf == [c \in Caller |-> IF c = "d" THEN "u" ELSE "t"]
MCMessage == {"e", "f", "g", "w", "ef", "ew", "gf1", "gf2"}
MCFatal == {"f", "g", "ef", "gf1", "gf2"}
MCNested == [m \in MCMessage |->
    CASE m = "e" -> <<"ew", "ef">>
      [] m = "g" -> <<"gf1", "gf2">>
      [] OTHER -> <<>>]
MCThrows == {<<"w", "b1">>, <<"ew", "b2">>}
=============================================================================
