------------------------------- MODULE Expansion -------------------------------
(***************************************************************************)
(* The expansion of one page: the pipelines its pieces of content go       *)
(* through (Pipelines), what becomes of one transclusion on the way        *)
(* (Transclusion), and of the attributes of one tag (Attributes).  Each is *)
(* what another one relies on: a transclusion and an attribute are jobs    *)
(* with a pipeline, and a pipeline ends when what they are asked for has   *)
(* come.  A behaviour is one of one part, `part`.                          *)
(***************************************************************************)
EXTENDS Naturals, Sequences

CONSTANTS
    MaxJobs, MaxChunks, CacheLimit,           \* of Pipelines
    Titles, ParamNames, maxDepth, MaxText, MaxParams, MaxTarget, \* of Transclusion
    Expansions, MaxAttributes, MaxExpanded    \* of Attributes

VARIABLES
    part,                                          \* the part of this behaviour
    jobs, pipes, cache, stack, timers, settled,    \* of Pipelines
    conf, h,                                       \* of Transclusion
    token, pending, expandedKVs, given  \* of Attributes

pipelineVars == <<jobs, pipes, cache, stack, timers, settled>>
transclusionVars == <<conf, h>>
attributeVars == <<token, pending, expandedKVs, given>>
vars == <<part, pipelineVars, transclusionVars, attributeVars>>

P == INSTANCE Pipelines
T == INSTANCE Transclusion
A == INSTANCE Attributes

ASSUME ExpansionAssumption ==
    /\ {MaxJobs, MaxChunks, CacheLimit, maxDepth, MaxText, MaxParams, MaxTarget,
        MaxAttributes, MaxExpanded} \subseteq Nat
    /\ "" \notin Titles \cup ParamNames
    /\ \A tokens \in Expansions : A!IsExpansion(tokens)

-----------------------------------------------------------------------------
None == <<>>
NoPipelines ==
    /\ jobs = None /\ pipes = None /\ cache = None
    /\ stack = None /\ timers = None /\ settled = None
NoTransclusion == conf = None /\ h = None
NoAttributes ==
    token = None /\ pending = None /\ expandedKVs = None /\ given = None

Init ==
    \/ part = "pipelines" /\ P!Init /\ NoTransclusion /\ NoAttributes
    \/ part = "transclusion" /\ T!Init /\ NoPipelines /\ NoAttributes
    \/ part = "attributes" /\ A!Init /\ NoPipelines /\ NoTransclusion

PipelinesStep ==
    part = "pipelines" /\ P!Next /\ UNCHANGED <<part, transclusionVars, attributeVars>>
TransclusionStep ==
    part = "transclusion" /\ T!Next /\ UNCHANGED <<part, pipelineVars, attributeVars>>
AttributesStep ==
    part = "attributes" /\ A!Next /\ UNCHANGED <<part, pipelineVars, transclusionVars>>

Next == PipelinesStep \/ TransclusionStep \/ AttributesStep

\* One thread runs each turn to its end, and the event loop takes up what is due:
\* a callback, a timer or an answer that has come.
Spec == Init /\ [][Next]_vars /\ WF_vars(PipelinesStep) /\ WF_vars(TransclusionStep)

-----------------------------------------------------------------------------
(* Properties *)

\* What the user of a pipeline is given is what came of its own content, in order:
\* never a chunk of the next content the pipeline was given from the cache, nor one
\* less, though the pipeline is in the cache before its user hears of the end.  A
\* pipeline in use is nobody else's, and its stages find the frame it was given.
OwnContent == part = "pipelines" => P!OwnContent /\ P!PipelineIsItsOwn

\* What a template made stands between one start and one end marker: the text of a
\* transclusion, and the attributes of a table whose template brings content with
\* it.  The handler of a template or an argument says once that its answer is
\* complete, and nothing of it is on its way after that.
WholeInWrapper ==
    CASE part = "transclusion" -> T!WholeInWrapper /\ T!AnsweredOnce
      [] part = "attributes" -> A!MarkersArePaired
      [] OTHER -> TRUE

\* A template is not expanded within itself, nor deeper than the limit.
NoEndlessInclusion == part = "transclusion" => T!NoEndlessInclusion

\* What is said of the source is what is written there: the parameters by name and
\* number, the target, and every key and value of a tag that was expanded.
AsWritten ==
    CASE part = "transclusion" -> T!ArgumentsAsWritten /\ T!TargetsOnOneLine
      [] part = "attributes" -> A!NothingLost
      [] OTHER -> TRUE

\* Whatever is started ends: the user of every pipeline is called, every token is
\* answered, in the order of events the one thread allows.
Ended ==
    /\ part = "pipelines" => \A j \in DOMAIN jobs : jobs[j].state = "done"
    /\ part = "transclusion" => h.final = 1 \/ h.fatal
EverythingEnds == <>[]Ended

-----------------------------------------------------------------------------
(* For TLC: a page with two more jobs, the transclusions of a wiki with two   *)
(* templates, and tags whose attributes hold one or two transclusions.        *)

Transcluded(n, body) == <<<<"start", n>>>> \o body \o <<<<"end", n>>>>
Plain == {<<<<"s", 1>>>>, <<<<"fragment", 0>>>>, <<<<"eq", 1>>>>,
          <<<<"nl", 0>>, <<"s", 2>>>>, <<<<"eq", 1>>, <<"nl", 0>>, <<"s", 2>>>>}
String == <<<<"s", 1>>>>
MCExpansions ==
    Plain \cup {Transcluded(1, b) : b \in Plain}
          \cup {Transcluded(1, String) \o Transcluded(2, b) : b \in Plain}
          \cup {Transcluded(1, b) \o Transcluded(2, String) : b \in Plain}
=============================================================================
