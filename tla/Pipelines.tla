------------------------------- MODULE Pipelines -------------------------------
(***************************************************************************)
(* The pipelines of one page: lib/wt2html/parser.js, which makes them,     *)
(* keeps them in a cache and takes them back at their 'end' event; the     *)
(* stages as far as they hold state between chunks; and the pieces of      *)
(* content (jobs) that are processed: the page, and from within it         *)
(* templates, exploded transclusions, attributes, DOM fragments and the    *)
(* contents of extension tags.                                             *)
(*                                                                         *)
(* One thread: `stack` is what is left of the current turn.  A handler     *)
(* that starts a job runs the first turn of the job's pipeline inside its  *)
(* own, and the listeners of an event run inside emit(): the pipeline is   *)
(* in the cache before its user hears of the end, and its stages are       *)
(* reset after.  What a job's chunks hold is abstracted to a number, or to *)
(* the job that expands it; the accumulators, which keep the order of      *)
(* the expansions that are pending, to a queue (see OrderedOutput).        *)
(***************************************************************************)
EXTENDS Naturals, Sequences, FiniteSets, SequencesExt

CONSTANTS
    MaxJobs,    \* jobs of a page
    MaxChunks,  \* chunks of a job
    CacheLimit  \* pipelines kept per key (100)

VARIABLES
    jobs,   \* what is processed, in the order it was started
    pipes,  \* the pipelines, in the order they were made
    cache,  \* key -> the pipelines that may be reused
    stack,  \* the calls the current turn has yet to make
    timers, \* jobs whose tokenizer goes on in a turn of its own (setImmediate)
    settled \* jobs whose promise is fulfilled and not yet looked at

vars == <<jobs, pipes, cache, stack, timers, settled>>

Kinds == {"page", "template", "explode", "attribute", "fragment", "extension"}

\* The recipe each kind of job asks for, and the end of it that sends events.
Recipe(kind) ==
    CASE kind \in {"page", "extension"} -> "text/x-mediawiki/full"
      [] kind = "template" -> "text/x-mediawiki"
      [] kind \in {"explode", "attribute"} -> "tokens/x-mediawiki"
      [] kind = "fragment" -> "tokens/x-mediawiki/expanded"
Tokenizes(recipe) == recipe \in {"text/x-mediawiki/full", "text/x-mediawiki"}
MakesDocument(recipe) ==
    recipe \in {"text/x-mediawiki/full", "tokens/x-mediawiki/expanded"}
HasAsyncStage(recipe) == recipe # "tokens/x-mediawiki/expanded"
\* Kinds whose user waits for a promise, and hears of the end in a later turn.
Promised == {"page", "attribute", "extension"}

\* The options of a job, by its kind and whether it is in a template.
Options(kind, inTemplate) ==
    CASE kind = "template" -> {"isInclude", "inTemplate", "noExpand"}
      [] kind = "explode" -> IF inTemplate THEN {"noExpand"} ELSE {}
      [] kind = "attribute" ->
            IF inTemplate THEN {"isInclude", "inTemplate", "noExpand"} ELSE {}
      [] OTHER -> IF inTemplate THEN {"inTemplate"} ELSE {}
getCacheKey(kind, inTemplate) == <<Recipe(kind), Options(kind, inTemplate)>>
Keys == {getCacheKey(k[1], k[2]) : k \in Kinds \X BOOLEAN}

Pipe(j) == jobs[j].pipe
RecipeOf(p) == pipes[p].key[1]
Call(op, of) == [op |-> op, of |-> of, arg |-> <<>>]
CallWith(op, of, arg) == [op |-> op, of |-> of, arg |-> arg]
Then(calls) == stack' = calls \o Tail(stack)

-----------------------------------------------------------------------------
\* getPipeline: one from the cache, its stages reset and its listeners gone, or
\* a new one; then setFrame and the listeners of the user.
NewPipe(key, frame, user) ==
    [key |-> key, frame |-> frame, tail |-> FALSE, tree |-> <<>>, user |-> user]
Frame(kind, parent) ==
    IF parent = 0 THEN 0
    ELSE pipes[Pipe(parent)].frame + (IF kind = "template" THEN 1 ELSE 0)
NewJob(kind, parent, pipe, chunks, expanded) ==
    [kind |-> kind, parent |-> parent, pipe |-> pipe, left |-> chunks, expanded |-> expanded,
     inTemplate |-> kind = "template" \/ (parent # 0 /\ jobs[parent].inTemplate),
     depth |-> (IF parent = 0 THEN 0 ELSE jobs[parent].depth)
               + (IF kind = "template" THEN 1 ELSE 0),
     items |-> <<>>, waiting |-> <<>>, closed |-> FALSE, got |-> <<>>, state |-> "running"]
\* Mistake: a pipeline stays in the cache while it is in use.
processContentInPipelineShares(kind, parent, chunks, expanded) ==
    LET key == getCacheKey(kind, parent # 0 /\ jobs[parent].inTemplate)
        pipe == IF cache[key] = <<>> THEN Len(pipes) + 1 ELSE Last(cache[key])
        fresh == NewPipe(key, Frame(kind, parent), Len(jobs) + 1)
    IN  /\ jobs' = Append(jobs, NewJob(kind, parent, pipe, chunks, expanded))
        /\ pipes' = IF cache[key] = <<>> THEN Append(pipes, fresh)
                                         ELSE [pipes EXCEPT ![pipe] = fresh]
        /\ UNCHANGED cache

processContentInPipeline(kind, parent, chunks, expanded) ==
    LET inTemplate == parent # 0 /\ jobs[parent].inTemplate
        key == getCacheKey(kind, inTemplate)
        pipe == IF cache[key] = <<>> THEN Len(pipes) + 1 ELSE Last(cache[key])
        user == Len(jobs) + 1
        fresh == NewPipe(key, Frame(kind, parent), user)
    IN  /\ jobs' = Append(jobs, NewJob(kind, parent, pipe, chunks, expanded))
        /\ pipes' = IF cache[key] = <<>> THEN Append(pipes, fresh)
                                         ELSE [pipes EXCEPT ![pipe] = fresh]
        /\ cache' = IF cache[key] = <<>> THEN cache ELSE [cache EXCEPT ![key] = Front(@)]

\* A handler of job `parent` starts a job and gets on with its own chunk after.
StartJob(kind, parent, expanded, rest) ==
    /\ Len(jobs) < MaxJobs
    /\ \E chunks \in 1..MaxChunks : processContentInPipeline(kind, parent, chunks, expanded)
    /\ stack' = <<Call("chunk", Len(jobs) + 1)>> \o rest \o Tail(stack)

-----------------------------------------------------------------------------
\* Tokens go out of the last token stage of job j's pipeline: to the tail of the
\* accumulators if there is one, else to the next stage or the listeners.
Emitted(js, ps, p, out) ==
    IF MakesDocument(ps[p].key[1])
    THEN [js |-> js, ps |-> [ps EXCEPT ![p].tree = @ \o out]]
    ELSE [js |-> [js EXCEPT ![ps[p].user].got = @ \o out], ps |-> ps]
Ready(js, item) == item[1] = "child" => js[item[2]].state = "done"
ReadyPrefix(js, waiting) ==
    CHOOSE n \in 0..Len(waiting) :
        /\ \A i \in 1..n : Ready(js, waiting[i])
        /\ n < Len(waiting) => ~Ready(js, waiting[n + 1])
Drained(js, ps, j) ==
    LET n == ReadyPrefix(js, js[j].waiting)
        out == SubSeq(js[j].waiting, 1, n)
    IN  Emitted([js EXCEPT ![j].waiting = SubSeq(@, n + 1, Len(@))], ps, js[j].pipe, out)
AppendTail(js, ps, j, item) ==
    IF ps[js[j].pipe].tail
    THEN Drained([js EXCEPT ![j].waiting = Append(@, item)], ps, j)
    ELSE Emitted(js, ps, js[j].pipe, <<item>>)
Becomes(r) == jobs' = r.js /\ pipes' = r.ps

\* After a chunk: the end of the input, or the next chunk in a turn of its own.
NextCall(j, left) ==
    <<Call(IF left = 0 THEN "onEndEvent"
           ELSE IF Tokenizes(RecipeOf(Pipe(j))) THEN "setImmediate" ELSE "chunk", j)>>
AddItem(js, j, item) == [js EXCEPT ![j].items = Append(@, item)]

\* One chunk of the content, transformed at once.
Chunk ==
    /\ stack # <<>> /\ Head(stack).op = "chunk"
    /\ \E j \in {Head(stack).of} :
        LET item == <<"chunk", jobs[j].left>>
            js == [AddItem(jobs, j, item) EXCEPT ![j].left = @ - 1]
        IN  /\ Becomes(AppendTail(js, pipes, j, item))
            /\ Then(NextCall(j, js[j].left))
    /\ UNCHANGED <<cache, timers, settled>>

\* One chunk of the content whose transform starts a job.  Tokens that have been
\* through the transforms before (`expanded`) have only attributes left for them:
\* a value that is a list of tokens is one still.
Startable(j) == IF jobs[j].expanded THEN {"attribute"} ELSE Kinds \ {"page"}
ChunkOfJob ==
    /\ stack # <<>> /\ Head(stack).op = "chunk"
    /\ \E j \in {Head(stack).of} : \E kind \in Startable(j) :
        /\ HasAsyncStage(RecipeOf(Pipe(j)))
        /\ StartJob(kind, j, jobs[j].expanded, <<CallWith("transformed", j, <<Len(jobs) + 1>>)>>)
    /\ UNCHANGED <<timers, settled>>

\* The transform returns: what it started is pending, and the accumulator of it
\* becomes the tail, or has called back already.
Transformed ==
    /\ stack # <<>> /\ Head(stack).op = "transformed"
    /\ \E j \in {Head(stack).of}, c \in {Head(stack).arg[1]} :
        LET item == <<"child", c>>
            js == [AddItem(jobs, j, item) EXCEPT ![j].left = @ - 1]
        IN  /\ IF jobs[c].state = "done" THEN Becomes(AppendTail(js, pipes, j, item))
               ELSE /\ jobs' = [js EXCEPT ![j].waiting = Append(@, item)]
                    /\ pipes' = [pipes EXCEPT ![Pipe(j)].tail = TRUE]
            /\ Then(NextCall(j, js[j].left))
    /\ UNCHANGED <<cache, timers, settled>>

\* tokenizeAsync: the tokenizer goes on with the next chunk later.
SetImmediate ==
    /\ stack # <<>> /\ Head(stack).op = "setImmediate"
    /\ timers' = timers \cup {Head(stack).of}
    /\ Then(<<>>)
    /\ UNCHANGED <<jobs, pipes, cache, settled>>

TokenizeChunk ==
    /\ stack = <<>>
    /\ \E j \in timers :
        /\ timers' = timers \ {j}
        /\ stack' = <<Call("chunk", j)>>
    /\ UNCHANGED <<jobs, pipes, cache, settled>>

-----------------------------------------------------------------------------
\* onEndEvent: the tail is told that no sibling follows, or the end goes out.
\* AsyncTokenTransformManager resets itself after the listeners have run.
EndCalls(p) ==
    IF MakesDocument(RecipeOf(p))
    THEN <<Call("treeBuilderOnEnd", p), Call("reset", p)>>
    ELSE <<Call("emitEnd", p), Call("reset", p)>>
\* Mistake: the end does not wait for what is pending.
OnEndEventEarly ==
    /\ stack # <<>> /\ Head(stack).op = "onEndEvent"
    /\ Then(EndCalls(Pipe(Head(stack).of)))
    /\ UNCHANGED <<jobs, pipes, cache, timers, settled>>

OnEndEvent ==
    /\ stack # <<>> /\ Head(stack).op = "onEndEvent"
    /\ \E j \in {Head(stack).of} :
        LET pending == pipes[Pipe(j)].tail /\ jobs[j].waiting # <<>>
        IN  /\ jobs' = [jobs EXCEPT ![j].closed = TRUE]
            /\ Then(IF pending THEN <<>> ELSE EndCalls(Pipe(j)))
    /\ UNCHANGED <<pipes, cache, timers, settled>>

Reset ==
    /\ stack # <<>> /\ Head(stack).op = "reset"
    /\ pipes' = [pipes EXCEPT ![Head(stack).of].tail = FALSE]
    /\ Then(<<>>)
    /\ UNCHANGED <<jobs, cache, timers, settled>>

\* TreeBuilder.onEnd and doPostProcess: the document goes to the listeners, and
\* the tree builder starts a new one.
TreeBuilderOnEnd ==
    /\ stack # <<>> /\ Head(stack).op = "treeBuilderOnEnd"
    /\ \E p \in {Head(stack).of} :
        Then(<<Call("returnPipeline", p),
               CallWith("documentCB", pipes[p].user, pipes[p].tree),
               Call("treeBuilderResetState", p)>>)
    /\ UNCHANGED <<jobs, pipes, cache, timers, settled>>

TreeBuilderResetState ==
    /\ stack # <<>> /\ Head(stack).op = "treeBuilderResetState"
    /\ pipes' = [pipes EXCEPT ![Head(stack).of].tree = <<>>]
    /\ Then(<<>>)
    /\ UNCHANGED <<jobs, cache, timers, settled>>

\* The listeners of 'end', in the order they were added.
EmitEnd ==
    /\ stack # <<>> /\ Head(stack).op = "emitEnd"
    /\ \E p \in {Head(stack).of} :
        Then(<<Call("returnPipeline", p), Call("endCB", pipes[p].user)>>)
    /\ UNCHANGED <<jobs, pipes, cache, timers, settled>>

ReturnPipeline ==
    /\ stack # <<>> /\ Head(stack).op = "returnPipeline"
    /\ \E p \in {Head(stack).of} :
        cache' = IF Len(cache[pipes[p].key]) < CacheLimit
                 THEN [cache EXCEPT ![pipes[p].key] = Append(@, p)] ELSE cache
    /\ Then(<<>>)
    /\ UNCHANGED <<jobs, pipes, timers, settled>>

-----------------------------------------------------------------------------
\* The user's listener: it calls the accumulator of its token back in this turn,
\* or fulfils a promise.
DocumentCB ==
    /\ stack # <<>> /\ Head(stack).op = "documentCB"
    /\ jobs' = [jobs EXCEPT ![Head(stack).of].got = Head(stack).arg]
    /\ Then(<<Call("endCB", Head(stack).of)>>)
    /\ UNCHANGED <<pipes, cache, timers, settled>>

EndCB ==
    /\ stack # <<>> /\ Head(stack).op = "endCB"
    /\ \E j \in {Head(stack).of} :
        /\ settled' = IF jobs[j].kind \in Promised THEN settled \cup {j} ELSE settled
        /\ Then(IF jobs[j].kind \in Promised THEN <<>> ELSE <<Call("result", j)>>)
        /\ jobs' = [jobs EXCEPT ![j].state = "called"]
    /\ UNCHANGED <<pipes, cache, timers>>

Settle ==
    /\ stack = <<>>
    /\ \E j \in settled :
        /\ settled' = settled \ {j}
        /\ stack' = <<Call("result", j)>>
    /\ UNCHANGED <<jobs, pipes, cache, timers>>

\* The result goes to the accumulator it belongs to; what is ready goes out, and
\* the end after the last of it.
\* Mistake: the last result goes out without the end.
ResultWithoutEnd ==
    /\ stack # <<>> /\ Head(stack).op = "result"
    /\ \E j \in {Head(stack).of} :
        LET js == [jobs EXCEPT ![j].state = "done"]
        IN  IF jobs[j].parent = 0 THEN jobs' = js /\ UNCHANGED pipes
            ELSE Becomes(Drained(js, pipes, jobs[j].parent))
    /\ Then(<<>>)
    /\ UNCHANGED <<cache, timers, settled>>

Result ==
    /\ stack # <<>> /\ Head(stack).op = "result"
    /\ \E j \in {Head(stack).of} :
        LET parent == jobs[j].parent
            js == [jobs EXCEPT ![j].state = "done"]
            r == Drained(js, pipes, parent)
            ends == r.js[parent].closed /\ r.js[parent].waiting = <<>>
        IN  IF parent = 0 THEN jobs' = js /\ Then(<<>>) /\ UNCHANGED pipes
            ELSE Becomes(r) /\ Then(IF ends THEN EndCalls(Pipe(parent)) ELSE <<>>)
    /\ UNCHANGED <<cache, timers, settled>>

\* The result is tokens that are transformed in their turn: a transform of a later
\* rank starts a job for one of them, which takes the place of the result.  What
\* an attribute was expanded for goes on to any transform; the tokens of a template
\* have been through all of them, and what else comes is a finished DOM fragment.
Later(j) ==
    IF jobs[j].expanded THEN {}
    ELSE CASE jobs[j].kind \in {"template", "explode"} -> {"attribute"}
           [] jobs[j].kind = "attribute" -> {"template", "explode", "extension", "fragment"}
           [] OTHER -> {}
InsertAfter(items, c, item) ==
    LET i == SelectInSeq(items, LAMBDA x : x = <<"child", c>>)
    IN  IF i = 0 THEN items ELSE InsertAt(items, i + 1, item)
ResultOfJobs ==
    /\ stack # <<>> /\ Head(stack).op = "result"
    /\ \E j \in {Head(stack).of} :
        /\ jobs[j].parent # 0
        /\ <<"child", j>> \in Range(jobs[jobs[j].parent].waiting)
        /\ \E kind \in Later(j) :
            StartJob(kind, jobs[j].parent, kind = "attribute",
                     <<CallWith("transformedAgain", j, <<Len(jobs) + 1>>)>>)
    /\ UNCHANGED <<timers, settled>>

TransformedAgain ==
    /\ stack # <<>> /\ Head(stack).op = "transformedAgain"
    /\ \E j \in {Head(stack).of}, c \in {Head(stack).arg[1]} :
        LET parent == jobs[j].parent
            item == <<"child", c>>
        IN  jobs' = [jobs EXCEPT ![parent].items = InsertAfter(@, j, item),
                                 ![parent].waiting = InsertAfter(@, j, item)]
    /\ Then(<<Call("result", Head(stack).of)>>)
    /\ UNCHANGED <<pipes, cache, timers, settled>>

-----------------------------------------------------------------------------
\* parse: the page is the first job, and its promise the last to be fulfilled.
Init ==
    /\ \E chunks \in 1..MaxChunks :
        jobs = <<[kind |-> "page", parent |-> 0, pipe |-> 1, left |-> chunks, expanded |-> FALSE,
                  inTemplate |-> FALSE, depth |-> 0, items |-> <<>>, waiting |-> <<>>, closed |-> FALSE,
                  got |-> <<>>, state |-> "running"]>>
    /\ pipes = <<NewPipe(getCacheKey("page", FALSE), 0, 1)>>
    /\ cache = [key \in Keys |-> <<>>]
    /\ stack = <<Call("chunk", 1)>>
    /\ timers = {} /\ settled = {}

Next ==
    \/ Chunk \/ ChunkOfJob \/ Transformed \/ SetImmediate \/ TokenizeChunk
    \/ OnEndEvent \/ Reset \/ TreeBuilderOnEnd \/ TreeBuilderResetState \/ EmitEnd
    \/ ReturnPipeline \/ DocumentCB \/ EndCB \/ Settle
    \/ Result \/ ResultOfJobs \/ TransformedAgain

Spec == Init /\ [][Next]_vars /\ WF_vars(Next)

-----------------------------------------------------------------------------
\* What a job's user gets is what came of the job's own chunks, in their order:
\* never a chunk of the next job its pipeline was given, nor one less.
OwnContent ==
    \A j \in DOMAIN jobs :
        IF jobs[j].state = "done" THEN jobs[j].got = jobs[j].items
        ELSE IsPrefix(jobs[j].got, jobs[j].items)

\* A job whose user has not been called has its pipeline to itself, and finds the
\* frame it was given there, however late it looks.
PipelineIsItsOwn ==
    \A j \in DOMAIN jobs : jobs[j].state = "running" =>
        pipes[Pipe(j)].user = j /\ pipes[Pipe(j)].frame = jobs[j].depth

\* Every job that is started ends, and its user is called.
EveryJobEnds ==
    \A j \in 1..MaxJobs :
        j \in DOMAIN jobs ~> (j \in DOMAIN jobs /\ jobs[j].state = "done")
=============================================================================
