------------------------------ MODULE AsyncTTM ------------------------------
(***************************************************************************)
(* AsyncTokenTransformManager of lib/wt2html/TokenTransformManager.js, the *)
(* stage of the pipeline that expands templates, links and images: every   *)
(* token goes through its transform, which returns tokens at once, or      *)
(* signals that it is asynchronous and calls back later, any number of     *)
(* times, with tokens that may need transforms themselves.  Chains of      *)
(* accumulators (AccumChain, TokenAccumulator) put the results in order.   *)
(*                                                                         *)
(* One thread: onChunk, onEndEvent and each call back of a transform run   *)
(* to their end, with all the callbacks they call; `mgr` is the heap these *)
(* calls work on.  A token is its kind and its place in the expansion tree *)
(* (`id`); the tables Transform, SyncResult and Script say what the        *)
(* transform of a kind does.  The transforms, their number and their ranks *)
(* are abstracted to one transform per kind.                               *)
(***************************************************************************)
EXTENDS TokenAccumulator, SequencesExt

CONSTANTS
    Kind,
    EOFKind,     \* the EOFTk that ends the page
    TextKind,    \* kinds whose tokens are plain strings
    Transform,   \* kind -> "none", "sync", "async" or "start" (both)
    SyncResult,  \* kind -> kinds the transform returns at once
    Script,      \* kind -> what it calls back with: [kinds, rank, late]
    Streams      \* the inputs: sequences of chunks, each a sequence of kinds

VARIABLES
    stream,  \* chunks the previous stage has yet to emit
    closed,  \* the previous stage has emitted 'end'
    doc,     \* the full expansion of the input (never changes)
    mgr      \* the manager: see NewManager

vars == <<stream, closed, doc, mgr>>

\* The tokens of the given kinds that `id` produces in its call number i.
Tokens(id, i, kinds) ==
    [j \in 1..Len(kinds) |-> [kind |-> kinds[j], id |-> id \o <<i, j>>]]

-----------------------------------------------------------------------------
(* The full expansion *)

RECURSIVE Expansion(_)
Expansion(token) ==
    LET ExpandAll(toks) == FlattenSeq([i \in 1..Len(toks) |-> Expansion(toks[i])])
        script == Script[token.kind]
        Part(i) == LET toks == Tokens(token.id, i, script[i].kinds)
                   IN  IF script[i].rank = phaseEndRank THEN toks ELSE ExpandAll(toks)
    IN  IF Transform[token.kind] = "none" THEN <<token>>
        ELSE ExpandAll(Tokens(token.id, 0, SyncResult[token.kind]))
               \o FlattenSeq([i \in 1..Len(script) |-> Part(i)])

-----------------------------------------------------------------------------
(* Callbacks and the heap *)

Emit     == [to |-> "emit", n |-> 0]   \* emitChunk
Child(a) == [to |-> "child", n |-> a]  \* receiveToksFromChild of accumulator a
Sib(a)   == [to |-> "sib", n |-> a]    \* receiveToksFromSibling of accumulator a
Msr(c)   == [to |-> "msr", n |-> c]    \* maybeSyncReturn with the cbs object c
NoCB     == [to |-> "none", n |-> 0]

NewManager ==
    [accs    |-> <<>>,  \* accumulators, with their parentCB
     cbs     |-> <<>>,  \* cbs objects: their parentCB
     tail    |-> 0,     \* tailAccumulator (0: null); tokenCB follows it
     pending |-> {},    \* transforms that will call back
     emitted |-> <<>>,  \* tokens emitted in 'chunk' events
     ends    |-> 0]     \* 'end' events

tokenCB(m) == IF m.tail = 0 THEN Emit ELSE Sib(m.tail)

\* emit 'end' and reset: the accumulators are dropped.
EmitEnd(m) == [m EXCEPT !.ends = @ + 1, !.tail = 0]

\* checkForEOFTkErrors, for the top-level frame: an EOFTk missing at the end is
\* put back.
WithEOF(ret) ==
    IF ret.tokens # <<>> /\ ~ret.async /\ Last(ret.tokens).kind # EOFKind
      THEN Append(ret.tokens, [kind |-> EOFKind, id |-> <<>>]) ELSE ret.tokens

emitChunk(m, ret) ==
    LET sent == [m EXCEPT !.emitted = @ \o WithEOF(ret)]
    IN  IF ret.async THEN [m |-> sent, cb |-> Emit]
                     ELSE [m |-> EmitEnd(sent), cb |-> NoCB]

\* Calls of accumulators, of maybeSyncReturn and of transformTokens call each
\* other; each gives the new heap, and the callback it returns.
RECURSIVE CallBack(_, _, _)
RECURSIVE CallParents(_, _, _)
RECURSIVE transformLoop(_)

-----------------------------------------------------------------------------
(* AccumChain: `first` collects the tokens before the first asynchronous   *)
(* token; `accum` is the accumulator that collects now (0: first), `next`  *)
(* the one whose child the next asynchronous token will be, called back    *)
(* through the cbs object `cb`.                                            *)

\* Add an accumulator with the given parent callback, and its cbs object.
WithNode(ch, parentCB) ==
    LET a == Len(ch.m.accs) + 1
        c == Len(ch.m.cbs) + 1
        node == [waitForChild |-> TRUE, waitForSibling |-> TRUE,
                 siblingChunks |-> <<>>, parentCB |-> parentCB]
    IN  [ch EXCEPT !.m.accs = Append(@, node), !.m.cbs = Append(@, Child(a)),
                   !.next = a, !.cb = c]

NewChain(m, parentCB, work) ==
    WithNode([m |-> m, first |-> <<>>, accum |-> 0, next |-> 0, cb |-> 0, work |-> work],
             parentCB)

\* Mistake: the callback is bound after `next` has moved on.
addNodeSelf(ch) == WithNode([ch EXCEPT !.accum = ch.next], Sib(Len(ch.m.accs) + 1))

addNode(ch) == WithNode([ch EXCEPT !.accum = ch.next], Sib(ch.next))

\* append: a chunk handed to accumulator a as sibling tokens.
append(m, a, toks, rank) ==
    CallBack(m, Sib(a), [tokens |-> toks, rank |-> rank, async |-> m.accs[a].waitForSibling]).m

\* push: a fully processed token.
push(ch, token) ==
    IF ch.accum = 0 THEN [ch EXCEPT !.first = Append(@, token)]
    ELSE [ch EXCEPT !.m = append(ch.m, ch.accum, <<token>>, phaseEndRank)]

-----------------------------------------------------------------------------
(* transformTokens *)

\* The transform of `token` signalled that it will call back through ch.cb.
GoAsync(ch, token) ==
    [ch EXCEPT !.m.pending = @ \cup {[token |-> token, cb |-> ch.cb, next |-> 1]}]

\* The transforms of one token; work chunks carry whether the transform that
\* returned them goes on asynchronously.
TransformToken(ch, token) ==
    LET kind == token.kind
        chunk == [toks |-> Tokens(token.id, 0, SyncResult[kind]),
                  inAsyncMode |-> Transform[kind] = "start"]
    IN  CASE Transform[kind] = "none"  -> push(ch, token)
          [] Transform[kind] = "async" -> addNode(GoAsync(ch, token))
          [] Transform[kind] = "sync"  -> [ch EXCEPT !.work = Append(@, chunk)]
          [] Transform[kind] = "start" -> [GoAsync(ch, token) EXCEPT !.work = Append(@, chunk)]

\* The loop over the work stack.
transformLoop(ch) ==
    IF ch.work = <<>> THEN ch
    ELSE LET top == Last(ch.work)
             n == Len(ch.work)
         IN  IF top.toks = <<>>
               THEN LET popped == [ch EXCEPT !.work = Front(@)]
                    IN  transformLoop(IF top.inAsyncMode THEN addNode(popped) ELSE popped)
               ELSE transformLoop(TransformToken([ch EXCEPT !.work[n].toks = Tail(@)],
                                                 Head(top.toks)))

Result(ch) == [m |-> ch.m, tokens |-> ch.first, asyncAccum |-> ch.accum]

\* transformTokens: the tokens finished at once, and the accumulator that the
\* caller must feed or close (0: everything was synchronous).
transformTokens(m, toks, parentCB) ==
    IF toks = <<>> THEN [m |-> m, tokens |-> <<>>, asyncAccum |-> 0]
    ELSE Result(transformLoop(NewChain(m, parentCB, <<[toks |-> toks, inAsyncMode |-> FALSE]>>)))

-----------------------------------------------------------------------------
(* maybeSyncReturn, after its transformTokens has returned *)

\* Tokens below the phase's end rank are processed again, except a lone string.
NeedsTransforms(ret) ==
    /\ ret.tokens # <<>>
    /\ ret.rank = NoRank \/ ret.rank < phaseEndRank
    /\ ~(Len(ret.tokens) = 1 /\ ret.tokens[1].kind \in TextKind)

\* Mistake: the end of a chain is not marked.
siblingDoneNot(m, a) == m

siblingDone(m, a) == CallBack(m, Sib(a), [tokens |-> <<>>, rank |-> NoRank, async |-> FALSE]).m

\* Mistake: further results go to the parent, not to the new chain.
redirectNot(m, c, a) == m

\* Further results of the transform go to the last accumulator of the chain its
\* earlier results started.
redirect(m, c, a) == [m EXCEPT !.cbs[c] = Sib(a)]

\* The results that go to the parent: those of `ret` that are done, and whether
\* more will follow, from the transform or from a chain of its results.
Joined(res, c, ret) ==
    LET ret2 == [ret EXCEPT !.tokens = res.tokens, !.rank = phaseEndRank]
    IN  IF res.asyncAccum = 0 THEN [m |-> res.m, ret |-> ret2]
        ELSE IF ret.async
          THEN [m |-> redirect(res.m, c, res.asyncAccum), ret |-> ret2]
          ELSE [m |-> siblingDone(res.m, res.asyncAccum), ret |-> [ret2 EXCEPT !.async = TRUE]]

Reprocessed(m, c, ret) ==
    Joined(transformTokens([m EXCEPT !.cbs = Append(@, m.cbs[c])], ret.tokens,
                           Msr(Len(m.cbs) + 1)),
           c, ret)

\* Without a rank the result counts as processed.
GiveTo(asyncCB, done, c) ==
    LET final == IF done.ret.rank = NoRank THEN [done.ret EXCEPT !.rank = phaseEndRank]
                                           ELSE done.ret
    IN  [m |-> CallBack(done.m, asyncCB, final).m, cb |-> IF final.async THEN Msr(c) ELSE NoCB]

maybeSyncReturn(m, c, ret) ==
    GiveTo(m.cbs[c],
           IF NeedsTransforms(ret) THEN Reprocessed(m, c, ret) ELSE [m |-> m, ret |-> ret],
           c)

-----------------------------------------------------------------------------
(* Calling a callback *)

\* _callParentCB: the callback the parent returns replaces the parent.
adopted(res, a) == IF res.cb = NoCB THEN res.m ELSE [res.m EXCEPT !.accs[a].parentCB = res.cb]

CallParents(m, a, rets) ==
    IF rets = <<>> THEN m
    ELSE CallParents(adopted(CallBack(m, m.accs[a].parentCB, Head(rets)), a), a, Tail(rets))

\* A method of accumulator a, with its calls of the parent.
Returning(m, a, direct) == [m |-> m, cb |-> IF direct THEN m.accs[a].parentCB ELSE NoCB]

Receive(m, a, result) ==
    Returning(CallParents([m EXCEPT !.accs[a] = result.acc], a, result.calls), a, result.direct)

CallBack(m, cb, ret) ==
    CASE cb.to = "emit"  -> emitChunk(m, ret)
      [] cb.to = "child" -> Receive(m, cb.n, receiveToksFromChild(m.accs[cb.n], ret))
      [] cb.to = "sib"   -> Receive(m, cb.n, receiveToksFromSibling(m.accs[cb.n], ret))
      [] cb.to = "msr"   -> maybeSyncReturn(m, cb.n, ret)

-----------------------------------------------------------------------------
(* The events *)

\* onChunk: the tokens finished at once are emitted, or appended to the tail.
Passed(res) ==
    IF mgr.tail = 0 THEN [res.m EXCEPT !.emitted = @ \o res.tokens]
    ELSE append(res.m, mgr.tail, res.tokens, phaseEndRank)

WithTail(m, a) == IF a = 0 THEN m ELSE [m EXCEPT !.tail = a]

Chunked(res) == WithTail(Passed(res), res.asyncAccum)

onChunk(toks) == mgr' = Chunked(transformTokens(mgr, toks, tokenCB(mgr)))

NextChunk ==
    /\ stream # <<>>
    /\ onChunk(Head(stream))
    /\ stream' = Tail(stream)
    /\ UNCHANGED <<closed, doc>>

onEndEvent ==
    /\ stream = <<>> /\ ~closed
    /\ closed' = TRUE
    /\ mgr' = IF mgr.tail = 0 THEN EmitEnd(mgr) ELSE siblingDone(mgr, mgr.tail)
    /\ UNCHANGED <<stream, doc>>

\* A transform calls back.  A late signal that it is asynchronous is ignored.
Return(p) ==
    LET script == Script[p.token.kind]
        call == script[p.next]
        last == p.next = Len(script)
        ret  == [tokens |-> Tokens(p.token.id, p.next, call.kinds), rank |-> call.rank,
                 async |-> ~last]
        left == (mgr.pending \ {p}) \cup (IF last THEN {} ELSE {[p EXCEPT !.next = @ + 1]})
        m    == [mgr EXCEPT !.pending = left]
    IN  /\ mgr' = IF call.late THEN m ELSE CallBack(m, Msr(p.cb), ret).m
        /\ UNCHANGED <<stream, closed, doc>>

Init ==
    /\ \E s \in Streams :
          stream = [i \in 1..Len(s) |-> [j \in 1..Len(s[i]) |-> [kind |-> s[i][j], id |-> <<i, j>>]]]
    /\ doc = FlattenSeq([i \in 1..Len(stream) |->
                FlattenSeq([j \in 1..Len(stream[i]) |-> Expansion(stream[i][j])])])
    /\ closed = FALSE
    /\ mgr = NewManager

Next ==
    \/ NextChunk
    \/ onEndEvent
    \/ \E p \in mgr.pending : Return(p)

Spec == Init /\ [][Next]_vars

-----------------------------------------------------------------------------
(* Properties *)

\* The heap refers only to what is in it, and the parent of an accumulator is
\* always an earlier one, so calls of parents end.
TypeOK ==
    /\ closed \in BOOLEAN
    /\ mgr.tail \in 0..Len(mgr.accs)
    /\ mgr.ends \in Nat
    /\ \A a \in 1..Len(mgr.accs) :
          /\ \A i \in 1..Len(mgr.accs[a].siblingChunks) :
                mgr.accs[a].siblingChunks[i].rank \in Rank
          /\ mgr.accs[a].parentCB \in {Emit} \cup {Sib(b) : b \in 1..(a - 1)}
                                        \cup {Msr(c) : c \in 1..Len(mgr.cbs)}
    /\ \A p \in mgr.pending : p.cb \in 1..Len(mgr.cbs)

\* The output is the expansion of the input in document order, whatever order
\* the transforms call back in, and complete when the stage ends, which it does
\* once.
Output == INSTANCE OrderedOutput WITH
    promised <- doc, delivered <- mgr.emitted, ended <- mgr.ends > 0

InOrder == Output!Spec

\* The stage ends once.  When the input has ended and no transform is
\* outstanding it has ended: no accumulator still waits for somebody who will
\* not call.
EndsOnce ==
    /\ mgr.ends <= 1
    /\ closed /\ mgr.pending = {} => mgr.ends = 1

\* Document order of two places in the expansion tree.
Before(id1, id2) ==
    \/ \E n \in 1..Len(id1) : /\ n <= Len(id2)
                              /\ id1[n] < id2[n]
                              /\ \A k \in 1..(n - 1) : id1[k] = id2[k]
    \/ Len(id1) < Len(id2) /\ SubSeq(id2, 1, Len(id1)) = id1

\* "As soon as possible" (the comment on TokenAccumulator): a token that has
\* arrived, with no transform outstanding that will return something before
\* it, has been emitted.
AsSoonAsPossible ==
    \A k \in 1..Len(doc) :
        /\ \A i \in 1..Len(stream) : \A j \in 1..Len(stream[i]) : Before(doc[k].id, stream[i][j].id)
        /\ \A p \in mgr.pending : Before(doc[k].id, Append(p.token.id, p.next))
        => k <= Len(mgr.emitted)
=============================================================================
