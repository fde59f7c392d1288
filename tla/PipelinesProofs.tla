---------------------------- MODULE PipelinesProofs ----------------------------
(***************************************************************************)
(* The pipelines of a page (Pipelines, as Expansion composes it), for      *)
(* every number of jobs, chunks and cached pipelines: whoever asks for a   *)
(* pipeline gets what came of his own content, although a pipeline is in   *)
(* the cache before its user has heard of the end and its stages are reset *)
(* after.                                                                  *)
(*                                                                         *)
(* What the proof turns on is the stack.  A call that resets the stages of *)
(* a pipeline may wait under others, and a job started by one of those may *)
(* have taken the pipeline from the cache: `Over` says of two calls what   *)
(* the one above may do as long as the one below waits.                    *)
(***************************************************************************)
EXTENDS Expansion, SequencesExt, FiniteSetsExt, SequenceTheorems, FiniteSetTheorems, TLAPS

\* Of this module only what it says of natural numbers.
Indices == INSTANCE SequenceFolds WITH op <- +

-----------------------------------------------------------------------------
(* The invariant *)

Item == ({"chunk"} \X Int) \cup ({"child"} \X Nat)
Job == [kind : P!Kinds, parent : Nat, pipe : Nat, left : Int, expanded : BOOLEAN,
        inTemplate : BOOLEAN, depth : Nat, items : Seq(Item), waiting : Seq(Item),
        closed : BOOLEAN, got : Seq(Item), state : {"running", "called", "done"}]
PipeRecord == [key : P!Keys, frame : Nat, tail : BOOLEAN, tree : Seq(Item), user : Nat]

FeedOps == {"chunk", "onEndEvent", "setImmediate"}
EndOps == {"treeBuilderOnEnd", "emitEnd", "returnPipeline"}
HeardOps == {"documentCB", "endCB"}
ResetOps == {"reset", "treeBuilderResetState"}
Ops == FeedOps \cup EndOps \cup HeardOps \cup ResetOps
       \cup {"transformed", "result", "transformedAgain"}
CallRecord == [op : Ops, of : Nat, arg : Seq(Item) \cup Seq(Nat)]

TypeOK ==
    /\ jobs \in Seq(Job) /\ pipes \in Seq(PipeRecord)
    /\ cache \in [P!Keys -> Seq(Nat)] /\ stack \in Seq(CallRecord)
    /\ timers \in SUBSET (DOMAIN jobs) /\ settled \in SUBSET (DOMAIN jobs)

On == {stack[k] : k \in DOMAIN stack}
Below == {stack[k] : k \in 2..Len(stack)}

Running(j) == jobs[j].state = "running"
Ends(j) == j \in DOMAIN jobs /\ Running(j) /\ jobs[j].closed /\ jobs[j].waiting = <<>>
User(p) == pipes[p].user
ToDocument(j) == P!MakesDocument(P!Recipe(jobs[j].kind))
\* What has left the accumulators of a running job.
Out(j) == IF ToDocument(j) THEN pipes[jobs[j].pipe].tree ELSE jobs[j].got
Children(items) == {i[2] : i \in {x \in Range(items) : x[1] = "child"}}

\* The current turn is at the end of job j: its user is about to hear of it, or
\* its stages are about to say so.
HeardBy(j) == \E c \in On : c.op \in HeardOps /\ c.of = j
AtEnd(j) == HeardBy(j) \/ \E c \in On : c.op \in EndOps /\ c.of = jobs[j].pipe
\* Somebody will go on with the content of job j.
Fed(j) == j \in timers \/ \E c \in On : c.op \in FeedOps \cup {"transformed"} /\ c.of = j

\* One job: whose it is, what it runs in, and where what came of it is.
JobOK(j) ==
    /\ jobs[j].parent < j
    /\ jobs[j].pipe \in DOMAIN pipes
    /\ pipes[jobs[j].pipe].key[1] = P!Recipe(jobs[j].kind)
    /\ jobs[j].expanded => jobs[j].kind = "attribute"
    /\ Children(jobs[j].items) \subseteq DOMAIN jobs
RunningOK(j) ==
    Running(j) =>
    /\ User(jobs[j].pipe) = j
    /\ pipes[jobs[j].pipe].frame = jobs[j].depth
    /\ jobs[j].items = Out(j) \o jobs[j].waiting
    /\ \A c \in Children(Out(j)) : jobs[c].state = "done"
    /\ ToDocument(j) => jobs[j].got = <<>> \/ (Ends(j) /\ jobs[j].got = jobs[j].items)
EndedOK(j) ==
    ~Running(j) => jobs[j].got = jobs[j].items /\ jobs[j].waiting = <<>>
\* What is pending is known to the stage.
TailOK(j) ==
    Running(j) /\ ~jobs[j].closed /\ jobs[j].waiting # <<>> => pipes[jobs[j].pipe].tail
JobsOK == \A j \in DOMAIN jobs : JobOK(j) /\ RunningOK(j) /\ EndedOK(j) /\ TailOK(j)

\* A running job is fed, has something pending, or is at its end.
ControlOK ==
    \A j \in DOMAIN jobs : Running(j) =>
        IF jobs[j].closed THEN jobs[j].waiting = <<>> => AtEnd(j) ELSE Fed(j)
\* A job that is not done is waited for, or its transform has not returned.
WaitedFor(j) ==
    \/ <<"child", j>> \in Range(jobs[jobs[j].parent].waiting)
    \/ \E c \in On :
        /\ \/ c.op = "transformed" /\ c.of = jobs[j].parent
           \/ c.op = "transformedAgain" /\ jobs[c.of].parent = jobs[j].parent
        /\ c.arg = <<j>>
ParentsWait ==
    \A j \in DOMAIN jobs : jobs[j].parent # 0 /\ jobs[j].state # "done" => WaitedFor(j)

\* The pipelines, and those that may be taken: each once, of its own key, and of a
\* user who has heard of the end or is about to.
PipesOK == \A p \in DOMAIN pipes : User(p) \in DOMAIN jobs /\ jobs[User(p)].pipe = p
CacheOK ==
    \A key \in P!Keys :
    /\ \A i \in DOMAIN cache[key] :
        /\ cache[key][i] \in DOMAIN pipes
        /\ pipes[cache[key][i]].key = key
        /\ Running(User(cache[key][i])) => HeardBy(User(cache[key][i]))
    /\ \A i, k \in DOMAIN cache[key] : cache[key][i] = cache[key][k] => i = k

TimersOK ==
    \A j \in timers : Running(j) /\ ~jobs[j].closed /\ P!Tokenizes(P!Recipe(jobs[j].kind))
SettledOK == \A j \in settled : jobs[j].state = "called"

\* One call of the stack, by what it is about to do.
FeedOK(c) ==
    c.op \in FeedOps \cup {"transformed"} =>
    /\ c.of \in DOMAIN jobs /\ Running(c.of) /\ ~jobs[c.of].closed /\ c.of \notin timers
    /\ c.op = "setImmediate" => P!Tokenizes(P!Recipe(jobs[c.of].kind))
    /\ c.op = "transformed" => \E x \in DOMAIN jobs : x > c.of /\ c.arg = <<x>>
EndOK(c) ==
    c.op \in EndOps =>
    /\ c.of \in DOMAIN pipes /\ Ends(User(c.of))
    /\ \A i \in DOMAIN cache[pipes[c.of].key] : cache[pipes[c.of].key][i] # c.of
    /\ c.op = "treeBuilderOnEnd" => ToDocument(User(c.of))
    /\ c.op = "emitEnd" => ~ToDocument(User(c.of))
    /\ c.op = "returnPipeline" => HeardBy(User(c.of))
HeardOK(c) ==
    c.op \in HeardOps =>
    /\ Ends(c.of)
    /\ c.op = "documentCB" => c.arg = jobs[c.of].items /\ ToDocument(c.of)
    /\ c.op = "endCB" => jobs[c.of].got = jobs[c.of].items
ResultOK(c) ==
    c.op \in {"result", "transformedAgain"} =>
    /\ c.of \in DOMAIN jobs /\ jobs[c.of].state = "called" /\ c.of \notin settled
    /\ c.op = "transformedAgain" =>
        /\ jobs[c.of].parent # 0
        /\ <<"child", c.of>> \in Range(jobs[jobs[c.of].parent].waiting)
        /\ \E x \in DOMAIN jobs : c.arg = <<x>>
ResetOK(c) ==
    /\ c.op = "reset" =>
        /\ c.of \in DOMAIN pipes
        /\ Running(User(c.of)) /\ ~jobs[User(c.of)].closed => jobs[User(c.of)].expanded
    /\ c.op = "treeBuilderResetState" =>
        /\ c.of \in DOMAIN pipes /\ P!MakesDocument(pipes[c.of].key[1])
        /\ Running(User(c.of)) => AtEnd(User(c.of))
CallsOK == \A c \in On : FeedOK(c) /\ EndOK(c) /\ HeardOK(c) /\ ResultOK(c) /\ ResetOK(c)

\* What a call may start while a stage has yet to be reset: attributes of tokens
\* that have been through the transforms before.
Gentle(c) ==
    /\ c.op \in FeedOps \cup {"transformed"} => jobs[c.of].expanded
    /\ c.op \in {"result", "transformedAgain"} =>
        jobs[c.of].kind # "attribute" \/ jobs[c.of].expanded

\* A call and one that waits below it.
Over(a, b) ==
    /\ \/ b.op \in {"transformed", "transformedAgain"} \cup ResetOps
       \/ a.op = "returnPipeline" /\ b.op \in HeardOps
    /\ b.op = "transformed" =>
        /\ a.op \in FeedOps \cup {"transformed"} => a.of # b.of
        /\ a.op \in ResetOps => User(a.of) # b.of
    /\ b.op = "transformedAgain" => (a.op \in {"result", "transformedAgain"} => a.of # b.of)
    /\ b.op \in ResetOps => Gentle(a)
Ordered == \A k \in DOMAIN stack : \A i \in 1..(k - 1) : Over(stack[i], stack[k])

IInv ==
    /\ TypeOK /\ JobsOK /\ ControlOK /\ ParentsWait /\ PipesOK /\ CacheOK
    /\ TimersOK /\ SettledOK /\ CallsOK /\ Ordered

-----------------------------------------------------------------------------
(* The stack *)

\* The head of the stack makes way for other calls.
LEMMA Pushed ==
    ASSUME stack \in Seq(CallRecord), stack # <<>>,
           NEW calls \in Seq(CallRecord), stack' = calls \o Tail(stack)
    PROVE  /\ stack' \in Seq(CallRecord)
           /\ On' = Range(calls) \cup Below
           /\ On = {Head(stack)} \cup Below
           /\ Head(stack) \in CallRecord /\ Below \subseteq CallRecord
<1>1. /\ Len(stack) \in Nat /\ Len(stack) > 0 /\ Head(stack) = stack[1]
      /\ Tail(stack) \in Seq(CallRecord) /\ Len(Tail(stack)) = Len(stack) - 1
      /\ \A k \in 1..Len(Tail(stack)) : Tail(stack)[k] = stack[k + 1]
      /\ \A k \in 1..Len(stack) : stack[k] \in CallRecord
  OBVIOUS
<1>2. /\ stack' \in Seq(CallRecord) /\ Len(stack') = Len(calls) + Len(Tail(stack))
      /\ \A k \in 1..Len(calls) : stack'[k] = calls[k]
      /\ \A k \in (Len(calls) + 1)..Len(stack') : stack'[k] = Tail(stack)[k - Len(calls)]
  BY <1>1
<1>3. DOMAIN calls = 1..Len(calls) /\ DOMAIN stack = 1..Len(stack)
      /\ DOMAIN (stack') = 1..Len(stack')
  BY <1>2
<1>4. \A k \in (Len(calls) + 1)..Len(stack') : stack'[k] = stack[k - Len(calls) + 1]
      /\ k - Len(calls) + 1 \in 2..Len(stack)
  BY <1>1, <1>2
<1>5. \A k \in 2..Len(stack) : k + Len(calls) - 1 \in (Len(calls) + 1)..Len(stack')
      /\ stack'[k + Len(calls) - 1] = stack[k]
  BY <1>1, <1>2
<1>6. On' = Range(calls) \cup Below
  <2>1. ASSUME NEW c \in On' PROVE c \in Range(calls) \cup Below
    <3>1. PICK k \in 1..Len(stack') : c = stack'[k]
      BY <2>1, <1>3 DEF On
    <3>2. CASE k <= Len(calls)
      BY <3>1, <3>2, <1>2, <1>3 DEF Range
    <3>3. CASE k > Len(calls)
      <4>1. k \in (Len(calls) + 1)..Len(stack')
        BY <3>3, <1>2, <1>1
      <4> QED
        BY <4>1, <3>1, <1>4 DEF Below
    <3> QED
      BY <3>2, <3>3, <3>1, <1>1, <1>2
  <2>2. ASSUME NEW c \in Range(calls) PROVE c \in On'
    <3>1. PICK k \in 1..Len(calls) : c = calls[k]
      BY <2>2, <1>3 DEF Range
    <3>2. k \in DOMAIN (stack') /\ stack'[k] = c
      BY <3>1, <1>1, <1>2, <1>3
    <3> QED
      BY <3>2 DEF On
  <2>3. ASSUME NEW c \in Below PROVE c \in On'
    <3>1. PICK k \in 2..Len(stack) : c = stack[k]
      BY <2>3 DEF Below
    <3>2. k + Len(calls) - 1 \in DOMAIN (stack') /\ stack'[k + Len(calls) - 1] = c
      BY <3>1, <1>5, <1>3, <1>1, <1>2
    <3> QED
      BY <3>2 DEF On
  <2> QED
    BY <2>1, <2>2, <2>3
<1>7. On = {Head(stack)} \cup Below
  <2>1. 1..Len(stack) = {1} \cup 2..Len(stack)
    BY <1>1
  <2> QED
    BY <2>1, <1>1, <1>3 DEF On, Below
<1>8. Below \subseteq CallRecord /\ Head(stack) \in CallRecord
  BY <1>1 DEF Below
<1> QED
  BY <1>2, <1>6, <1>7, <1>8

\* What the head may do is what every call below allows it.
LEMMA HeadOver ==
    ASSUME stack \in Seq(CallRecord), stack # <<>>, Ordered
    PROVE  \A b \in Below : Over(Head(stack), b)
<1>1. Len(stack) \in Nat /\ Len(stack) > 0 /\ Head(stack) = stack[1] /\ DOMAIN stack = 1..Len(stack)
  OBVIOUS
<1>2. ASSUME NEW k \in 2..Len(stack) PROVE Over(stack[1], stack[k])
  <2>1. k \in DOMAIN stack /\ 1 \in 1..(k - 1)
    BY <1>1, <1>2
  <2> QED
    BY <2>1 DEF Ordered
<1> QED
  BY <1>1, <1>2 DEF Below

\* The order of the calls is kept when the calls below keep theirs.
LEMMA StaysOrdered ==
    ASSUME stack \in Seq(CallRecord), stack # <<>>, Ordered,
           NEW calls \in Seq(CallRecord), stack' = calls \o Tail(stack),
           \A a, b \in Below : Over(a, b) => Over(a, b)',
           \A i \in DOMAIN calls : \A b \in Below : Over(calls[i], b)',
           \A k \in DOMAIN calls : \A i \in 1..(k - 1) : Over(calls[i], calls[k])'
    PROVE  Ordered'
<1>1. /\ Len(stack) \in Nat /\ Len(stack) > 0 /\ DOMAIN stack = 1..Len(stack)
      /\ Len(stack') = Len(calls) + Len(stack) - 1
      /\ \A k \in 1..Len(calls) : stack'[k] = calls[k]
      /\ \A k \in (Len(calls) + 1)..Len(stack') : stack'[k] = stack[k - Len(calls) + 1]
      /\ DOMAIN calls = 1..Len(calls) /\ DOMAIN (stack') = 1..Len(stack')
      /\ Len(calls) \in Nat /\ Len(stack') \in Nat
  <2>1. /\ Len(stack) \in Nat /\ Len(stack) > 0 /\ DOMAIN stack = 1..Len(stack)
        /\ Tail(stack) \in Seq(CallRecord) /\ Len(Tail(stack)) = Len(stack) - 1
        /\ \A k \in 1..Len(Tail(stack)) : Tail(stack)[k] = stack[k + 1]
    OBVIOUS
  <2> QED
    BY <2>1
<1>2. SUFFICES ASSUME NEW k \in 1..Len(stack'), NEW i \in 1..(k - 1)
               PROVE  \A a, b \in CallRecord : a = stack'[i] /\ b = stack'[k] => Over(a, b)'
  <2>1. \A k \in 1..Len(stack') : stack'[k] \in CallRecord
    <3>1. stack' \in Seq(CallRecord)
      OBVIOUS
    <3> QED
      BY <3>1
  <2>2. ASSUME NEW k \in 1..Len(stack'), NEW i \in 1..(k - 1) PROVE Over(stack[i], stack[k])'
    <3>1. PICK a \in CallRecord, b \in CallRecord : a = stack'[i] /\ b = stack'[k]
      BY <2>1, <1>1
    <3>2. Over(a, b)'
      BY <3>1, <2>2, <1>2
    <3> QED
      BY <3>1, <3>2 DEF Over, User, Gentle
  <2> QED
    BY <2>2, <1>1 DEF Ordered
<1>3. TAKE a, b \in CallRecord
<1>4. HAVE a = stack'[i] /\ b = stack'[k]
<1>5. CASE k <= Len(calls)
  <2>1. k \in DOMAIN calls /\ a = calls[i] /\ b = calls[k]
    BY <1>1, <1>4, <1>5
  <2> QED
    BY <2>1
<1>6. CASE k > Len(calls) /\ i <= Len(calls)
  <2>1. i \in DOMAIN calls /\ a = calls[i] /\ b = stack[k - Len(calls) + 1]
        /\ k - Len(calls) + 1 \in 2..Len(stack)
    BY <1>1, <1>4, <1>6
  <2>2. b \in Below
    BY <2>1 DEF Below
  <2> QED
    BY <2>1, <2>2
<1>7. CASE i > Len(calls)
  <2> DEFINE m == k - Len(calls) + 1
             n == i - Len(calls) + 1
  <2>1. m \in 2..Len(stack) /\ n \in 2..Len(stack) /\ n \in 1..(m - 1)
    BY <1>1, <1>7
  <2>2. a = stack[n] /\ b = stack[m]
    BY <1>1, <1>4, <1>7
  <2>3. a \in Below /\ b \in Below
    BY <2>1, <2>2 DEF Below
  <2>4. m \in DOMAIN stack
    BY <2>1, <1>1
  <2>5. Over(a, b)
    BY <2>1, <2>2, <2>4 DEF Ordered
  <2> QED
    BY <2>3, <2>5
<1> QED
  BY <1>1, <1>5, <1>6, <1>7

-----------------------------------------------------------------------------
(* What goes out of the accumulators *)

LEMMA ReplacedInSeq ==
    ASSUME NEW S, NEW s \in Seq(S), NEW j \in DOMAIN s, NEW v \in S
    PROVE  /\ [s EXCEPT ![j] = v] \in Seq(S)
           /\ DOMAIN [s EXCEPT ![j] = v] = DOMAIN s
           /\ [s EXCEPT ![j] = v][j] = v
           /\ \A i \in DOMAIN s \ {j} : [s EXCEPT ![j] = v][i] = s[i]
  OBVIOUS

LEMMA Appended ==
    ASSUME NEW S, NEW s \in Seq(S), NEW e \in S
    PROVE  /\ Append(s, e) \in Seq(S)
           /\ DOMAIN Append(s, e) = DOMAIN s \cup {Len(s) + 1}
           /\ Len(s) + 1 \notin DOMAIN s /\ Append(s, e)[Len(s) + 1] = e
           /\ \A i \in DOMAIN s : Append(s, e)[i] = s[i]
  OBVIOUS

LEMMA ReadyPrefixIs ==
    ASSUME NEW js, NEW w \in Seq(Item)
    PROVE  /\ P!ReadyPrefix(js, w) \in 0..Len(w)
           /\ \A i \in 1..P!ReadyPrefix(js, w) : P!Ready(js, w[i])
<1> DEFINE S == {k \in 1..Len(w) : ~P!Ready(js, w[k])}
           OK(n) == /\ \A i \in 1..n : P!Ready(js, w[i])
                    /\ n < Len(w) => ~P!Ready(js, w[n + 1])
<1>1. \E n \in 0..Len(w) : OK(n)
  <2>1. CASE S = {}
    <3>1. Len(w) \in 0..Len(w) /\ OK(Len(w))
      BY <2>1
    <3> QED
      BY <3>1
  <2>2. CASE S # {}
    <3>1. S \in SUBSET Nat
      OBVIOUS
    <3>2. PICK m \in S : \A k \in S : m <= k
      <4> HIDE DEF S
      <4> QED
        BY <2>2, <3>1, Indices!LeastNat
    <3>3. m - 1 \in 0..Len(w) /\ m - 1 + 1 = m
      OBVIOUS
    <3>4. ASSUME NEW i \in 1..(m - 1) PROVE P!Ready(js, w[i])
      <4>1. i \in 1..Len(w) /\ ~(m <= i)
        BY <3>2
      <4>2. i \notin S
        BY <3>2, <4>1
      <4> QED
        BY <4>1, <4>2
    <3>5. OK(m - 1)
      BY <3>2, <3>3, <3>4
    <3> QED
      BY <3>3, <3>5
  <2> QED
    BY <2>1, <2>2
<1>2. P!ReadyPrefix(js, w) = CHOOSE n \in 0..Len(w) : OK(n)
  BY DEF P!ReadyPrefix
<1> HIDE DEF OK
<1>3. P!ReadyPrefix(js, w) \in 0..Len(w) /\ OK(P!ReadyPrefix(js, w))
  BY <1>1, <1>2
<1> QED
  BY <1>3 DEF OK

LEMMA ConcatParts ==
    ASSUME NEW S, NEW w \in Seq(S), NEW n \in 0..Len(w)
    PROVE  /\ SubSeq(w, 1, n) \in Seq(S) /\ SubSeq(w, n + 1, Len(w)) \in Seq(S)
           /\ w = SubSeq(w, 1, n) \o SubSeq(w, n + 1, Len(w))
           /\ \A x \in Range(SubSeq(w, 1, n)) : \E i \in 1..n : x = w[i]
<1>1. /\ SubSeq(w, 1, n) \in Seq(S) /\ Len(SubSeq(w, 1, n)) = n
      /\ \A i \in 1..n : SubSeq(w, 1, n)[i] = w[i]
  OBVIOUS
<1>2. /\ SubSeq(w, n + 1, Len(w)) \in Seq(S) /\ Len(SubSeq(w, n + 1, Len(w))) = Len(w) - n
      /\ \A i \in 1..(Len(w) - n) : SubSeq(w, n + 1, Len(w))[i] = w[i + n]
  OBVIOUS
<1>3. w = SubSeq(w, 1, n) \o SubSeq(w, n + 1, Len(w))
  <2>1. SubSeq(w, 1, n) \o SubSeq(w, n + 1, Len(w)) = SubSeq(w, 1, Len(w))
    <3>1. 1 \in 1..(Len(w) + 1) /\ n \in (1 - 1)..Len(w) /\ Len(w) \in n..Len(w)
      OBVIOUS
    <3> QED
      BY <3>1, ConcatAdjacentSubSeq
  <2>2. SubSeq(w, 1, Len(w)) = w
    BY SubSeqFull
  <2> QED
    BY <2>1, <2>2
<1>4. DOMAIN SubSeq(w, 1, n) = 1..n
  BY <1>1
<1>5. \A x \in Range(SubSeq(w, 1, n)) : \E i \in 1..n : x = w[i]
  BY <1>1, <1>4, Zenon DEF Range
<1> QED
  BY <1>1, <1>2, <1>3, <1>5

\* What is pending is a part that goes out and one that stays; all that goes out
\* is ready.
AllReady(js, out) == \A i \in Range(out) : P!Ready(js, i)
Kept(a, b) ==
    /\ a.kind = b.kind /\ a.parent = b.parent /\ a.pipe = b.pipe
    /\ a.expanded = b.expanded /\ a.depth = b.depth /\ a.inTemplate = b.inTemplate
Took(js, ps, j, out, rest, r) ==
    LET p == js[j].pipe
        doc == P!MakesDocument(ps[p].key[1])
    IN  /\ r.js \in Seq(Job) /\ DOMAIN r.js = DOMAIN js
        /\ \A i \in DOMAIN js \ {j} : r.js[i] = js[i]
        /\ Kept(r.js[j], js[j]) /\ r.js[j].items = js[j].items /\ r.js[j].left = js[j].left
        /\ r.js[j].closed = js[j].closed /\ r.js[j].state = js[j].state
        /\ r.js[j].waiting = rest
        /\ r.js[j].got = IF doc THEN js[j].got ELSE js[j].got \o out
        /\ r.ps \in Seq(PipeRecord) /\ DOMAIN r.ps = DOMAIN ps
        /\ \A q \in DOMAIN ps \ {p} : r.ps[q] = ps[q]
        /\ r.ps[p].key = ps[p].key /\ r.ps[p].frame = ps[p].frame
        /\ r.ps[p].tail = ps[p].tail /\ r.ps[p].user = ps[p].user
        /\ r.ps[p].tree = IF doc THEN ps[p].tree \o out ELSE ps[p].tree

LEMMA EmittedIs ==
    ASSUME NEW js \in Seq(Job), NEW ps \in Seq(PipeRecord), NEW j \in DOMAIN js,
           js[j].pipe \in DOMAIN ps, ps[js[j].pipe].user = j, NEW out \in Seq(Item)
    PROVE  Took(js, ps, j, out, js[j].waiting, P!Emitted(js, ps, js[j].pipe, out))
<1> DEFINE p == js[j].pipe
           r == P!Emitted(js, ps, p, out)
<1>0. js[j] \in Job /\ ps[p] \in PipeRecord
  OBVIOUS
<1>1. CASE P!MakesDocument(ps[p].key[1])
  <2> DEFINE v == [ps[p] EXCEPT !.tree = @ \o out]
  <2>0. ps[p].tree \o out \in Seq(Item)
    BY <1>0 DEF PipeRecord
  <2>1. /\ v \in PipeRecord /\ v.key = ps[p].key /\ v.frame = ps[p].frame
        /\ v.tail = ps[p].tail /\ v.user = ps[p].user /\ v.tree = ps[p].tree \o out
    BY <1>0, <2>0 DEF PipeRecord
  <2>2. r.js = js /\ r.ps = [ps EXCEPT ![p] = v]
    BY <1>1 DEF P!Emitted
  <2> HIDE DEF v, r
  <2>3. /\ r.ps \in Seq(PipeRecord) /\ DOMAIN r.ps = DOMAIN ps /\ r.ps[p] = v
        /\ \A q \in DOMAIN ps \ {p} : r.ps[q] = ps[q]
    BY <2>1, <2>2, ReplacedInSeq
  <2> QED
    BY <1>1, <2>1, <2>2, <2>3 DEF Took, Kept, r
<1>2. CASE ~P!MakesDocument(ps[p].key[1])
  <2> DEFINE v == [js[j] EXCEPT !.got = @ \o out]
  <2>0. js[j].got \o out \in Seq(Item)
    BY <1>0 DEF Job
  <2>1. /\ v \in Job /\ Kept(v, js[j]) /\ v.items = js[j].items /\ v.left = js[j].left
        /\ v.closed = js[j].closed /\ v.state = js[j].state /\ v.waiting = js[j].waiting
        /\ v.got = js[j].got \o out
    BY <1>0, <2>0 DEF Job, Kept
  <2>2. r.js = [js EXCEPT ![j] = v] /\ r.ps = ps
    BY <1>2 DEF P!Emitted
  <2> HIDE DEF v, r
  <2>3. /\ r.js \in Seq(Job) /\ DOMAIN r.js = DOMAIN js /\ r.js[j] = v
        /\ \A i \in DOMAIN js \ {j} : r.js[i] = js[i]
    BY <2>1, <2>2, ReplacedInSeq
  <2> QED
    BY <1>2, <2>1, <2>2, <2>3 DEF Took, r
<1> QED
  BY <1>1, <1>2

LEMMA DrainedIs ==
    ASSUME NEW js \in Seq(Job), NEW ps \in Seq(PipeRecord), NEW j \in DOMAIN js,
           js[j].pipe \in DOMAIN ps, ps[js[j].pipe].user = j
    PROVE  \E out, rest \in Seq(Item) :
            /\ js[j].waiting = out \o rest
            /\ AllReady(js, out)
            /\ Took(js, ps, j, out, rest, P!Drained(js, ps, j))
<1> DEFINE w == js[j].waiting
           n == P!ReadyPrefix(js, w)
           out == SubSeq(w, 1, n)
           rest == SubSeq(w, n + 1, Len(w))
           v == [js[j] EXCEPT !.waiting = rest]
           js1 == [js EXCEPT ![j] = v]
<1>0. js[j] \in Job
  OBVIOUS
<1>1. w \in Seq(Item)
  BY <1>0 DEF Job
<1>2. n \in 0..Len(w) /\ \A i \in 1..n : P!Ready(js, w[i])
  BY <1>1, ReadyPrefixIs
<1>3. /\ out \in Seq(Item) /\ rest \in Seq(Item) /\ w = out \o rest
      /\ \A x \in Range(out) : \E i \in 1..n : x = w[i]
  <2> HIDE DEF w, n
  <2> QED
    BY <1>1, <1>2, ConcatParts
<1>4. AllReady(js, out)
  <2> HIDE DEF w, n, out
  <2> QED
    BY <1>2, <1>3 DEF AllReady
<1>5. P!Drained(js, ps, j) = P!Emitted(js1, ps, js[j].pipe, out)
  BY DEF P!Drained
<1> HIDE DEF w, n, out, rest
<1>6. /\ v \in Job /\ Kept(v, js[j]) /\ v.items = js[j].items /\ v.left = js[j].left
      /\ v.closed = js[j].closed /\ v.state = js[j].state /\ v.got = js[j].got
      /\ v.waiting = rest
  BY <1>0, <1>3 DEF Job, Kept
<1> HIDE DEF v
<1>7. /\ js1 \in Seq(Job) /\ DOMAIN js1 = DOMAIN js /\ js1[j] = v
      /\ \A i \in DOMAIN js \ {j} : js1[i] = js[i]
  BY <1>6, ReplacedInSeq
<1> HIDE DEF js1
<1>8. Took(js1, ps, j, out, rest, P!Drained(js, ps, j))
  <2>1. js1[j].pipe = js[j].pipe /\ js1[j].waiting = rest
    BY <1>6, <1>7 DEF Kept
  <2>2. Took(js1, ps, j, out, js1[j].waiting, P!Emitted(js1, ps, js1[j].pipe, out))
    BY <1>3, <1>7, <2>1, EmittedIs
  <2> QED
    BY <2>1, <2>2, <1>5
<1>9. Took(js, ps, j, out, rest, P!Drained(js, ps, j))
  BY <1>6, <1>7, <1>8 DEF Took, Kept
<1> QED
  BY <1>3, <1>4, <1>9 DEF w

\* An item goes to the tail of what is pending, or out if nothing is.
LEMMA AppendTailIs ==
    ASSUME NEW js \in Seq(Job), NEW ps \in Seq(PipeRecord), NEW j \in DOMAIN js,
           js[j].pipe \in DOMAIN ps, ps[js[j].pipe].user = j,
           ps[js[j].pipe].tail \/ js[j].waiting = <<>>,
           Children(js[j].waiting) \subseteq DOMAIN js,
           NEW item \in Item, P!Ready(js, item), item[1] = "child" => item[2] \in DOMAIN js
    PROVE  \E out, rest \in Seq(Item) :
            /\ Append(js[j].waiting, item) = out \o rest
            /\ AllReady(js, out)
            /\ Took(js, ps, j, out, rest, P!AppendTail(js, ps, j, item))
            /\ rest # <<>> => ps[js[j].pipe].tail
<1> DEFINE p == js[j].pipe
           w == Append(js[j].waiting, item)
           v == [js[j] EXCEPT !.waiting = w]
           js1 == [js EXCEPT ![j] = v]
<1>0. js[j] \in Job
  OBVIOUS
<1>1. js[j].waiting \in Seq(Item) /\ w \in Seq(Item)
  BY <1>0 DEF Job
<1>2. CASE ps[p].tail
  <2>0. P!AppendTail(js, ps, j, item) = P!Drained(js1, ps, j)
    BY <1>2 DEF P!AppendTail
  <2>1. \A c \in Range(w) : c[1] = "child" => c[2] \in DOMAIN js
    <3>1. Range(w) = Range(js[j].waiting) \cup {item}
      <4> DEFINE one == <<item>>
      <4>1. w = js[j].waiting \o one /\ one \in Seq(Item)
        BY <1>1, AppendIsConcat
      <4>2. Range(one) = {item}
        BY DEF Range
      <4> HIDE DEF one, w
      <4> QED
        BY <4>1, <4>2, <1>1, RangeConcatenation
    <3> QED
      BY <3>1 DEF Children
  <2>2. /\ v \in Job /\ Kept(v, js[j]) /\ v.items = js[j].items /\ v.left = js[j].left
        /\ v.closed = js[j].closed /\ v.state = js[j].state /\ v.got = js[j].got
        /\ v.waiting = w
    <3> HIDE DEF w
    <3> QED
      BY <1>0, <1>1 DEF Job, Kept
  <2> HIDE DEF v, w
  <2>3. /\ js1 \in Seq(Job) /\ DOMAIN js1 = DOMAIN js /\ js1[j] = v
        /\ \A i \in DOMAIN js \ {j} : js1[i] = js[i]
    BY <2>2, ReplacedInSeq
  <2> HIDE DEF js1
  <2>4. PICK out \in Seq(Item), rest \in Seq(Item) :
            /\ w = out \o rest /\ AllReady(js1, out)
            /\ Took(js1, ps, j, out, rest, P!Drained(js1, ps, j))
    <3>1. js1[j].pipe = js[j].pipe /\ js1[j].waiting = w
      BY <2>2, <2>3 DEF Kept
    <3>2. \E out, rest \in Seq(Item) :
            /\ js1[j].waiting = out \o rest /\ AllReady(js1, out)
            /\ Took(js1, ps, j, out, rest, P!Drained(js1, ps, j))
      BY <2>3, <3>1, DrainedIs
    <3> QED
      BY <3>1, <3>2
  <2>5. Range(out) \subseteq Range(w)
    BY <2>4, RangeConcatenation
  <2>6. AllReady(js, out)
    <3> SUFFICES ASSUME NEW c \in Range(out), c[1] = "child"
                 PROVE  js[c[2]].state = "done"
      BY DEF AllReady, P!Ready
    <3>1. c[2] \in DOMAIN js /\ js1[c[2]].state = "done"
      BY <2>1, <2>4, <2>5 DEF AllReady, P!Ready
    <3> QED
      BY <3>1, <2>2, <2>3
  <2>7. Took(js, ps, j, out, rest, P!Drained(js1, ps, j))
    BY <2>2, <2>3, <2>4 DEF Took, Kept
  <2> QED
    BY <2>0, <2>4, <2>6, <2>7, <1>2 DEF w
<1>3. CASE ~ps[p].tail
  <2>1. js[j].waiting = <<>>
    BY <1>3
  <2>2. w = <<item>> \o <<>> /\ <<item>> \in Seq(Item) /\ <<>> \in Seq(Item)
    BY <2>1
  <2>3. Range(<<item>>) = {item}
    BY DEF Range
  <2>4. AllReady(js, <<item>>)
    BY <2>3 DEF AllReady
  <2>5. P!AppendTail(js, ps, j, item) = P!Emitted(js, ps, p, <<item>>)
    BY <1>3 DEF P!AppendTail
  <2>6. Took(js, ps, j, <<item>>, <<>>, P!AppendTail(js, ps, j, item))
    BY <2>1, <2>2, <2>5, EmittedIs
  <2> QED
    BY <2>2, <2>4, <2>6
<1> QED
  BY <1>2, <1>3

-----------------------------------------------------------------------------
(* What a step leaves of the invariant when it changes one or two jobs *)

LEMMA ChildrenOfBoth ==
    ASSUME NEW s \in Seq(Item), NEW t \in Seq(Item)
    PROVE  Children(s \o t) = Children(s) \cup Children(t)
<1>1. Range(s \o t) = Range(s) \cup Range(t)
  BY RangeConcatenation
<1> QED
  BY <1>1 DEF Children

LEMMA Regrouped ==
    ASSUME NEW a \in Seq(Item), NEW b \in Seq(Item), NEW c \in Seq(Item)
    PROVE  (a \o b) \o c = a \o (b \o c)
<1> HIDE DEF Item
<1> QED
  OBVIOUS

Joined(b, c, d, e) == b \o c = d \o e
LEMMA ConcatThrough ==
    \A a, b, c, d, e \in Seq(Item) : Joined(b, c, d, e) => Joined(a \o b, c, a \o d, e)
<1> SUFFICES ASSUME NEW a \in Seq(Item), NEW b \in Seq(Item), NEW c \in Seq(Item),
                    NEW d \in Seq(Item), NEW e \in Seq(Item), b \o c = d \o e
             PROVE  (a \o b) \o c = (a \o d) \o e
  BY Zenon DEF Joined
<1>1. (a \o b) \o c = a \o (b \o c) /\ (a \o d) \o e = a \o (d \o e)
  BY Regrouped, Zenon
<1> QED
  BY <1>1, Zenon

LEMMA JobsStay ==
    ASSUME jobs \in Seq(Job), pipes \in Seq(PipeRecord), JobsOK, NEW S,
           DOMAIN jobs \subseteq DOMAIN (jobs'), DOMAIN (jobs') \subseteq DOMAIN jobs \cup S,
           DOMAIN pipes \subseteq DOMAIN (pipes'),
           \A q \in DOMAIN pipes : pipes'[q].key = pipes[q].key,
           \A i \in DOMAIN jobs \ S :
                /\ jobs'[i] = jobs[i]
                /\ Running(i) => pipes'[jobs[i].pipe] = pipes[jobs[i].pipe],
           \A i \in DOMAIN jobs : jobs[i].state = "done" => jobs'[i].state = "done",
           \A i \in S \cap DOMAIN (jobs') : (JobOK(i) /\ RunningOK(i) /\ EndedOK(i) /\ TailOK(i))'
    PROVE  JobsOK'
<1> SUFFICES ASSUME NEW i \in DOMAIN jobs \ S
             PROVE  (JobOK(i) /\ RunningOK(i) /\ EndedOK(i) /\ TailOK(i))'
  BY DEF JobsOK
<1>0. JobOK(i) /\ RunningOK(i) /\ EndedOK(i) /\ TailOK(i)
  BY DEF JobsOK
<1>1. jobs[i] \in Job /\ jobs'[i] = jobs[i] /\ i \in DOMAIN (jobs')
  OBVIOUS
<1>2. JobOK(i)'
  BY <1>0, <1>1 DEF JobOK
<1>3. EndedOK(i)'
  BY <1>0, <1>1 DEF EndedOK, Running
<1>4. TailOK(i)'
  BY <1>0, <1>1 DEF TailOK, Running
<1>5. RunningOK(i)'
  <2> SUFFICES ASSUME Running(i) PROVE RunningOK(i)'
    BY <1>1 DEF RunningOK, Running
  <2>1. Out(i)' = Out(i) /\ ToDocument(i)' = ToDocument(i) /\ Ends(i)' = Ends(i)
    BY <1>1 DEF Out, ToDocument, Ends, Running
  <2>2. jobs[i].pipe \in DOMAIN pipes /\ Out(i) \in Seq(Item) /\ jobs[i].waiting \in Seq(Item)
    <3>1. jobs[i].pipe \in DOMAIN pipes
      BY <1>0 DEF JobOK
    <3>2. pipes[jobs[i].pipe] \in PipeRecord
      BY <3>1
    <3>3. pipes[jobs[i].pipe].tree \in Seq(Item)
      BY <3>2 DEF PipeRecord
    <3>4. jobs[i].got \in Seq(Item) /\ jobs[i].waiting \in Seq(Item)
      BY <1>1 DEF Job
    <3> QED
      BY <3>1, <3>3, <3>4 DEF Out
  <2>3. Children(Out(i)) \subseteq DOMAIN jobs
    BY <2>2, <1>0, ChildrenOfBoth DEF RunningOK, JobOK
  <2>4. \A c \in Children(Out(i)) : jobs'[c].state = "done"
    BY <2>3, <1>0 DEF RunningOK
  <2> QED
    BY <2>1, <2>4, <1>0, <1>1 DEF RunningOK, User, Running
<1> QED
  BY <1>2, <1>3, <1>4, <1>5

\* What is added to a job goes out after what it had pending.
GetsOn(j, added, out, rest) ==
    LET p == jobs[j].pipe
    IN  /\ jobs[j].waiting \o added = out \o rest
        /\ Children(added) \subseteq DOMAIN jobs
        /\ \A c \in Children(out) : jobs'[c].state = "done"
        /\ Kept(jobs'[j], jobs[j]) /\ jobs'[j].state = "running"
        /\ jobs'[j].items = jobs[j].items \o added
        /\ jobs'[j].waiting = rest
        /\ jobs'[j].got = IF ToDocument(j) THEN jobs[j].got ELSE jobs[j].got \o out
        /\ pipes'[p].key = pipes[p].key /\ pipes'[p].frame = pipes[p].frame
        /\ pipes'[p].user = pipes[p].user
        /\ pipes'[p].tree = IF ToDocument(j) THEN pipes[p].tree \o out ELSE pipes[p].tree
        /\ ~jobs'[j].closed /\ rest # <<>> => pipes'[p].tail

LEMMA JobGetsOn ==
    ASSUME jobs \in Seq(Job), pipes \in Seq(PipeRecord), JobsOK,
           jobs' \in Seq(Job), pipes' \in Seq(PipeRecord),
           DOMAIN jobs \subseteq DOMAIN (jobs'), DOMAIN pipes \subseteq DOMAIN (pipes'),
           \A i \in DOMAIN jobs : jobs[i].state = "done" => jobs'[i].state = "done",
           NEW j \in DOMAIN jobs, Running(j), ~Ends(j),
           NEW added \in Seq(Item), NEW out \in Seq(Item), NEW rest \in Seq(Item),
           GetsOn(j, added, out, rest)
    PROVE  (JobOK(j) /\ RunningOK(j) /\ EndedOK(j) /\ TailOK(j))'
<1> PICK p : p = jobs[j].pipe
  OBVIOUS
<1> USE DEF GetsOn
<1>0. JobOK(j) /\ RunningOK(j)
  BY DEF JobsOK
<1>1. /\ jobs[j] \in Job /\ jobs'[j] \in Job /\ jobs'[j].pipe = p /\ jobs'[j].kind = jobs[j].kind
      /\ p \in DOMAIN pipes /\ pipes[p] \in PipeRecord /\ p \in DOMAIN (pipes') /\ j \in DOMAIN (jobs')
  BY <1>0 DEF JobOK, Kept
<1>2. /\ jobs[j].items \in Seq(Item) /\ jobs[j].waiting \in Seq(Item)
      /\ jobs[j].got \in Seq(Item) /\ pipes[p].tree \in Seq(Item) /\ Out(j) \in Seq(Item)
  BY <1>1 DEF Job, PipeRecord, Out
<1>3. JobOK(j)'
  <2>1. Children(jobs[j].items \o added) \subseteq DOMAIN jobs
    BY <1>0, <1>2, ChildrenOfBoth DEF JobOK
  <2> QED
    BY <1>0, <1>1, <2>1 DEF JobOK, Kept
<1>4. ToDocument(j)' = ToDocument(j)
  BY <1>1 DEF ToDocument
<1>5. Out(j)' = Out(j) \o out
  BY <1>1, <1>4 DEF Out
<1>6. jobs'[j].items = Out(j)' \o rest
  <2>1. (Out(j) \o jobs[j].waiting) \o added = (Out(j) \o out) \o rest
    <3>1. Joined(jobs[j].waiting, added, out, rest)
      BY DEF Joined
    <3>2. Joined(Out(j) \o jobs[j].waiting, added, Out(j) \o out, rest)
      BY <1>2, <3>1, ConcatThrough, Zenon
    <3> QED
      BY <3>2 DEF Joined
  <2> QED
    BY <2>1, <1>0, <1>5 DEF RunningOK
<1>7. \A c \in Children(Out(j)') : jobs'[c].state = "done"
  <2>1. Children(Out(j)') = Children(Out(j)) \cup Children(out)
    BY <1>2, <1>5, ChildrenOfBoth
  <2>2. Children(Out(j)) \subseteq DOMAIN jobs
    <3>1. jobs[j].items = Out(j) \o jobs[j].waiting
      BY <1>0 DEF RunningOK
    <3>2. Children(jobs[j].items) = Children(Out(j)) \cup Children(jobs[j].waiting)
      BY <3>1, <1>2, ChildrenOfBoth
    <3> QED
      BY <1>0, <3>2 DEF JobOK
  <2> QED
    BY <1>0, <2>1, <2>2 DEF RunningOK
<1>8. ToDocument(j) => jobs'[j].got = <<>>
  BY <1>0 DEF RunningOK
<1>9. RunningOK(j)'
  <2>1. (User(jobs[j].pipe) = j)'
    BY <1>0, <1>1 DEF RunningOK, User
  <2>2. pipes'[jobs'[j].pipe].frame = jobs'[j].depth
    BY <1>0, <1>1 DEF RunningOK, Kept
  <2> QED
    BY <2>1, <2>2, <1>4, <1>6, <1>7, <1>8 DEF RunningOK
<1>10. EndedOK(j)' /\ TailOK(j)'
  BY <1>1 DEF EndedOK, TailOK, Running
<1> QED
  BY <1>3, <1>9, <1>10

-----------------------------------------------------------------------------
(* What a step leaves of the invariant whatever it pushes *)

JobsKept ==
    /\ DOMAIN jobs \subseteq DOMAIN (jobs')
    /\ \A i \in DOMAIN jobs : Kept(jobs'[i], jobs[i])
PipesKept ==
    /\ DOMAIN (pipes') = DOMAIN pipes
    /\ \A p \in DOMAIN pipes : pipes'[p].key = pipes[p].key /\ pipes'[p].user = pipes[p].user
\* No job that has ended runs again, and none that is closed opens.
StatesGoOn ==
    \A i \in DOMAIN jobs :
        /\ Running(i)' => Running(i)
        /\ jobs[i].closed => jobs'[i].closed

\* What waits below the head: only the rest of a handler or of an emit().
MayWait(b) ==
    \/ b.op \in {"transformed", "transformedAgain"} \cup ResetOps
    \/ Head(stack).op = "returnPipeline" /\ b.op \in HeardOps

\* The types of what the invariant speaks of.
LEMMA Typed ==
    ASSUME IInv
    PROVE  /\ jobs \in Seq(Job) /\ pipes \in Seq(PipeRecord) /\ stack \in Seq(CallRecord)
           /\ DOMAIN jobs \subseteq Nat /\ DOMAIN pipes \subseteq Nat
           /\ \A i \in DOMAIN jobs :
                /\ jobs[i] \in Job /\ jobs[i].pipe \in DOMAIN pipes
                /\ JobOK(i) /\ RunningOK(i) /\ EndedOK(i) /\ TailOK(i)
                /\ jobs[i].items \in Seq(Item) /\ jobs[i].waiting \in Seq(Item)
                /\ jobs[i].got \in Seq(Item) /\ Out(i) \in Seq(Item)
                /\ jobs[i].kind \in P!Kinds /\ jobs[i].parent \in Nat
           /\ \A p \in DOMAIN pipes :
                /\ pipes[p] \in PipeRecord /\ pipes[p].key \in P!Keys /\ pipes[p].tree \in Seq(Item)
                /\ User(p) \in DOMAIN jobs /\ jobs[User(p)].pipe = p
<1>1. /\ jobs \in Seq(Job) /\ pipes \in Seq(PipeRecord) /\ stack \in Seq(CallRecord)
      /\ DOMAIN jobs \subseteq Nat /\ DOMAIN pipes \subseteq Nat
  BY DEF IInv, TypeOK
<1>2. \A p \in DOMAIN pipes :
        /\ pipes[p] \in PipeRecord /\ pipes[p].key \in P!Keys /\ pipes[p].tree \in Seq(Item)
        /\ User(p) \in DOMAIN jobs /\ jobs[User(p)].pipe = p
  <2> SUFFICES ASSUME NEW p \in DOMAIN pipes
               PROVE  pipes[p] \in PipeRecord /\ pipes[p].key \in P!Keys /\ pipes[p].tree \in Seq(Item)
    BY DEF IInv, PipesOK
  <2>1. pipes[p] \in PipeRecord
    BY <1>1
  <2> QED
    BY <2>1 DEF PipeRecord
<1>3. ASSUME NEW i \in DOMAIN jobs
      PROVE  /\ jobs[i] \in Job /\ jobs[i].pipe \in DOMAIN pipes
             /\ JobOK(i) /\ RunningOK(i) /\ EndedOK(i) /\ TailOK(i)
             /\ jobs[i].items \in Seq(Item) /\ jobs[i].waiting \in Seq(Item)
             /\ jobs[i].got \in Seq(Item) /\ Out(i) \in Seq(Item)
             /\ jobs[i].kind \in P!Kinds /\ jobs[i].parent \in Nat
  <2>1. jobs[i] \in Job
    BY <1>1
  <2>2. JobOK(i) /\ RunningOK(i) /\ EndedOK(i) /\ TailOK(i)
    BY DEF IInv, JobsOK
  <2>3. jobs[i].items \in Seq(Item) /\ jobs[i].waiting \in Seq(Item) /\ jobs[i].got \in Seq(Item)
        /\ jobs[i].kind \in P!Kinds /\ jobs[i].parent \in Nat
    BY <2>1 DEF Job
  <2> QED
    BY <1>2, <2>1, <2>2, <2>3 DEF JobOK, Out
<1> QED
  BY <1>1, <1>2, <1>3

LEMMA ChildrenAreJobs ==
    ASSUME IInv, NEW i \in DOMAIN jobs, Running(i)
    PROVE  Children(Out(i)) \subseteq DOMAIN jobs /\ Children(jobs[i].waiting) \subseteq DOMAIN jobs
<1>1. jobs[i].items = Out(i) \o jobs[i].waiting /\ Children(jobs[i].items) \subseteq DOMAIN jobs
  <2>1. RunningOK(i) /\ JobOK(i)
    BY Typed
  <2> QED
    BY <2>1 DEF RunningOK, JobOK
<1>2. Out(i) \in Seq(Item) /\ jobs[i].waiting \in Seq(Item)
  BY Typed
<1>3. \A s, t \in Seq(Item) : Children(s \o t) = Children(s) \cup Children(t)
  BY ChildrenOfBoth
<1> QED
  BY <1>1, <1>2, <1>3

LEMMA ParentIsJob ==
    ASSUME IInv, NEW i \in DOMAIN jobs, jobs[i].parent # 0
    PROVE  jobs[i].parent \in DOMAIN jobs /\ jobs[i].parent < i
<1>1. jobs[i].parent < i /\ jobs[i].parent \in Nat /\ i \in 1..Len(jobs) /\ DOMAIN jobs = 1..Len(jobs)
  BY Typed DEF JobOK
<1> QED
  BY <1>1, Typed

LEMMA HeadIs ==
    ASSUME IInv, stack # <<>>
    PROVE  /\ On = {Head(stack)} \cup Below
           /\ Head(stack) \in CallRecord /\ Head(stack) \in On
           /\ \A b \in Below : b \in CallRecord /\ Over(Head(stack), b) /\ MayWait(b)
           /\ \A b \in On : FeedOK(b) /\ EndOK(b) /\ HeardOK(b) /\ ResultOK(b) /\ ResetOK(b)
<1>1. stack \in Seq(CallRecord)
  BY DEF IInv, TypeOK
<1>2. \A b \in Below : Over(Head(stack), b)
  BY <1>1, HeadOver DEF IInv
<1>3. \A b \in Below : MayWait(b)
  BY <1>2 DEF Over, MayWait
<1>4. /\ Len(stack) \in Nat /\ Len(stack) > 0 /\ Head(stack) = stack[1]
      /\ 1..Len(stack) = {1} \cup 2..Len(stack) /\ DOMAIN stack = 1..Len(stack)
      /\ \A k \in 1..Len(stack) : stack[k] \in CallRecord
  BY <1>1
<1>5. On = {Head(stack)} \cup Below /\ Below \subseteq CallRecord /\ Head(stack) \in CallRecord
  BY <1>4 DEF On, Below
<1> QED
  BY <1>2, <1>3, <1>5 DEF IInv, CallsOK

LEMMA Turned ==
    ASSUME IInv, stack # <<>>, NEW calls \in Seq(CallRecord), stack' = calls \o Tail(stack)
    PROVE  /\ stack' \in Seq(CallRecord)
           /\ On' = Range(calls) \cup Below
           /\ On = {Head(stack)} \cup Below
           /\ Head(stack) \in CallRecord
           /\ \A b \in Below : b \in CallRecord /\ Over(Head(stack), b) /\ MayWait(b)
           /\ \A b \in On : FeedOK(b) /\ EndOK(b) /\ HeardOK(b) /\ ResultOK(b) /\ ResetOK(b)
<1>1. stack \in Seq(CallRecord)
  BY DEF IInv, TypeOK
<1> QED
  BY <1>1, HeadIs, Pushed

LEMMA OverStays ==
    ASSUME CallsOK, JobsKept, NEW a \in On, NEW b \in On, Over(a, b),
           \A p \in DOMAIN pipes : User(p)' = User(p) \/ User(p)' \notin DOMAIN jobs
    PROVE  Over(a, b)'
<1>1. FeedOK(a) /\ FeedOK(b) /\ ResultOK(a) /\ ResetOK(a)
  BY DEF CallsOK
<1>2. Gentle(a) => Gentle(a)'
  BY <1>1 DEF Gentle, FeedOK, ResultOK, JobsKept, Kept
<1>3. b.op = "transformed" /\ a.op \in ResetOps => User(a.of)' # b.of
  BY <1>1 DEF Over, FeedOK, ResetOK, ResetOps
<1> QED
  BY <1>2, <1>3 DEF Over

LEMMA PipesStay ==
    ASSUME PipesOK, JobsKept, PipesKept
    PROVE  PipesOK'
  BY DEF PipesOK, JobsKept, PipesKept, User, Kept

LEMMA CacheStays ==
    ASSUME PipesOK, CacheOK, PipesKept, StatesGoOn, cache' = cache,
           \A i \in DOMAIN jobs : HeardBy(i) /\ Running(i)' => HeardBy(i)'
    PROVE  CacheOK'
<1>1. \A p \in DOMAIN pipes : User(p)' = User(p) /\ User(p) \in DOMAIN jobs
  BY DEF PipesKept, PipesOK, User
<1> SUFFICES ASSUME NEW key \in P!Keys, NEW i \in DOMAIN cache[key], NEW p, p = cache[key][i]
             PROVE  /\ p \in DOMAIN (pipes') /\ pipes'[p].key = key
                    /\ Running(User(p))' => HeardBy(User(p))'
  BY DEF CacheOK, Running, User, HeardBy
<1>2. p \in DOMAIN pipes /\ pipes[p].key = key /\ (Running(User(p)) => HeardBy(User(p)))
  BY DEF CacheOK
<1>3. Running(User(p))' => HeardBy(User(p))'
  <2>1. PICK u \in DOMAIN jobs : u = User(p) /\ u = User(p)'
    BY <1>1, <1>2
  <2>2. Running(u)' => HeardBy(u)'
    <3>1. Running(u) => HeardBy(u)
      BY <1>2, <2>1 DEF Running, HeardBy
    <3> QED
      BY <3>1 DEF StatesGoOn
  <2>3. Running(User(p))' <=> Running(u)'
    BY <2>1 DEF Running
  <2>4. HeardBy(User(p))' <=> HeardBy(u)'
    BY <2>1 DEF HeardBy
  <2> QED
    BY <2>2, <2>3, <2>4
<1> QED
  BY <1>2, <1>3 DEF PipesKept

\* What is said of the calls holds on while they wait.
LEMMA AtEndStays ==
    ASSUME On = {Head(stack)} \cup Below, Below \subseteq On',
           NEW i \in DOMAIN jobs, jobs'[i].pipe = jobs[i].pipe,
           Head(stack).op \in HeardOps => Head(stack).of # i
    PROVE  /\ HeardBy(i) => HeardBy(i)'
           /\ AtEnd(i) /\ (Head(stack).op \in EndOps => Head(stack).of # jobs[i].pipe)
                => AtEnd(i)'
<1>1. HeardBy(i) => HeardBy(i)'
  <2> SUFFICES ASSUME HeardBy(i) PROVE HeardBy(i)'
    OBVIOUS
  <2>1. PICK c \in On : c.op \in HeardOps /\ c.of = i
    BY DEF HeardBy
  <2>2. c \in On'
    BY <2>1
  <2> QED
    BY <2>1, <2>2 DEF HeardBy
<1>2. AtEnd(i) /\ ~HeardBy(i) /\ (Head(stack).op \in EndOps => Head(stack).of # jobs[i].pipe)
        => AtEnd(i)'
  <2> SUFFICES ASSUME AtEnd(i), ~HeardBy(i),
                      Head(stack).op \in EndOps => Head(stack).of # jobs[i].pipe
               PROVE  AtEnd(i)'
    OBVIOUS
  <2>1. PICK c \in On : c.op \in EndOps /\ c.of = jobs[i].pipe
    BY DEF AtEnd
  <2>2. c \in On'
    BY <2>1
  <2> QED
    BY <2>1, <2>2 DEF AtEnd
<1> QED
  BY <1>1, <1>2 DEF AtEnd

LEMMA FedStays ==
    ASSUME On = {Head(stack)} \cup Below, Below \subseteq On', NEW i, Fed(i),
           i \in timers => i \in timers',
           Head(stack).op \in FeedOps \cup {"transformed"} => Head(stack).of # i
    PROVE  Fed(i)'
<1>1. CASE i \in timers
  BY <1>1 DEF Fed
<1>2. CASE i \notin timers
  <2>1. PICK c \in On : c.op \in FeedOps \cup {"transformed"} /\ c.of = i
    BY <1>2 DEF Fed
  <2>2. c \in On'
    BY <2>1
  <2> QED
    BY <2>1, <2>2 DEF Fed
<1> QED
  BY <1>1, <1>2

LEMMA WaitedStays ==
    ASSUME On = {Head(stack)} \cup Below, Below \subseteq On', CallsOK, JobsKept,
           NEW i \in DOMAIN jobs, WaitedFor(i),
           <<"child", i>> \in Range(jobs[jobs[i].parent].waiting)
                => <<"child", i>> \in Range(jobs'[jobs[i].parent].waiting),
           Head(stack).op \in {"transformed", "transformedAgain"} => Head(stack).arg # <<i>>
    PROVE  WaitedFor(i)'
<1>1. jobs'[i].parent = jobs[i].parent
  BY DEF JobsKept, Kept
<1>2. CASE <<"child", i>> \in Range(jobs[jobs[i].parent].waiting)
  BY <1>1, <1>2 DEF WaitedFor
<1>3. CASE <<"child", i>> \notin Range(jobs[jobs[i].parent].waiting)
  <2>1. PICK c \in On :
          /\ \/ c.op = "transformed" /\ c.of = jobs[i].parent
             \/ c.op = "transformedAgain" /\ jobs[c.of].parent = jobs[i].parent
          /\ c.arg = <<i>>
    BY <1>3 DEF WaitedFor
  <2>2. c \in On'
    BY <2>1
  <2>3. c.op = "transformedAgain" => jobs'[c.of].parent = jobs[c.of].parent
    BY DEF CallsOK, ResultOK, JobsKept, Kept
  <2>4. \/ c.op = "transformed" /\ c.of = jobs'[i].parent
        \/ c.op = "transformedAgain" /\ jobs'[c.of].parent = jobs'[i].parent
    BY <1>1, <2>1, <2>3
  <2> QED
    BY <2>1, <2>2, <2>4 DEF WaitedFor
<1> QED
  BY <1>2, <1>3

\* A call that waits is not wrong when its time comes.
LEMMA BelowStays ==
    ASSUME IInv, JobsKept, PipesKept, StatesGoOn, NEW b \in On, MayWait(b),
           Head(stack).op # "returnPipeline",
           b.op = "transformed" =>
                jobs'[b.of].state = "running" /\ ~jobs'[b.of].closed /\ b.of \notin timers',
           b.op = "transformedAgain" =>
                /\ jobs'[b.of].state = "called" /\ b.of \notin settled'
                /\ <<"child", b.of>> \in Range(jobs'[jobs[b.of].parent].waiting),
           \A i \in DOMAIN jobs : Running(i)' /\ AtEnd(i) => AtEnd(i)'
    PROVE  (FeedOK(b) /\ EndOK(b) /\ HeardOK(b) /\ ResultOK(b) /\ ResetOK(b))'
<1>1. FeedOK(b) /\ ResultOK(b) /\ ResetOK(b) /\ b.op \in {"transformed", "transformedAgain"} \cup ResetOps
  BY DEF IInv, CallsOK, MayWait
<1>2. \A p \in DOMAIN pipes : User(p)' = User(p) /\ User(p) \in DOMAIN jobs
  BY DEF IInv, PipesOK, PipesKept, User
<1>3. EndOK(b)' /\ HeardOK(b)'
  BY <1>1 DEF EndOK, HeardOK, EndOps, HeardOps, ResetOps
<1>4. FeedOK(b)'
  <2>1. CASE b.op = "transformed"
    <3>1. \E x \in DOMAIN (jobs') : x > b.of /\ b.arg = <<x>>
      BY <1>1, <2>1 DEF FeedOK, JobsKept
    <3> QED
      BY <1>1, <2>1, <3>1 DEF FeedOK, JobsKept, Running, FeedOps
  <2> QED
    BY <1>1, <2>1 DEF FeedOK, FeedOps, ResetOps
<1>5. ResultOK(b)'
  <2>1. CASE b.op = "transformedAgain"
    <3>1. \E x \in DOMAIN (jobs') : b.arg = <<x>>
      BY <1>1, <2>1 DEF ResultOK, JobsKept
    <3> QED
      BY <1>1, <2>1, <3>1 DEF ResultOK, JobsKept, Kept
  <2> QED
    BY <1>1, <2>1 DEF ResultOK, ResetOps
<1>6. ResetOK(b)'
  <2>1. CASE b.op = "reset"
    <3>1. PICK u \in DOMAIN jobs : u = User(b.of) /\ u = User(b.of)'
      BY <1>1, <1>2, <2>1 DEF ResetOK
    <3>2. jobs[u].state = "running" /\ ~jobs[u].closed => jobs[u].expanded
      BY <1>1, <2>1, <3>1 DEF ResetOK, Running
    <3>3. jobs'[u].state = "running" /\ ~jobs'[u].closed => jobs'[u].expanded
      BY <3>2 DEF StatesGoOn, Running, JobsKept, Kept
    <3> QED
      BY <1>1, <2>1, <3>1, <3>3 DEF ResetOK, Running, PipesKept
  <2>2. CASE b.op = "treeBuilderResetState"
    <3>1. PICK u \in DOMAIN jobs : u = User(b.of) /\ u = User(b.of)'
      BY <1>1, <1>2, <2>2 DEF ResetOK
    <3>2. Running(u) => AtEnd(u)
      BY <1>1, <2>2, <3>1 DEF ResetOK, Running, AtEnd, HeardBy
    <3>3. Running(u)' => AtEnd(u)'
      BY <3>2 DEF StatesGoOn
    <3>4. Running(User(b.of))' => AtEnd(User(b.of))'
      BY <3>1, <3>3 DEF Running, AtEnd, HeardBy
    <3> QED
      BY <1>1, <2>2, <3>4 DEF ResetOK, PipesKept
  <2> QED
    BY <1>1, <2>1, <2>2 DEF ResetOK, ResetOps
<1> QED
  BY <1>3, <1>4, <1>5, <1>6

-----------------------------------------------------------------------------
(* The steps that leave jobs and pipelines as they are *)

LEMMA Quiet ==
    ASSUME IInv, jobs' = jobs, pipes' = pipes
    PROVE  /\ JobsOK' /\ PipesOK' /\ JobsKept /\ PipesKept /\ StatesGoOn
           /\ \A a, b \in On : Over(a, b) => Over(a, b)'
<1>1. JobsKept /\ PipesKept /\ StatesGoOn
  BY DEF JobsKept, PipesKept, StatesGoOn, Kept, Running
<1>2. PipesOK'
  BY <1>1, PipesStay DEF IInv
<1>3. JobsOK'
  BY DEF IInv, JobsOK, JobOK, RunningOK, EndedOK, TailOK, Out, ToDocument, User, Ends, Running
<1>4. \A a, b \in On : Over(a, b) => Over(a, b)'
  <2>1. \A p \in DOMAIN pipes : User(p)' = User(p)
    BY DEF User
  <2> QED
    BY <1>1, <2>1, OverStays DEF IInv
<1> QED
  BY <1>1, <1>2, <1>3, <1>4

\* The head hands on to other calls, and nothing but the stack changes.
LEMMA HandsOn ==
    ASSUME IInv, stack # <<>>, jobs' = jobs, pipes' = pipes, cache' = cache,
           settled' = settled, timers' \in SUBSET (DOMAIN jobs), TimersOK',
           \A b \in Below : b.op = "transformed" => b.of \in timers \/ b.of \notin timers',
           NEW calls \in Seq(CallRecord), stack' = calls \o Tail(stack),
           Head(stack).op \in FeedOps \cup EndOps \cup ResetOps, Head(stack).op # "returnPipeline",
           \A c \in Range(calls) : (FeedOK(c) /\ EndOK(c) /\ HeardOK(c) /\ ResultOK(c) /\ ResetOK(c))',
           \A i \in DOMAIN calls : \A b \in Below : Over(Head(stack), b) => Over(calls[i], b)',
           \A k \in DOMAIN calls : \A i \in 1..(k - 1) : Over(calls[i], calls[k])',
           \A i \in DOMAIN jobs : Running(i) =>
                /\ AtEnd(i) => AtEnd(i)'
                /\ HeardBy(i) => HeardBy(i)'
                /\ Fed(i) => Fed(i)'
    PROVE  IInv'
<1>1. /\ stack' \in Seq(CallRecord) /\ On' = Range(calls) \cup Below
      /\ On = {Head(stack)} \cup Below
      /\ \A b \in Below : b \in CallRecord /\ Over(Head(stack), b) /\ MayWait(b)
      /\ \A b \in On : FeedOK(b) /\ EndOK(b) /\ HeardOK(b) /\ ResultOK(b) /\ ResetOK(b)
  BY Turned
<1>2. /\ JobsOK' /\ PipesOK' /\ JobsKept /\ PipesKept /\ StatesGoOn
      /\ \A a, b \in On : Over(a, b) => Over(a, b)'
  BY Quiet
<1>3. TypeOK'
  BY <1>1 DEF IInv, TypeOK
<1>4. ControlOK'
  BY DEF IInv, ControlOK, Running
<1>5. ParentsWait'
  <2> SUFFICES ASSUME NEW i \in DOMAIN jobs, jobs[i].parent # 0, jobs[i].state # "done"
               PROVE  WaitedFor(i)'
    BY DEF ParentsWait
  <2>1. WaitedFor(i)
    BY DEF IInv, ParentsWait
  <2>2. Head(stack).op \notin {"transformed", "transformedAgain"}
    BY DEF FeedOps, EndOps, ResetOps
  <2> QED
    BY <1>1, <1>2, <2>1, <2>2, WaitedStays DEF IInv
<1>6. CacheOK'
  BY <1>2, CacheStays DEF IInv, Running
<1>7. SettledOK'
  BY DEF IInv, SettledOK
<1>8. CallsOK'
  <2>1. ASSUME NEW b \in Below
        PROVE  (FeedOK(b) /\ EndOK(b) /\ HeardOK(b) /\ ResultOK(b) /\ ResetOK(b))'
    <3>1. /\ b.op = "transformed" =>
                jobs'[b.of].state = "running" /\ ~jobs'[b.of].closed /\ b.of \notin timers'
          /\ b.op = "transformedAgain" =>
                /\ jobs'[b.of].state = "called" /\ b.of \notin settled'
                /\ <<"child", b.of>> \in Range(jobs'[jobs[b.of].parent].waiting)
      BY <1>1 DEF FeedOK, ResultOK, Running
    <3>2. b \in On /\ MayWait(b) /\ \A i \in DOMAIN jobs : Running(i)' /\ AtEnd(i) => AtEnd(i)'
      BY <1>1 DEF Running
    <3> QED
      BY <1>2, <3>1, <3>2, BelowStays
  <2> QED
    BY <1>1, <2>1 DEF CallsOK
<1>9. Ordered'
  <2>1. /\ \A a, b \in Below : Over(a, b) => Over(a, b)'
        /\ \A i \in DOMAIN calls : \A b \in Below : Over(calls[i], b)'
    BY <1>1, <1>2
  <2> QED
    BY <2>1, StaysOrdered DEF IInv, TypeOK
<1> QED
  BY <1>2, <1>3, <1>4, <1>5, <1>6, <1>7, <1>8, <1>9 DEF IInv

LEMMA SetImmediateKeeps == ASSUME IInv, P!SetImmediate PROVE IInv'
<1> DEFINE j == Head(stack).of
<1>1. /\ stack # <<>> /\ Head(stack).op = "setImmediate" /\ timers' = timers \cup {j}
      /\ stack' = <<>> \o Tail(stack) /\ jobs' = jobs /\ pipes' = pipes /\ cache' = cache
      /\ settled' = settled /\ <<>> \in Seq(CallRecord)
  BY DEF P!SetImmediate, P!Then
<1>2. /\ On' = {} \cup Below /\ On = {Head(stack)} \cup Below /\ FeedOK(Head(stack))
      /\ \A b \in Below : Over(Head(stack), b) /\ FeedOK(b)
  <2>1. Range(<<>>) = {}
    BY DEF Range
  <2> QED
    BY <1>1, <2>1, Turned
<1>3. /\ j \in DOMAIN jobs /\ Running(j) /\ ~jobs[j].closed
      /\ P!Tokenizes(P!Recipe(jobs[j].kind))
  BY <1>1, <1>2 DEF FeedOK, FeedOps
<1>4. TimersOK' /\ timers' \in SUBSET (DOMAIN jobs)
  BY <1>1, <1>3 DEF IInv, TypeOK, TimersOK, Running
<1>5. \A b \in Below : b.op = "transformed" => b.of \in timers \/ b.of \notin timers'
  BY <1>1, <1>2 DEF Over, FeedOps
<1>6. ASSUME NEW i \in DOMAIN jobs
      PROVE  (AtEnd(i) => AtEnd(i)') /\ (HeardBy(i) => HeardBy(i)') /\ (Fed(i) => Fed(i)')
  <2>1. (AtEnd(i) => AtEnd(i)') /\ (HeardBy(i) => HeardBy(i)')
    BY <1>1, <1>2, AtEndStays DEF HeardOps, EndOps
  <2>2. Fed(i) => Fed(i)'
    <3>1. CASE i = j
      BY <1>1, <3>1 DEF Fed
    <3>2. CASE i # j
      BY <1>1, <1>2, <3>2, FedStays
    <3> QED
      BY <3>1, <3>2
  <2> QED
    BY <2>1, <2>2
<1>7. DOMAIN <<>> = {} /\ Range(<<>>) = {}
  BY DEF Range
<1> QED
  BY <1>1, <1>4, <1>5, <1>6, <1>7, HandsOn DEF FeedOps

LEMMA TreeBuilderOnEndKeeps == ASSUME IInv, P!TreeBuilderOnEnd PROVE IInv'
<1>0. PICK p \in {Head(stack).of} :
        P!Then(<<P!Call("returnPipeline", p),
                 P!CallWith("documentCB", pipes[p].user, pipes[p].tree),
                 P!Call("treeBuilderResetState", p)>>)
  BY DEF P!TreeBuilderOnEnd
<1>1. /\ stack # <<>> /\ Head(stack).op = "treeBuilderOnEnd" /\ Head(stack).of = p
      /\ jobs' = jobs /\ pipes' = pipes /\ cache' = cache /\ timers' = timers /\ settled' = settled
  BY DEF P!TreeBuilderOnEnd
<1>2. /\ Head(stack) \in On /\ On = {Head(stack)} \cup Below /\ EndOK(Head(stack))
      /\ \A b \in Below : FeedOK(b) /\ Over(Head(stack), b)
  BY <1>1, HeadIs
<1>3. PICK u \in DOMAIN jobs : u = pipes[p].user /\ u = User(p) /\ p = jobs[u].pipe
  BY <1>1, <1>2 DEF IInv, PipesOK, EndOK, EndOps, User
<1>4. /\ p \in DOMAIN pipes /\ Ends(u) /\ ToDocument(u)
      /\ \A i \in DOMAIN cache[pipes[p].key] : cache[pipes[p].key][i] # p
  BY <1>1, <1>2, <1>3 DEF EndOK, EndOps
<1>5. pipes[p].tree = jobs[u].items /\ pipes[p].tree \in Seq(Item) /\ u \in Nat /\ p \in Nat
      /\ P!MakesDocument(pipes[p].key[1])
  <2>0. RunningOK(u)
    BY Typed
  <2>1. jobs[u].items = pipes[p].tree \o <<>>
    BY <1>3, <1>4, <2>0 DEF RunningOK, Ends, Out
  <2>2. pipes[p].tree \o <<>> = pipes[p].tree
    BY <1>4, Typed
  <2> QED
    BY <1>3, <1>4, <2>1, <2>2, Typed DEF ToDocument, JobOK
<1> PICK tree \in Seq(Item) : tree = pipes[p].tree
  BY <1>5
<1> DEFINE a == P!Call("returnPipeline", p)
           b == P!CallWith("documentCB", u, tree)
           c == P!Call("treeBuilderResetState", p)
<1>6. /\ a \in CallRecord /\ a.op = "returnPipeline" /\ a.of = p
      /\ b \in CallRecord /\ b.op = "documentCB" /\ b.of = u /\ b.arg = jobs[u].items
      /\ c \in CallRecord /\ c.op = "treeBuilderResetState" /\ c.of = p
  <2>1. <<>> \in Seq(Item)
    OBVIOUS
  <2> QED
    BY <1>5, <2>1 DEF P!Call, P!CallWith, CallRecord, Ops, EndOps, HeardOps, ResetOps
<1> DEFINE calls == <<a, b, c>>
<1>7. stack' = calls \o Tail(stack)
  BY <1>0, <1>3 DEF P!Then
<1> HIDE DEF a, b, c
<1>8. calls \in Seq(CallRecord) /\ Range(calls) = {a, b, c} /\ DOMAIN calls = {1, 2, 3}
      /\ calls[1] = a /\ calls[2] = b /\ calls[3] = c
  <2>1. calls[1] = a /\ calls[2] = b /\ calls[3] = c
    OBVIOUS
  <2>2. calls \in Seq(CallRecord) /\ DOMAIN calls = {1, 2, 3}
    BY <1>6
  <2> HIDE DEF calls
  <2> QED
    BY <2>1, <2>2 DEF Range
<1> HIDE DEF calls
<1>9. On' = {a, b, c} \cup Below
  BY <1>1, <1>7, <1>8, Turned
<1>10. ASSUME NEW i \in DOMAIN jobs, Running(i)
       PROVE  (AtEnd(i) => AtEnd(i)') /\ (HeardBy(i) => HeardBy(i)') /\ (Fed(i) => Fed(i)')
  <2>1. (HeardBy(i) => HeardBy(i)') /\ (Fed(i) => Fed(i)')
    BY <1>1, <1>2, <1>9, AtEndStays, FedStays DEF HeardOps, FeedOps
  <2>2. AtEnd(i) => AtEnd(i)'
    <3>1. CASE jobs[i].pipe = p
      BY <1>1, <1>6, <1>9, <3>1 DEF AtEnd, EndOps
    <3>2. CASE jobs[i].pipe # p
      BY <1>1, <1>2, <1>9, <3>2, AtEndStays DEF HeardOps
    <3> QED
      BY <3>1, <3>2
  <2> QED
    BY <2>1, <2>2
<1>11. \A d \in Range(calls) : (FeedOK(d) /\ EndOK(d) /\ HeardOK(d) /\ ResultOK(d) /\ ResetOK(d))'
  <2>1. Ends(u)' /\ ToDocument(u)' /\ User(p)' = u /\ HeardBy(u)'
    BY <1>1, <1>3, <1>4, <1>6, <1>9 DEF Ends, Running, ToDocument, User, HeardBy, HeardOps
  <2>2. EndOK(a)'
    BY <1>1, <1>4, <1>6, <2>1 DEF EndOK
  <2>3. HeardOK(b)'
    BY <1>1, <1>6, <2>1 DEF HeardOK
  <2>4. ResetOK(c)'
    BY <1>1, <1>4, <1>5, <1>6, <2>1 DEF ResetOK, AtEnd
  <2> QED
    BY <1>6, <1>8, <2>2, <2>3, <2>4
       DEF FeedOK, EndOK, HeardOK, ResultOK, ResetOK, FeedOps, EndOps, HeardOps, ResetOps
<1>12. \A d \in Below : Over(a, d)' /\ Over(b, d)' /\ Over(c, d)'
  <2> SUFFICES ASSUME NEW d \in Below PROVE Over(a, d)' /\ Over(b, d)' /\ Over(c, d)'
    OBVIOUS
  <2>1. d.op \in {"transformed", "transformedAgain"} \cup ResetOps
    BY <1>1, <1>2 DEF Over
  <2>2. d.op = "transformed" => User(p)' # d.of
    BY <1>1, <1>2, <1>3, <1>4 DEF FeedOK, Ends, User
  <2> QED
    BY <1>6, <2>1, <2>2 DEF Over, Gentle, FeedOps, ResetOps
<1>13. Over(a, b)' /\ Over(a, c)' /\ Over(b, c)'
  BY <1>6 DEF Over, Gentle, FeedOps, HeardOps, ResetOps
<1>14. /\ \A i \in DOMAIN calls : \A d \in Below : Over(Head(stack), d) => Over(calls[i], d)'
       /\ \A k \in DOMAIN calls : \A i \in 1..(k - 1) : Over(calls[i], calls[k])'
  BY <1>8, <1>12, <1>13
<1>15. timers' \in SUBSET (DOMAIN jobs) /\ TimersOK'
  BY <1>1 DEF IInv, TypeOK, TimersOK, Running
<1> QED
  BY <1>1, <1>7, <1>8, <1>10, <1>11, <1>14, <1>15, HandsOn DEF EndOps

LEMMA EmitEndKeeps == ASSUME IInv, P!EmitEnd PROVE IInv'
<1>0. PICK p \in {Head(stack).of} :
        P!Then(<<P!Call("returnPipeline", p), P!Call("endCB", pipes[p].user)>>)
  BY DEF P!EmitEnd
<1>1. /\ stack # <<>> /\ Head(stack).op = "emitEnd" /\ Head(stack).of = p
      /\ jobs' = jobs /\ pipes' = pipes /\ cache' = cache /\ timers' = timers /\ settled' = settled
  BY DEF P!EmitEnd
<1>2. /\ Head(stack) \in On /\ On = {Head(stack)} \cup Below /\ EndOK(Head(stack))
      /\ \A b \in Below : FeedOK(b) /\ Over(Head(stack), b)
  BY <1>1, HeadIs
<1>3. PICK u \in DOMAIN jobs : u = pipes[p].user /\ u = User(p) /\ p = jobs[u].pipe
  BY <1>1, <1>2 DEF IInv, PipesOK, EndOK, EndOps, User
<1>4. /\ p \in DOMAIN pipes /\ Ends(u) /\ ~ToDocument(u)
      /\ \A i \in DOMAIN cache[pipes[p].key] : cache[pipes[p].key][i] # p
  BY <1>1, <1>2, <1>3 DEF EndOK, EndOps
<1>5. jobs[u].got = jobs[u].items /\ u \in Nat /\ p \in Nat
  <2>0. RunningOK(u)
    BY Typed
  <2>1. jobs[u].items = jobs[u].got \o <<>>
    BY <1>3, <1>4, <2>0 DEF RunningOK, Ends, Out
  <2>2. jobs[u].got \o <<>> = jobs[u].got
    BY Typed
  <2> QED
    BY <1>4, <2>1, <2>2, Typed
<1> DEFINE a == P!Call("returnPipeline", p)
           b == P!Call("endCB", u)
<1>6. /\ a \in CallRecord /\ a.op = "returnPipeline" /\ a.of = p
      /\ b \in CallRecord /\ b.op = "endCB" /\ b.of = u
  <2>1. <<>> \in Seq(Item)
    OBVIOUS
  <2> QED
    BY <1>5, <2>1 DEF P!Call, CallRecord, Ops, EndOps, HeardOps
<1> DEFINE calls == <<a, b>>
<1>7. stack' = calls \o Tail(stack)
  BY <1>0, <1>3 DEF P!Then
<1> HIDE DEF a, b
<1>8. calls \in Seq(CallRecord) /\ Range(calls) = {a, b} /\ DOMAIN calls = {1, 2}
      /\ calls[1] = a /\ calls[2] = b
  <2>1. calls[1] = a /\ calls[2] = b
    OBVIOUS
  <2>2. calls \in Seq(CallRecord) /\ DOMAIN calls = {1, 2}
    BY <1>6
  <2> HIDE DEF calls
  <2> QED
    BY <2>1, <2>2 DEF Range
<1> HIDE DEF calls
<1>9. On' = {a, b} \cup Below
  BY <1>1, <1>7, <1>8, Turned
<1>10. ASSUME NEW i \in DOMAIN jobs, Running(i)
       PROVE  (AtEnd(i) => AtEnd(i)') /\ (HeardBy(i) => HeardBy(i)') /\ (Fed(i) => Fed(i)')
  <2>1. (HeardBy(i) => HeardBy(i)') /\ (Fed(i) => Fed(i)')
    BY <1>1, <1>2, <1>9, AtEndStays, FedStays DEF HeardOps, FeedOps
  <2>2. AtEnd(i) => AtEnd(i)'
    <3>1. CASE jobs[i].pipe = p
      BY <1>1, <1>6, <1>9, <3>1 DEF AtEnd, EndOps
    <3>2. CASE jobs[i].pipe # p
      BY <1>1, <1>2, <1>9, <3>2, AtEndStays DEF HeardOps
    <3> QED
      BY <3>1, <3>2
  <2> QED
    BY <2>1, <2>2
<1>11. \A d \in Range(calls) : (FeedOK(d) /\ EndOK(d) /\ HeardOK(d) /\ ResultOK(d) /\ ResetOK(d))'
  <2>1. Ends(u)' /\ User(p)' = u /\ HeardBy(u)'
    BY <1>1, <1>3, <1>4, <1>6, <1>9 DEF Ends, Running, User, HeardBy, HeardOps
  <2>2. EndOK(a)'
    BY <1>1, <1>4, <1>6, <2>1 DEF EndOK
  <2>3. HeardOK(b)'
    BY <1>1, <1>5, <1>6, <2>1 DEF HeardOK
  <2> QED
    BY <1>6, <1>8, <2>2, <2>3
       DEF FeedOK, EndOK, HeardOK, ResultOK, ResetOK, FeedOps, EndOps, HeardOps, ResetOps
<1>12. \A d \in Below : Over(a, d)' /\ Over(b, d)'
  <2> SUFFICES ASSUME NEW d \in Below PROVE Over(a, d)' /\ Over(b, d)'
    OBVIOUS
  <2>1. d.op \in {"transformed", "transformedAgain"} \cup ResetOps
    BY <1>1, <1>2 DEF Over
  <2> QED
    BY <1>6, <2>1 DEF Over, Gentle, FeedOps, ResetOps
<1>13. Over(a, b)'
  BY <1>6 DEF Over, Gentle, FeedOps, HeardOps, ResetOps
<1>14. /\ \A i \in DOMAIN calls : \A d \in Below : Over(Head(stack), d) => Over(calls[i], d)'
       /\ \A k \in DOMAIN calls : \A i \in 1..(k - 1) : Over(calls[i], calls[k])'
  BY <1>8, <1>12, <1>13
<1>15. timers' \in SUBSET (DOMAIN jobs) /\ TimersOK'
  BY <1>1 DEF IInv, TypeOK, TimersOK, Running
<1> QED
  BY <1>1, <1>7, <1>8, <1>10, <1>11, <1>14, <1>15, HandsOn DEF EndOps

\* The pipeline is in the cache while its user has yet to hear of the end.
LEMMA ReturnPipelineKeeps == ASSUME IInv, P!ReturnPipeline PROVE IInv'
<1>0. PICK p \in {Head(stack).of} :
        cache' = IF Len(cache[pipes[p].key]) < CacheLimit
                 THEN [cache EXCEPT ![pipes[p].key] = Append(@, p)] ELSE cache
  BY DEF P!ReturnPipeline
<1>1. /\ stack # <<>> /\ Head(stack).op = "returnPipeline" /\ Head(stack).of = p
      /\ jobs' = jobs /\ pipes' = pipes /\ timers' = timers /\ settled' = settled
      /\ stack' = <<>> \o Tail(stack) /\ <<>> \in Seq(CallRecord)
      /\ Range(<<>>) = {} /\ DOMAIN <<>> = {}
  BY DEF P!ReturnPipeline, P!Then, Range
<1>2. /\ Head(stack) \in On /\ On = {Head(stack)} \cup Below /\ EndOK(Head(stack))
      /\ \A b \in Below : Over(Head(stack), b) /\ MayWait(b) /\ b \in On
      /\ \A b \in On : FeedOK(b) /\ EndOK(b) /\ HeardOK(b) /\ ResultOK(b) /\ ResetOK(b)
      /\ stack' \in Seq(CallRecord) /\ On' = Below
  BY <1>1, HeadIs, Turned
<1>3. /\ p \in DOMAIN pipes /\ User(p) \in DOMAIN jobs /\ HeardBy(User(p))
      /\ \A i \in DOMAIN cache[pipes[p].key] : cache[pipes[p].key][i] # p
  BY <1>1, <1>2, Typed DEF EndOK, EndOps
<1>4. /\ JobsOK' /\ PipesOK' /\ JobsKept /\ PipesKept /\ StatesGoOn
      /\ \A a, b \in On : Over(a, b) => Over(a, b)'
  BY <1>1, Quiet
<1>5. ASSUME NEW i \in DOMAIN jobs, Running(i)
      PROVE  (HeardBy(i) => HeardBy(i)') /\ (Fed(i) => Fed(i)') /\ (AtEnd(i) => AtEnd(i)')
  <2>1. (HeardBy(i) => HeardBy(i)') /\ (Fed(i) => Fed(i)')
    BY <1>1, <1>2, AtEndStays, FedStays DEF HeardOps, FeedOps
  <2>2. AtEnd(i) => AtEnd(i)'
    <3>1. CASE jobs[i].pipe = p
      <4>1. RunningOK(i)
        BY Typed
      <4>2. i = User(p)
        BY <1>5, <3>1, <4>1 DEF RunningOK, User
      <4>3. HeardBy(i)
        BY <1>3, <4>2, Zenon
      <4> QED
        BY <2>1, <4>3 DEF AtEnd
    <3>2. CASE jobs[i].pipe # p
      BY <1>1, <1>2, <3>2, AtEndStays DEF HeardOps
    <3> QED
      BY <3>1, <3>2
  <2> QED
    BY <2>1, <2>2
<1>6. ControlOK'
  BY <1>1, <1>5 DEF IInv, ControlOK, Running
<1>7. ParentsWait'
  <2> SUFFICES ASSUME NEW i \in DOMAIN jobs, jobs[i].parent # 0, jobs[i].state # "done"
               PROVE  WaitedFor(i)'
    BY <1>1 DEF ParentsWait
  <2>1. WaitedFor(i)
    BY DEF IInv, ParentsWait
  <2> QED
    BY <1>1, <1>2, <1>4, <2>1, WaitedStays DEF IInv
<1>8. CallsOK'
  <2> SUFFICES ASSUME NEW b \in Below
               PROVE  (FeedOK(b) /\ EndOK(b) /\ HeardOK(b) /\ ResultOK(b) /\ ResetOK(b))'
    BY <1>2 DEF CallsOK
  <2>1. FeedOK(b) /\ HeardOK(b) /\ ResultOK(b) /\ ResetOK(b) /\ MayWait(b)
    BY <1>2
  <2>2. FeedOK(b)' /\ HeardOK(b)' /\ ResultOK(b)'
    BY <1>1, <2>1 DEF FeedOK, HeardOK, ResultOK, Running, Ends, ToDocument
  <2>3. EndOK(b)'
    BY <2>1 DEF MayWait, EndOK, EndOps, HeardOps, ResetOps
  <2>4. ResetOK(b)'
    <3>1. CASE b.op = "treeBuilderResetState"
      <4>1. PICK u \in DOMAIN jobs : u = User(b.of) /\ u = User(b.of)'
        BY <1>1, <2>1, <3>1, Typed DEF ResetOK, User
      <4>2. Running(u) => AtEnd(u)
        BY <2>1, <3>1, <4>1 DEF ResetOK, Running, AtEnd, HeardBy
      <4>3. Running(u)' => AtEnd(u)'
        BY <1>1, <1>5, <4>2 DEF Running
      <4>4. Running(User(b.of))' => AtEnd(User(b.of))'
        BY <4>1, <4>3 DEF Running, AtEnd, HeardBy
      <4> QED
        BY <1>1, <2>1, <3>1, <4>4 DEF ResetOK
    <3>2. CASE b.op # "treeBuilderResetState"
      BY <1>1, <2>1, <3>2 DEF ResetOK, Running, User
    <3> QED
      BY <3>1, <3>2
  <2> QED
    BY <2>2, <2>3, <2>4
<1>9. Ordered'
  <2>1. \A a, b \in Below : Over(a, b) => Over(a, b)'
    BY <1>2, <1>4
  <2> QED
    BY <1>1, <2>1, StaysOrdered DEF IInv, TypeOK
<1>10. TimersOK' /\ SettledOK'
  BY <1>1 DEF IInv, TimersOK, SettledOK, Running
<1>11. cache' \in [P!Keys -> Seq(Nat)] /\ CacheOK'
  <2>1. PICK K \in P!Keys : K = pipes[p].key
    BY <1>3, Typed
  <2>2. CacheOK /\ cache \in [P!Keys -> Seq(Nat)] /\ p \in Nat /\ cache[K] \in Seq(Nat)
    BY <1>3, Typed DEF IInv, TypeOK
  <2>3. /\ \A key \in P!Keys : cache'[key] = cache[key] \/ (key = K /\ cache'[key] = Append(cache[key], p))
        /\ cache' \in [P!Keys -> Seq(Nat)]
    BY <1>0, <2>1, <2>2
  <2>4. \A q \in DOMAIN pipes : Running(User(q))' /\ HeardBy(User(q)) => HeardBy(User(q))'
    <3> SUFFICES ASSUME NEW q \in DOMAIN pipes, Running(User(q))', HeardBy(User(q))
                 PROVE  HeardBy(User(q))'
      OBVIOUS
    <3>1. PICK u \in DOMAIN jobs : u = User(q) /\ u = User(q)'
      BY <1>1, Typed DEF User
    <3>2. Running(u) /\ HeardBy(u)
      BY <1>1, <3>1 DEF Running, HeardBy
    <3>3. HeardBy(u)'
      BY <1>5, <3>2
    <3> QED
      BY <3>1, <3>3 DEF HeardBy
  <2>5. HeardBy(User(p)) /\ (Running(User(p))' => HeardBy(User(p))')
    BY <1>3, <2>4
  <2> SUFFICES ASSUME NEW key \in P!Keys, NEW c, c = cache'[key]
               PROVE  /\ \A i \in DOMAIN c :
                            /\ c[i] \in DOMAIN pipes /\ pipes[c[i]].key = key
                            /\ Running(User(c[i]))' => HeardBy(User(c[i]))'
                      /\ \A i, k \in DOMAIN c : c[i] = c[k] => i = k
    BY <1>1, <2>3 DEF CacheOK, Running, User, HeardBy
  <2>6. PICK old \in Seq(Nat) : old = cache[key]
    BY <2>2
  <2>7. /\ \A i \in DOMAIN old :
            /\ old[i] \in DOMAIN pipes /\ pipes[old[i]].key = key
            /\ Running(User(old[i])) => HeardBy(User(old[i]))
        /\ \A i, k \in DOMAIN old : old[i] = old[k] => i = k
    BY <2>2, <2>6 DEF CacheOK
  <2>8. \A i \in DOMAIN old : Running(User(old[i]))' => HeardBy(User(old[i]))'
    <3> SUFFICES ASSUME NEW q \in DOMAIN pipes, Running(User(q)) => HeardBy(User(q)), Running(User(q))'
                 PROVE  HeardBy(User(q))'
      BY <2>7
    <3>1. Running(User(q))
      BY <1>1 DEF Running, User
    <3> QED
      BY <2>4, <3>1
  <2>9. CASE c = old
    BY <2>7, <2>8, <2>9
  <2>10. CASE c # old
    <3>1. key = K /\ c = Append(old, p)
      BY <2>3, <2>6, <2>10
    <3>2. /\ DOMAIN c = DOMAIN old \cup {Len(old) + 1} /\ Len(old) + 1 \notin DOMAIN old
          /\ c[Len(old) + 1] = p /\ \A i \in DOMAIN old : c[i] = old[i]
      <4>1. p \in Nat /\ old \in Seq(Nat)
        BY <2>2
      <4>2. /\ DOMAIN Append(old, p) = DOMAIN old \cup {Len(old) + 1}
            /\ Len(old) + 1 \notin DOMAIN old /\ Append(old, p)[Len(old) + 1] = p
            /\ \A i \in DOMAIN old : Append(old, p)[i] = old[i]
        BY <4>1, Appended
      <4> QED
        BY <3>1, <4>2, Zenon
    <3>3. \A i \in DOMAIN old : old[i] # p
      BY <1>3, <2>1, <2>6, <3>1
    <3> QED
      BY <1>3, <2>1, <2>5, <2>7, <2>8, <3>1, <3>2, <3>3
  <2> QED
    BY <2>9, <2>10
<1> QED
  BY <1>1, <1>2, <1>4, <1>6, <1>7, <1>8, <1>9, <1>10, <1>11 DEF IInv, TypeOK

\* A turn begins: what it is called for was due, and is no longer.
LEMMA Wakes ==
    ASSUME IInv, stack = <<>>, jobs' = jobs, pipes' = pipes, cache' = cache,
           timers' \subseteq timers, settled' \subseteq settled,
           NEW c \in CallRecord, stack' = <<c>>,
           (FeedOK(c) /\ EndOK(c) /\ HeardOK(c) /\ ResultOK(c) /\ ResetOK(c))',
           \A i \in timers \ timers' : c.op = "chunk" /\ c.of = i
    PROVE  IInv'
<1>1. On = {} /\ On' = {c} /\ stack' \in Seq(CallRecord) /\ DOMAIN (stack') = {1}
  <2>1. DOMAIN stack = {} /\ DOMAIN (stack') = {1} /\ stack'[1] = c /\ stack' \in Seq(CallRecord)
    OBVIOUS
  <2> QED
    BY <2>1 DEF On
<1>2. /\ JobsOK' /\ PipesOK' /\ JobsKept /\ PipesKept /\ StatesGoOn
  BY Quiet
<1>3. ControlOK'
  <2>1. \A i \in DOMAIN jobs : ~AtEnd(i) /\ (Fed(i) => Fed(i)')
    BY <1>1 DEF AtEnd, HeardBy, Fed, FeedOps
  <2> QED
    BY <2>1 DEF IInv, ControlOK, Running
<1>4. ParentsWait'
  BY <1>1 DEF IInv, ParentsWait, WaitedFor
<1>5. CacheOK'
  <2>1. \A i \in DOMAIN jobs : ~HeardBy(i)
    BY <1>1 DEF HeardBy
  <2> QED
    BY <1>2, <2>1, CacheStays DEF IInv
<1>6. TimersOK' /\ SettledOK'
  BY DEF IInv, TimersOK, SettledOK, Running
<1>7. CallsOK' /\ Ordered'
  BY <1>1 DEF CallsOK, Ordered
<1> QED
  BY <1>1, <1>2, <1>3, <1>4, <1>5, <1>6, <1>7 DEF IInv, TypeOK

LEMMA TokenizeChunkKeeps == ASSUME IInv, P!TokenizeChunk PROVE IInv'
<1>0. PICK j \in timers : timers' = timers \ {j} /\ stack' = <<P!Call("chunk", j)>>
  BY DEF P!TokenizeChunk
<1>1. stack = <<>> /\ jobs' = jobs /\ pipes' = pipes /\ cache' = cache /\ settled' = settled
  BY DEF P!TokenizeChunk
<1>2. j \in DOMAIN jobs /\ j \in Nat /\ Running(j) /\ ~jobs[j].closed
  BY Typed DEF IInv, TypeOK, TimersOK
<1> DEFINE c == P!Call("chunk", j)
<1>3. c \in CallRecord /\ c.op = "chunk" /\ c.of = j
  <2>1. <<>> \in Seq(Item)
    OBVIOUS
  <2> QED
    BY <1>2, <2>1 DEF P!Call, CallRecord, Ops, FeedOps
<1> HIDE DEF c
<1>4. (FeedOK(c) /\ EndOK(c) /\ HeardOK(c) /\ ResultOK(c) /\ ResetOK(c))'
  BY <1>0, <1>1, <1>2, <1>3
     DEF FeedOK, EndOK, HeardOK, ResultOK, ResetOK, FeedOps, EndOps, HeardOps, ResetOps, Running
<1> QED
  BY <1>0, <1>1, <1>3, <1>4, Wakes DEF c

LEMMA SettleKeeps == ASSUME IInv, P!Settle PROVE IInv'
<1>0. PICK j \in settled : settled' = settled \ {j} /\ stack' = <<P!Call("result", j)>>
  BY DEF P!Settle
<1>1. stack = <<>> /\ jobs' = jobs /\ pipes' = pipes /\ cache' = cache /\ timers' = timers
  BY DEF P!Settle
<1>2. j \in DOMAIN jobs /\ j \in Nat /\ jobs[j].state = "called"
  BY Typed DEF IInv, TypeOK, SettledOK
<1> DEFINE c == P!Call("result", j)
<1>3. c \in CallRecord /\ c.op = "result" /\ c.of = j
  <2>1. <<>> \in Seq(Item)
    OBVIOUS
  <2> QED
    BY <1>2, <2>1 DEF P!Call, CallRecord, Ops
<1> HIDE DEF c
<1>4. (FeedOK(c) /\ EndOK(c) /\ HeardOK(c) /\ ResultOK(c) /\ ResetOK(c))'
  BY <1>0, <1>1, <1>2, <1>3
     DEF FeedOK, EndOK, HeardOK, ResultOK, ResetOK, FeedOps, EndOps, HeardOps, ResetOps, Running
<1> QED
  BY <1>0, <1>1, <1>3, <1>4, Wakes DEF c

-----------------------------------------------------------------------------
(* The steps that change the jobs there are *)

LEMMA Goes ==
    ASSUME IInv, stack # <<>>, Head(stack).op # "returnPipeline",
           jobs' \in Seq(Job), pipes' \in Seq(PipeRecord), DOMAIN (jobs') = DOMAIN jobs,
           JobsKept, PipesKept, StatesGoOn, cache' = cache,
           timers' \in SUBSET (DOMAIN jobs), settled' \in SUBSET (DOMAIN jobs),
           JobsOK', ControlOK', ParentsWait', TimersOK', SettledOK',
           NEW calls \in Seq(CallRecord), stack' = calls \o Tail(stack),
           \A c \in Range(calls) : (FeedOK(c) /\ EndOK(c) /\ HeardOK(c) /\ ResultOK(c) /\ ResetOK(c))',
           \A i \in DOMAIN calls : \A b \in Below : Over(Head(stack), b) => Over(calls[i], b)',
           \A k \in DOMAIN calls : \A i \in 1..(k - 1) : Over(calls[i], calls[k])',
           \A i \in DOMAIN jobs : Running(i)' =>
                (AtEnd(i) => AtEnd(i)') /\ (HeardBy(i) => HeardBy(i)'),
           \A b \in Below :
            /\ b.op = "transformed" =>
                jobs'[b.of].state = "running" /\ ~jobs'[b.of].closed /\ b.of \notin timers'
            /\ b.op = "transformedAgain" =>
                /\ jobs'[b.of].state = "called" /\ b.of \notin settled'
                /\ <<"child", b.of>> \in Range(jobs'[jobs[b.of].parent].waiting)
    PROVE  IInv'
<1>1. /\ stack' \in Seq(CallRecord) /\ On' = Range(calls) \cup Below
      /\ On = {Head(stack)} \cup Below
      /\ \A b \in Below : b \in CallRecord /\ Over(Head(stack), b) /\ MayWait(b)
      /\ \A b \in On : FeedOK(b) /\ EndOK(b) /\ HeardOK(b) /\ ResultOK(b) /\ ResetOK(b)
  BY Turned
<1>2. PipesOK' /\ CacheOK'
  BY PipesStay, CacheStays DEF IInv
<1>3. \A a, b \in On : Over(a, b) => Over(a, b)'
  <2>1. \A p \in DOMAIN pipes : User(p)' = User(p)
    BY DEF User, PipesKept
  <2> QED
    BY <2>1, OverStays DEF IInv
<1>4. TypeOK'
  BY <1>1 DEF IInv, TypeOK
<1>5. CallsOK'
  <2>1. ASSUME NEW b \in Below
        PROVE  (FeedOK(b) /\ EndOK(b) /\ HeardOK(b) /\ ResultOK(b) /\ ResetOK(b))'
    <3>1. b \in On /\ MayWait(b) /\ \A i \in DOMAIN jobs : Running(i)' /\ AtEnd(i) => AtEnd(i)'
      BY <1>1
    <3> QED
      BY <3>1, BelowStays
  <2> QED
    BY <1>1, <2>1 DEF CallsOK
<1>6. Ordered'
  <2>1. /\ \A a, b \in Below : Over(a, b) => Over(a, b)'
        /\ \A i \in DOMAIN calls : \A b \in Below : Over(calls[i], b)'
    BY <1>1, <1>3
  <2> QED
    BY <2>1, StaysOrdered DEF IInv, TypeOK
<1> QED
  BY <1>2, <1>4, <1>5, <1>6 DEF IInv

\* The rest of a handler waits for a job that runs, or for one that is called and
\* still has its place.
LEMMA Waiting ==
    ASSUME IInv, stack # <<>>, NEW b \in Below
    PROVE  /\ b.op = "transformed" => b.of \in DOMAIN jobs /\ jobs[b.of].state = "running"
                /\ ~jobs[b.of].closed /\ b.of \notin timers
           /\ b.op = "transformedAgain" =>
                /\ b.of \in DOMAIN jobs /\ jobs[b.of].state = "called" /\ b.of \notin settled
                /\ jobs[b.of].parent \in DOMAIN jobs
                /\ <<"child", b.of>> \in Range(jobs[jobs[b.of].parent].waiting)
<1>1. FeedOK(b) /\ ResultOK(b)
  BY HeadIs
<1> QED
  BY <1>1, ParentIsJob DEF FeedOK, ResultOK, Running

\* The calls of a stage that ends, if it does.
EndCallsOf(p, ends, doc) ==
    IF ~ends THEN <<>>
    ELSE IF doc THEN <<P!Call("treeBuilderOnEnd", p), P!Call("reset", p)>>
    ELSE <<P!Call("emitEnd", p), P!Call("reset", p)>>
EndCalls(calls, p, ends, doc) ==
    /\ calls \in Seq(CallRecord)
    /\ \A c \in Range(calls) :
         /\ ends /\ c.of = p
         /\ c.op = "reset" \/ c.op = IF doc THEN "treeBuilderOnEnd" ELSE "emitEnd"
    /\ ends => \E c \in Range(calls) : c.op \in EndOps /\ c.of = p
    /\ \A k \in DOMAIN calls :
         /\ calls[k] \in Range(calls)
         /\ \A i \in 1..(k - 1) : calls[i].op \in EndOps /\ calls[k].op = "reset"

LEMMA EndCallsAre ==
    ASSUME NEW p \in Nat, NEW ends \in BOOLEAN, NEW doc \in BOOLEAN
    PROVE  EndCalls(EndCallsOf(p, ends, doc), p, ends, doc)
<1> DEFINE calls == EndCallsOf(p, ends, doc)
<1> SUFFICES EndCalls(calls, p, ends, doc)
  OBVIOUS
<1> HIDE DEF calls
<1>1. CASE ~ends
  <2>1. calls = <<>> /\ DOMAIN calls = {}
    BY <1>1 DEF EndCallsOf, calls
  <2> QED
    BY <1>1, <2>1 DEF Range, EndCalls
<1>2. CASE ends
  <2> DEFINE a == IF doc THEN P!Call("treeBuilderOnEnd", p) ELSE P!Call("emitEnd", p)
             b == P!Call("reset", p)
  <2>1. /\ a \in CallRecord /\ b \in CallRecord /\ b.op = "reset" /\ b.of = p /\ a.of = p
        /\ a.op = IF doc THEN "treeBuilderOnEnd" ELSE "emitEnd"
    <3>1. <<>> \in Seq(Item)
      OBVIOUS
    <3> QED
      BY <3>1 DEF P!Call, CallRecord, Ops, EndOps, ResetOps
  <2>2. calls = <<a, b>>
    BY <1>2 DEF EndCallsOf, calls
  <2> HIDE DEF a, b
  <2>3. calls \in Seq(CallRecord) /\ DOMAIN calls = {1, 2} /\ calls[1] = a /\ calls[2] = b
    <3>1. <<a, b>> \in Seq(CallRecord)
      BY <2>1
    <3>2. DOMAIN <<a, b>> = {1, 2} /\ <<a, b>>[1] = a /\ <<a, b>>[2] = b
      OBVIOUS
    <3> QED
      BY <2>2, <3>1, <3>2, Zenon
  <2>4. Range(calls) = {a, b}
    BY <2>3 DEF Range
  <2> QED
    BY <1>2, <2>1, <2>3, <2>4 DEF EndOps, EndCalls
<1> QED
  BY <1>1, <1>2

\* They may go on the stack for a job that is at its end and has not been heard of.
LEMMA EndMayBegin ==
    ASSUME IInv, stack # <<>>, Head(stack).op # "returnPipeline", PipesKept, cache' = cache,
           NEW u \in DOMAIN jobs, NEW p, p = jobs[u].pipe, Running(u), ~HeardBy(u), User(p) = u,
           NEW ends, ends => Ends(u)', JobsKept,
           ends => \A b \in Below : b.op = "transformed" => b.of # u,
           NEW doc, doc = P!MakesDocument(pipes[p].key[1]),
           NEW calls, EndCalls(calls, p, ends, doc)
    PROVE  /\ \A c \in Range(calls) :
                (FeedOK(c) /\ EndOK(c) /\ HeardOK(c) /\ ResultOK(c) /\ ResetOK(c))'
           /\ \A i \in DOMAIN calls : \A b \in Below : Over(Head(stack), b) => Over(calls[i], b)'
           /\ \A k \in DOMAIN calls : \A i \in 1..(k - 1) : Over(calls[i], calls[k])'
<1>1. /\ p \in DOMAIN pipes /\ pipes[p].key \in P!Keys /\ (doc <=> ToDocument(u))
  <2>1. JobOK(u)
    BY Typed
  <2> QED
    BY <2>1, Typed DEF JobOK, ToDocument
<1>2. p \in DOMAIN (pipes') /\ User(p)' = u /\ pipes'[p].key = pipes[p].key /\ ToDocument(u)' = ToDocument(u)
  BY <1>1 DEF PipesKept, User, ToDocument, JobsKept, Kept
<1>3. \A i \in DOMAIN cache[pipes[p].key] : cache[pipes[p].key][i] # p
  <2> SUFFICES ASSUME NEW i \in DOMAIN cache[pipes[p].key], cache[pipes[p].key][i] = p
               PROVE  FALSE
    OBVIOUS
  <2>1. Running(User(cache[pipes[p].key][i])) => HeardBy(User(cache[pipes[p].key][i]))
    BY <1>1 DEF IInv, CacheOK
  <2>2. User(cache[pipes[p].key][i]) = u
    BY Zenon
  <2> QED
    BY <2>1, <2>2
<1>4. ASSUME NEW c \in Range(calls)
      PROVE  (FeedOK(c) /\ EndOK(c) /\ HeardOK(c) /\ ResultOK(c) /\ ResetOK(c))'
  <2>1. /\ ends /\ c.of = p
        /\ c.op = "reset" \/ c.op = IF doc THEN "treeBuilderOnEnd" ELSE "emitEnd"
    BY DEF EndCalls
  <2>2. EndOK(c)'
    BY <1>1, <1>2, <1>3, <2>1 DEF EndOK, EndOps
  <2>3. ResetOK(c)'
    BY <1>1, <1>2, <2>1 DEF ResetOK, Ends
  <2> QED
    BY <2>1, <2>2, <2>3 DEF FeedOK, HeardOK, ResultOK, FeedOps, HeardOps
<1>5. ASSUME NEW c \in Range(calls), NEW b \in Below, Over(Head(stack), b)
      PROVE  Over(c, b)'
  <2>1. /\ ends /\ c.of = p
        /\ c.op = "reset" \/ c.op = IF doc THEN "treeBuilderOnEnd" ELSE "emitEnd"
    BY DEF EndCalls
  <2>2. b.op \in {"transformed", "transformedAgain"} \cup ResetOps /\ (b.op = "transformed" => b.of # u)
    BY <1>5, <2>1 DEF Over
  <2> QED
    BY <1>2, <2>1, <2>2 DEF Over, Gentle, FeedOps, ResetOps
<1>6. ASSUME NEW k \in DOMAIN calls, NEW i \in 1..(k - 1)
      PROVE  Over(calls[i], calls[k])'
  <2>1. \A a, b : a.op \in EndOps /\ b.op = "reset" => Over(a, b)'
    BY DEF Over, Gentle, EndOps, FeedOps, ResetOps
  <2> QED
    BY <2>1 DEF EndCalls
<1> QED
  BY <1>4, <1>5, <1>6 DEF EndCalls

LEMMA OnEndEventKeeps == ASSUME IInv, P!OnEndEvent PROVE IInv'
<1>0. PICK j \in {Head(stack).of} :
        /\ jobs' = [jobs EXCEPT ![j].closed = TRUE]
        /\ P!Then(IF pipes[P!Pipe(j)].tail /\ jobs[j].waiting # <<>> THEN <<>>
                  ELSE P!EndCalls(P!Pipe(j)))
  BY DEF P!OnEndEvent
<1>1. /\ stack # <<>> /\ Head(stack).op = "onEndEvent" /\ Head(stack).of = j
      /\ pipes' = pipes /\ cache' = cache /\ timers' = timers /\ settled' = settled
  BY DEF P!OnEndEvent
<1>2. /\ Head(stack) \in On /\ On = {Head(stack)} \cup Below
      /\ \A b \in Below : FeedOK(b) /\ Over(Head(stack), b)
      /\ \A b \in On : FeedOK(b) /\ EndOK(b) /\ HeardOK(b) /\ ResultOK(b) /\ ResetOK(b)
  BY <1>1, HeadIs
<1>3. j \in DOMAIN jobs /\ Running(j) /\ ~jobs[j].closed
  BY <1>1, <1>2 DEF FeedOK, FeedOps
<1>4. PICK p \in DOMAIN pipes : p = jobs[j].pipe
  BY <1>3, Typed
<1>5. /\ User(p) = j /\ JobOK(j) /\ RunningOK(j) /\ TailOK(j)
      /\ pipes[p].key[1] = P!Recipe(jobs[j].kind)
  BY <1>3, <1>4, Typed DEF RunningOK, JobOK
<1>6. /\ jobs' \in Seq(Job) /\ DOMAIN (jobs') = DOMAIN jobs
      /\ \A i \in DOMAIN jobs \ {j} : jobs'[i] = jobs[i]
      /\ Kept(jobs'[j], jobs[j]) /\ jobs'[j].closed /\ jobs'[j].state = "running"
      /\ jobs'[j].items = jobs[j].items /\ jobs'[j].waiting = jobs[j].waiting
      /\ jobs'[j].got = jobs[j].got
  <2> DEFINE v == [jobs[j] EXCEPT !.closed = TRUE]
  <2>1. /\ v \in Job /\ Kept(v, jobs[j]) /\ v.closed /\ v.state = "running" /\ v.items = jobs[j].items
        /\ v.waiting = jobs[j].waiting /\ v.got = jobs[j].got
    <3>1. jobs[j] \in Job
      BY <1>3, Typed
    <3> QED
      BY <3>1, <1>3 DEF Job, Kept, Running
  <2>2. jobs' = [jobs EXCEPT ![j] = v]
    BY <1>0
  <2> HIDE DEF v
  <2>3. jobs \in Seq(Job)
    BY Typed
  <2>4. /\ jobs' \in Seq(Job) /\ DOMAIN (jobs') = DOMAIN jobs /\ jobs'[j] = v
        /\ \A i \in DOMAIN jobs \ {j} : jobs'[i] = jobs[i]
    BY <1>3, <2>1, <2>2, <2>3, ReplacedInSeq
  <2> QED
    BY <2>1, <2>4
<1>7. JobsKept /\ PipesKept /\ StatesGoOn
  BY <1>1, <1>3, <1>6 DEF JobsKept, PipesKept, StatesGoOn, Kept, Running
<1>8. JobsOK'
  <2>1. JobOK(j)' /\ EndedOK(j)' /\ TailOK(j)'
    BY <1>1, <1>5, <1>6 DEF JobOK, EndedOK, TailOK, Running, Kept
  <2>2. RunningOK(j)'
    <3>1. Out(j)' = Out(j) /\ ToDocument(j)' = ToDocument(j) /\ ~Ends(j)
      BY <1>1, <1>3, <1>6 DEF Out, ToDocument, Kept, Ends
    <3>2. \A c \in Children(Out(j)) : jobs'[c].state = "done"
      <4>1. \A c \in Children(Out(j)) : jobs[c].state = "done" /\ c # j
        BY <1>3, <1>5 DEF RunningOK, Running
      <4>2. Children(Out(j)) \subseteq DOMAIN jobs
        BY <1>3, ChildrenAreJobs
      <4> QED
        BY <1>6, <4>1, <4>2
    <3> QED
      BY <1>1, <1>3, <1>5, <1>6, <3>1, <3>2 DEF RunningOK, User, Kept, Running
  <2>3. jobs \in Seq(Job) /\ pipes \in Seq(PipeRecord) /\ JobsOK
    BY DEF IInv, TypeOK
  <2>4. /\ \A i \in DOMAIN jobs : jobs[i].state = "done" => jobs'[i].state = "done"
        /\ \A i \in {j} \cap DOMAIN (jobs') : (JobOK(i) /\ RunningOK(i) /\ EndedOK(i) /\ TailOK(i))'
    BY <1>3, <1>6, <2>1, <2>2 DEF Running
  <2> QED
    BY <1>1, <1>6, <2>3, <2>4, JobsStay
<1>9. \E ends, doc \in BOOLEAN :
        ends = (jobs[j].waiting = <<>>) /\ doc = P!MakesDocument(pipes[p].key[1])
  <2>1. (jobs[j].waiting = <<>>) \in BOOLEAN /\ P!MakesDocument(pipes[p].key[1]) \in BOOLEAN
    BY DEF P!MakesDocument
  <2> QED
    BY <2>1, Zenon
<1> PICK ends \in BOOLEAN, doc \in BOOLEAN :
        ends = (jobs[j].waiting = <<>>) /\ doc = P!MakesDocument(pipes[p].key[1])
  BY <1>9, Zenon
<1>10. PICK calls : calls = EndCallsOf(p, ends, doc)
  OBVIOUS
<1>11. stack' = calls \o Tail(stack)
  <2>1. ~ends => pipes[p].tail
    BY <1>3, <1>4, <1>5, <1>9 DEF TailOK
  <2> QED
    BY <1>0, <1>4, <1>9, <1>10, <2>1 DEF P!Then, P!Pipe, P!EndCalls, P!RecipeOf, EndCallsOf
<1>12. EndCalls(calls, p, ends, doc)
  <2>1. p \in Nat
    BY <1>4, Typed
  <2> QED
    BY <1>10, <2>1, EndCallsAre
<1>13. /\ \A c \in Range(calls) :
            (FeedOK(c) /\ EndOK(c) /\ HeardOK(c) /\ ResultOK(c) /\ ResetOK(c))'
       /\ \A i \in DOMAIN calls : \A b \in Below : Over(Head(stack), b) => Over(calls[i], b)'
       /\ \A k \in DOMAIN calls : \A i \in 1..(k - 1) : Over(calls[i], calls[k])'
  <2>1. ~HeardBy(j)
    BY <1>2, <1>3 DEF HeardBy, HeardOK, Ends
  <2>2. ends => Ends(j)'
    BY <1>3, <1>6, <1>9 DEF Ends, Running
  <2>3. ends => \A b \in Below : b.op = "transformed" => b.of # j
    BY <1>1, <1>2 DEF Over, FeedOps
  <2> QED
    BY <1>1, <1>3, <1>4, <1>5, <1>7, <1>9, <1>12, <2>1, <2>2, <2>3, EndMayBegin
<1>14. On' = Range(calls) \cup Below
  BY <1>1, <1>11, <1>12, Turned DEF EndCalls
<1>15. \A i \in DOMAIN jobs : (AtEnd(i) => AtEnd(i)') /\ (HeardBy(i) => HeardBy(i)')
  BY <1>1, <1>2, <1>6, <1>14, AtEndStays DEF HeardOps, EndOps, Kept
<1>16. ControlOK'
  <2> SUFFICES ASSUME NEW i \in DOMAIN jobs, Running(i)'
               PROVE  (IF jobs[i].closed THEN jobs[i].waiting = <<>> => AtEnd(i) ELSE Fed(i))'
    BY <1>6 DEF ControlOK
  <2>1. CASE i = j
    <3>1. ends => AtEnd(i)'
      BY <1>4, <1>6, <1>12, <1>14, <2>1 DEF AtEnd, Kept, EndCalls
    <3> QED
      BY <1>6, <1>9, <2>1, <3>1
  <2>2. CASE i # j
    <3>1. Fed(i) => Fed(i)'
      BY <1>1, <1>2, <1>14, <2>2, FedStays
    <3> QED
      BY <1>6, <1>15, <2>2, <3>1 DEF IInv, ControlOK, Running
  <2> QED
    BY <2>1, <2>2
<1>17. \A i \in DOMAIN jobs : jobs'[i].waiting = jobs[i].waiting /\ jobs'[i].parent = jobs[i].parent
        /\ jobs'[i].state = jobs[i].state
  BY <1>3, <1>6 DEF Kept, Running
<1>18. ParentsWait'
  <2> SUFFICES ASSUME NEW i \in DOMAIN jobs, jobs[i].parent # 0, jobs[i].state # "done"
               PROVE  WaitedFor(i)'
    BY <1>6, <1>17 DEF ParentsWait
  <2>1. WaitedFor(i)
    BY DEF IInv, ParentsWait
  <2>2. jobs[i].parent \in DOMAIN jobs
    BY ParentIsJob
  <2> QED
    BY <1>1, <1>2, <1>7, <1>14, <1>17, <2>1, <2>2, WaitedStays DEF IInv
<1>19. TimersOK' /\ SettledOK'
  <2>1. j \notin timers
    BY <1>1, <1>2 DEF FeedOK, FeedOps
  <2>2. timers \subseteq DOMAIN jobs /\ settled \subseteq DOMAIN jobs /\ TimersOK /\ SettledOK
    BY DEF IInv, TypeOK
  <2>3. \A i \in timers : jobs'[i] = jobs[i]
    BY <1>6, <2>1, <2>2
  <2>4. TimersOK'
    BY <1>1, <2>2, <2>3 DEF TimersOK, Running
  <2> QED
    BY <1>1, <1>17, <2>2, <2>4 DEF SettledOK
<1>20. \A b \in Below :
        /\ b.op = "transformed" =>
            jobs'[b.of].state = "running" /\ ~jobs'[b.of].closed /\ b.of \notin timers'
        /\ b.op = "transformedAgain" =>
            /\ jobs'[b.of].state = "called" /\ b.of \notin settled'
            /\ <<"child", b.of>> \in Range(jobs'[jobs[b.of].parent].waiting)
  <2> SUFFICES ASSUME NEW b \in Below
               PROVE  /\ b.op = "transformed" =>
                          jobs'[b.of].state = "running" /\ ~jobs'[b.of].closed /\ b.of \notin timers'
                      /\ b.op = "transformedAgain" =>
                          /\ jobs'[b.of].state = "called" /\ b.of \notin settled'
                          /\ <<"child", b.of>> \in Range(jobs'[jobs[b.of].parent].waiting)
    OBVIOUS
  <2>1. b.op = "transformed" => b.of # j
    BY <1>1, <1>2 DEF Over, FeedOps
  <2> QED
    BY <1>1, <1>6, <1>17, <2>1, Waiting
<1>21. timers' \in SUBSET (DOMAIN jobs) /\ settled' \in SUBSET (DOMAIN jobs)
  BY <1>1 DEF IInv, TypeOK
<1>22. pipes' \in Seq(PipeRecord) /\ calls \in Seq(CallRecord)
  BY <1>1, <1>12, Typed DEF EndCalls
<1> QED
  BY <1>1, <1>6, <1>7, <1>8, <1>11, <1>13, <1>15, <1>16, <1>18, <1>19, <1>20, <1>21, <1>22, Goes

LEMMA DocumentCBKeeps == ASSUME IInv, P!DocumentCB PROVE IInv'
<1> PICK j, result : j = Head(stack).of /\ result = Head(stack).arg
  OBVIOUS
<1>0. /\ jobs' = [jobs EXCEPT ![j].got = result]
      /\ stack' = <<P!Call("endCB", j)>> \o Tail(stack)
  BY DEF P!DocumentCB, P!Then
<1>1. /\ stack # <<>> /\ Head(stack).op = "documentCB"
      /\ pipes' = pipes /\ cache' = cache /\ timers' = timers /\ settled' = settled
  BY DEF P!DocumentCB
<1>2. /\ Head(stack) \in On /\ On = {Head(stack)} \cup Below
      /\ \A b \in Below : FeedOK(b) /\ Over(Head(stack), b)
      /\ \A b \in On : FeedOK(b) /\ EndOK(b) /\ HeardOK(b) /\ ResultOK(b) /\ ResetOK(b)
  BY <1>1, HeadIs
<1>3. /\ j \in DOMAIN jobs /\ Running(j) /\ jobs[j].closed /\ jobs[j].waiting = <<>>
      /\ result = jobs[j].items /\ ToDocument(j)
  BY <1>1, <1>2 DEF HeardOK, HeardOps, Ends
<1>4. PICK p \in DOMAIN pipes : p = jobs[j].pipe
  BY <1>3, Typed
<1>5. /\ User(p) = j /\ JobOK(j) /\ RunningOK(j)
  BY <1>3, <1>4, Typed DEF RunningOK
<1>6. /\ jobs' \in Seq(Job) /\ DOMAIN (jobs') = DOMAIN jobs
      /\ \A i \in DOMAIN jobs \ {j} : jobs'[i] = jobs[i]
      /\ Kept(jobs'[j], jobs[j]) /\ jobs'[j].closed /\ jobs'[j].state = "running"
      /\ jobs'[j].items = jobs[j].items /\ jobs'[j].waiting = jobs[j].waiting
      /\ jobs'[j].got = jobs[j].items
  <2> DEFINE v == [jobs[j] EXCEPT !.got = result]
  <2>1. /\ v \in Job /\ Kept(v, jobs[j]) /\ v.closed /\ v.state = "running" /\ v.items = jobs[j].items
        /\ v.waiting = jobs[j].waiting /\ v.got = jobs[j].items
    <3>1. jobs[j] \in Job /\ result \in Seq(Item)
      BY <1>3, Typed
    <3> QED
      BY <3>1, <1>3 DEF Job, Kept, Running
  <2>2. jobs' = [jobs EXCEPT ![j] = v]
    BY <1>0
  <2> HIDE DEF v
  <2>3. jobs \in Seq(Job)
    BY Typed
  <2>4. /\ jobs' \in Seq(Job) /\ DOMAIN (jobs') = DOMAIN jobs /\ jobs'[j] = v
        /\ \A i \in DOMAIN jobs \ {j} : jobs'[i] = jobs[i]
    BY <1>3, <2>1, <2>2, <2>3, ReplacedInSeq
  <2> QED
    BY <2>1, <2>4
<1>7. JobsKept /\ PipesKept /\ StatesGoOn
  BY <1>1, <1>3, <1>6 DEF JobsKept, PipesKept, StatesGoOn, Kept, Running
<1>8. JobsOK'
  <2>1. JobOK(j)' /\ EndedOK(j)' /\ TailOK(j)'
    BY <1>1, <1>5, <1>6 DEF JobOK, EndedOK, TailOK, Running, Kept
  <2>2. RunningOK(j)'
    <3>1. Out(j)' = Out(j) /\ ToDocument(j)' = ToDocument(j) /\ Ends(j)'
      BY <1>1, <1>3, <1>6 DEF Out, ToDocument, Kept, Ends, Running
    <3>2. \A c \in Children(Out(j)) : jobs'[c].state = "done"
      <4>1. \A c \in Children(Out(j)) : jobs[c].state = "done" /\ c # j
        BY <1>3, <1>5 DEF RunningOK, Running
      <4>2. Children(Out(j)) \subseteq DOMAIN jobs
        BY <1>3, ChildrenAreJobs
      <4> QED
        BY <1>6, <4>1, <4>2
    <3> QED
      BY <1>1, <1>3, <1>5, <1>6, <3>1, <3>2 DEF RunningOK, User, Kept, Running
  <2>3. jobs \in Seq(Job) /\ pipes \in Seq(PipeRecord) /\ JobsOK
    BY DEF IInv, TypeOK
  <2>4. /\ \A i \in DOMAIN jobs : jobs[i].state = "done" => jobs'[i].state = "done"
        /\ \A i \in {j} \cap DOMAIN (jobs') : (JobOK(i) /\ RunningOK(i) /\ EndedOK(i) /\ TailOK(i))'
    BY <1>3, <1>6, <2>1, <2>2 DEF Running
  <2> QED
    BY <1>1, <1>6, <2>3, <2>4, JobsStay
<1> DEFINE c == P!Call("endCB", j)
           calls == <<c>>
<1>9. c \in CallRecord /\ c.op = "endCB" /\ c.of = j
  <2>1. <<>> \in Seq(Item) /\ j \in Nat
    BY <1>3, Typed
  <2> QED
    BY <2>1 DEF P!Call, CallRecord, Ops, HeardOps
<1>10. stack' = calls \o Tail(stack)
  BY <1>0
<1> HIDE DEF c
<1>11. calls \in Seq(CallRecord) /\ DOMAIN calls = {1} /\ calls[1] = c
  BY <1>9
<1> HIDE DEF calls
<1>12. Range(calls) = {c}
  BY <1>11 DEF Range
<1>13. /\ \A d \in Range(calls) : (FeedOK(d) /\ EndOK(d) /\ HeardOK(d) /\ ResultOK(d) /\ ResetOK(d))'
       /\ \A i \in DOMAIN calls : \A b \in Below : Over(Head(stack), b) => Over(calls[i], b)'
       /\ \A k \in DOMAIN calls : \A i \in 1..(k - 1) : Over(calls[i], calls[k])'
  <2>1. Ends(j)'
    BY <1>3, <1>6 DEF Ends, Running
  <2>2. (FeedOK(c) /\ EndOK(c) /\ HeardOK(c) /\ ResultOK(c) /\ ResetOK(c))'
    BY <1>6, <1>9, <2>1 DEF FeedOK, EndOK, HeardOK, ResultOK, ResetOK, FeedOps, EndOps, HeardOps
  <2>3. \A b \in Below : Over(Head(stack), b) => Over(c, b)'
    BY <1>1, <1>9 DEF Over, Gentle, FeedOps, ResetOps
  <2> QED
    BY <1>11, <1>12, <2>2, <2>3
<1>14. On' = {c} \cup Below
  BY <1>1, <1>10, <1>11, <1>12, Turned
<1>15. \A i \in DOMAIN jobs : (AtEnd(i) => AtEnd(i)') /\ (HeardBy(i) => HeardBy(i)')
  <2> SUFFICES ASSUME NEW i \in DOMAIN jobs
               PROVE  (AtEnd(i) => AtEnd(i)') /\ (HeardBy(i) => HeardBy(i)')
    OBVIOUS
  <2>1. CASE i = j
    BY <1>9, <1>14, <2>1 DEF AtEnd, HeardBy, HeardOps
  <2>2. CASE i # j
    BY <1>1, <1>2, <1>6, <1>14, <2>2, AtEndStays DEF EndOps, Kept
  <2> QED
    BY <2>1, <2>2
<1>16. ControlOK'
  <2> SUFFICES ASSUME NEW i \in DOMAIN jobs, Running(i)'
               PROVE  (IF jobs[i].closed THEN jobs[i].waiting = <<>> => AtEnd(i) ELSE Fed(i))'
    BY <1>6 DEF ControlOK
  <2>1. CASE i = j
    BY <1>6, <1>9, <1>14, <2>1 DEF AtEnd, HeardBy, HeardOps
  <2>2. CASE i # j
    <3>1. Fed(i) => Fed(i)'
      BY <1>1, <1>2, <1>14, <2>2, FedStays DEF FeedOps
    <3> QED
      BY <1>6, <1>15, <2>2, <3>1 DEF IInv, ControlOK, Running
  <2> QED
    BY <2>1, <2>2
<1>17. \A i \in DOMAIN jobs : jobs'[i].waiting = jobs[i].waiting /\ jobs'[i].parent = jobs[i].parent
        /\ jobs'[i].state = jobs[i].state /\ (jobs'[i].closed <=> jobs[i].closed)
        /\ jobs'[i].kind = jobs[i].kind
  BY <1>3, <1>6 DEF Kept, Running
<1>18. ParentsWait'
  <2> SUFFICES ASSUME NEW i \in DOMAIN jobs, jobs[i].parent # 0, jobs[i].state # "done"
               PROVE  WaitedFor(i)'
    BY <1>6, <1>17 DEF ParentsWait
  <2>1. WaitedFor(i)
    BY DEF IInv, ParentsWait
  <2>2. jobs[i].parent \in DOMAIN jobs
    BY ParentIsJob
  <2> QED
    BY <1>1, <1>2, <1>7, <1>14, <1>17, <2>1, <2>2, WaitedStays DEF IInv
<1>19. TimersOK' /\ SettledOK' /\ timers' \in SUBSET (DOMAIN jobs) /\ settled' \in SUBSET (DOMAIN jobs)
  <2>1. timers \subseteq DOMAIN jobs /\ settled \subseteq DOMAIN jobs /\ TimersOK /\ SettledOK
    BY DEF IInv, TypeOK
  <2>2. TimersOK'
    BY <1>1, <1>17, <2>1 DEF TimersOK, Running
  <2> QED
    BY <1>1, <1>17, <2>1, <2>2 DEF SettledOK
<1>20. ASSUME NEW b \in Below
       PROVE  /\ b.op = "transformed" =>
                  jobs'[b.of].state = "running" /\ ~jobs'[b.of].closed /\ b.of \notin timers'
              /\ b.op = "transformedAgain" =>
                  /\ jobs'[b.of].state = "called" /\ b.of \notin settled'
                  /\ <<"child", b.of>> \in Range(jobs'[jobs[b.of].parent].waiting)
  BY <1>1, <1>17, Waiting
<1>22. pipes' \in Seq(PipeRecord)
  BY <1>1, Typed
<1> QED
  BY <1>1, <1>6, <1>7, <1>8, <1>10, <1>11, <1>13, <1>15, <1>16, <1>18, <1>19, <1>20, <1>22, Goes

LEMMA EndCBKeeps == ASSUME IInv, P!EndCB PROVE IInv'
<1> PICK j \in {Head(stack).of} :
        /\ settled' = IF jobs[j].kind \in P!Promised THEN settled \cup {j} ELSE settled
        /\ P!Then(IF jobs[j].kind \in P!Promised THEN <<>> ELSE <<P!Call("result", j)>>)
        /\ jobs' = [jobs EXCEPT ![j].state = "called"]
  BY DEF P!EndCB
<1>0. /\ settled' = IF jobs[j].kind \in P!Promised THEN settled \cup {j} ELSE settled
      /\ stack' = (IF jobs[j].kind \in P!Promised THEN <<>> ELSE <<P!Call("result", j)>>) \o Tail(stack)
      /\ jobs' = [jobs EXCEPT ![j].state = "called"]
  BY DEF P!Then
<1>1. /\ stack # <<>> /\ Head(stack).op = "endCB" /\ Head(stack).of = j
      /\ pipes' = pipes /\ cache' = cache /\ timers' = timers
  BY DEF P!EndCB
<1>2. /\ Head(stack) \in On /\ On = {Head(stack)} \cup Below
      /\ \A b \in Below : FeedOK(b) /\ Over(Head(stack), b)
      /\ \A b \in On : FeedOK(b) /\ EndOK(b) /\ HeardOK(b) /\ ResultOK(b) /\ ResetOK(b)
  BY <1>1, HeadIs
<1>3. /\ j \in DOMAIN jobs /\ Running(j) /\ jobs[j].closed /\ jobs[j].waiting = <<>>
      /\ jobs[j].got = jobs[j].items
  BY <1>1, <1>2 DEF HeardOK, HeardOps, Ends
<1>4. PICK p \in DOMAIN pipes : p = jobs[j].pipe
  BY <1>3, Typed
<1>5. /\ User(p) = j /\ JobOK(j) /\ RunningOK(j)
  BY <1>3, <1>4, Typed DEF RunningOK
<1>6. /\ jobs' \in Seq(Job) /\ DOMAIN (jobs') = DOMAIN jobs
      /\ \A i \in DOMAIN jobs \ {j} : jobs'[i] = jobs[i]
      /\ Kept(jobs'[j], jobs[j]) /\ jobs'[j].closed /\ jobs'[j].state = "called"
      /\ jobs'[j].items = jobs[j].items /\ jobs'[j].waiting = jobs[j].waiting
      /\ jobs'[j].got = jobs[j].items
  <2> DEFINE v == [jobs[j] EXCEPT !.state = "called"]
  <2>1. /\ v \in Job /\ Kept(v, jobs[j]) /\ v.closed /\ v.state = "called" /\ v.items = jobs[j].items
        /\ v.waiting = jobs[j].waiting /\ v.got = jobs[j].items
    <3>1. jobs[j] \in Job
      BY <1>3, Typed
    <3> QED
      BY <3>1, <1>3 DEF Job, Kept, Running
  <2>2. jobs' = [jobs EXCEPT ![j] = v]
    BY <1>0
  <2> HIDE DEF v
  <2>3. jobs \in Seq(Job)
    BY Typed
  <2>4. /\ jobs' \in Seq(Job) /\ DOMAIN (jobs') = DOMAIN jobs /\ jobs'[j] = v
        /\ \A i \in DOMAIN jobs \ {j} : jobs'[i] = jobs[i]
    BY <1>3, <2>1, <2>2, <2>3, ReplacedInSeq
  <2> QED
    BY <2>1, <2>4
<1>7. JobsKept /\ PipesKept /\ StatesGoOn
  BY <1>1, <1>3, <1>6 DEF JobsKept, PipesKept, StatesGoOn, Kept, Running
<1>8. JobsOK'
  <2>1. JobOK(j)' /\ RunningOK(j)' /\ TailOK(j)'
    BY <1>1, <1>5, <1>6 DEF JobOK, RunningOK, TailOK, Running, Kept
  <2>2. EndedOK(j)'
    BY <1>3, <1>6 DEF EndedOK
  <2>3. jobs \in Seq(Job) /\ pipes \in Seq(PipeRecord) /\ JobsOK
    BY DEF IInv, TypeOK
  <2>4. /\ \A i \in DOMAIN jobs : jobs[i].state = "done" => jobs'[i].state = "done"
        /\ \A i \in {j} \cap DOMAIN (jobs') : (JobOK(i) /\ RunningOK(i) /\ EndedOK(i) /\ TailOK(i))'
    BY <1>3, <1>6, <2>1, <2>2 DEF Running
  <2> QED
    BY <1>1, <1>6, <2>3, <2>4, JobsStay
<1> DEFINE c == P!Call("result", j)
<1>9. c \in CallRecord /\ c.op = "result" /\ c.of = j
  <2>1. <<>> \in Seq(Item) /\ j \in Nat
    BY <1>3, Typed
  <2> QED
    BY <2>1 DEF P!Call, CallRecord, Ops
<1> PICK calls : calls = IF jobs[j].kind \in P!Promised THEN <<>> ELSE <<c>>
  OBVIOUS
<1>10. stack' = calls \o Tail(stack)
  BY <1>0
<1> HIDE DEF c
<1>11. /\ calls \in Seq(CallRecord) /\ (jobs[j].kind \in P!Promised => calls = <<>>)
       /\ \A i \in DOMAIN calls : calls[i] = c /\ i = 1
  BY <1>9
<1>12. Range(calls) \subseteq {c} /\ (jobs[j].kind \in P!Promised => Range(calls) = {})
  BY <1>11 DEF Range
<1>13. /\ settled' \in SUBSET (DOMAIN jobs) /\ SettledOK' /\ j \notin settled /\ j \notin timers
       /\ jobs[j].kind \notin P!Promised => j \notin settled'
       /\ \A i \in settled' : i \in settled \/ i = j
  <2>1. timers \subseteq DOMAIN jobs /\ settled \subseteq DOMAIN jobs /\ TimersOK /\ SettledOK
    BY DEF IInv, TypeOK
  <2>2. j \notin settled /\ j \notin timers
    BY <1>3, <2>1 DEF TimersOK, SettledOK, Running
  <2>3. \A i \in settled' : i \in settled \/ i = j
    BY <1>0
  <2>4. SettledOK'
    BY <1>6, <2>1, <2>2, <2>3 DEF SettledOK
  <2> QED
    BY <1>0, <1>3, <2>1, <2>2, <2>3, <2>4
<1>14. /\ \A d \in Range(calls) : (FeedOK(d) /\ EndOK(d) /\ HeardOK(d) /\ ResultOK(d) /\ ResetOK(d))'
       /\ \A i \in DOMAIN calls : \A b \in Below : Over(Head(stack), b) => Over(calls[i], b)'
       /\ \A k \in DOMAIN calls : \A i \in 1..(k - 1) : Over(calls[i], calls[k])'
  <2>1. CASE jobs[j].kind \in P!Promised
    <3>1. calls = <<>> /\ DOMAIN calls = {}
      BY <1>11, <2>1
    <3> QED
      BY <1>12, <2>1, <3>1
  <2>2. CASE jobs[j].kind \notin P!Promised
    <3>1. (FeedOK(c) /\ EndOK(c) /\ HeardOK(c) /\ ResultOK(c) /\ ResetOK(c))'
      BY <1>3, <1>6, <1>9, <1>13, <2>2 DEF FeedOK, EndOK, HeardOK, ResultOK, ResetOK, FeedOps, EndOps, HeardOps
    <3>2. ASSUME NEW b \in Below, Over(Head(stack), b) PROVE Over(c, b)'
      <4>1. b.op = "transformedAgain" => b.of # j
        BY <1>1, <1>3, Waiting DEF Running
      <4>2. Gentle(c)'
        BY <1>6, <1>9, <2>2 DEF Gentle, FeedOps, P!Promised, Kept
      <4> QED
        BY <1>1, <1>9, <3>2, <4>1, <4>2 DEF Over, FeedOps, ResetOps
    <3>3. \A k \in DOMAIN calls : \A i \in 1..(k - 1) : FALSE
      BY <1>11
    <3> QED
      BY <1>11, <1>12, <3>1, <3>2, <3>3
  <2> QED
    BY <2>1, <2>2
<1>15. Below \subseteq On'
  BY <1>1, <1>10, <1>11, Turned
<1>16. ASSUME NEW i \in DOMAIN jobs, i # j
       PROVE  (AtEnd(i) => AtEnd(i)') /\ (HeardBy(i) => HeardBy(i)') /\ (Fed(i) => Fed(i)')
  BY <1>1, <1>2, <1>6, <1>15, <1>16, AtEndStays, FedStays DEF EndOps, FeedOps, Kept
<1>17. ControlOK'
  <2> SUFFICES ASSUME NEW i \in DOMAIN jobs, Running(i)'
               PROVE  (IF jobs[i].closed THEN jobs[i].waiting = <<>> => AtEnd(i) ELSE Fed(i))'
    BY <1>6 DEF ControlOK
  <2>1. i # j
    BY <1>6 DEF Running
  <2> QED
    BY <1>6, <1>16, <2>1 DEF IInv, ControlOK, Running
<1>18. \A i \in DOMAIN jobs : jobs'[i].waiting = jobs[i].waiting /\ jobs'[i].parent = jobs[i].parent
        /\ (jobs'[i].state = "done" <=> jobs[i].state = "done")
  BY <1>3, <1>6 DEF Kept, Running
<1>19. ParentsWait'
  <2> SUFFICES ASSUME NEW i \in DOMAIN jobs, jobs[i].parent # 0, jobs[i].state # "done"
               PROVE  WaitedFor(i)'
    BY <1>6, <1>18 DEF ParentsWait
  <2>1. WaitedFor(i)
    BY DEF IInv, ParentsWait
  <2>2. jobs[i].parent \in DOMAIN jobs
    BY ParentIsJob
  <2> QED
    BY <1>1, <1>2, <1>7, <1>15, <1>18, <2>1, <2>2, WaitedStays DEF IInv
<1>20. TimersOK' /\ timers' \in SUBSET (DOMAIN jobs)
  <2>1. timers \subseteq DOMAIN jobs /\ TimersOK
    BY DEF IInv, TypeOK
  <2>2. \A i \in timers : jobs'[i] = jobs[i]
    BY <1>6, <1>13, <2>1
  <2> QED
    BY <1>1, <2>1, <2>2 DEF TimersOK, Running
<1>21. ASSUME NEW b \in Below
       PROVE  /\ b.op = "transformed" =>
                  jobs'[b.of].state = "running" /\ ~jobs'[b.of].closed /\ b.of \notin timers'
              /\ b.op = "transformedAgain" =>
                  /\ jobs'[b.of].state = "called" /\ b.of \notin settled'
                  /\ <<"child", b.of>> \in Range(jobs'[jobs[b.of].parent].waiting)
  <2>1. /\ b.op = "transformed" => b.of \in DOMAIN jobs /\ b.of # j
        /\ b.op = "transformedAgain" => b.of \in DOMAIN jobs /\ b.of # j
    BY <1>1, <1>3, Waiting DEF Running
  <2> QED
    BY <1>1, <1>6, <1>13, <1>18, <2>1, Waiting
<1>22. pipes' \in Seq(PipeRecord)
  BY <1>1, Typed
<1>23. \A i \in DOMAIN jobs : Running(i)' => (AtEnd(i) => AtEnd(i)') /\ (HeardBy(i) => HeardBy(i)')
  BY <1>6, <1>16 DEF Running
<1> QED
  BY <1>1, <1>6, <1>7, <1>8, <1>10, <1>11, <1>13, <1>14, <1>17, <1>19, <1>20, <1>21, <1>22, <1>23, Goes

\* A stage is reset: no job that runs notices.
LEMMA StageReset ==
    ASSUME IInv, stack # <<>>, Head(stack).op \in ResetOps, stack' = <<>> \o Tail(stack),
           jobs' = jobs, cache' = cache, timers' = timers, settled' = settled,
           pipes' \in Seq(PipeRecord), PipesKept, NEW p \in DOMAIN pipes,
           \A q \in DOMAIN pipes \ {p} : pipes'[q] = pipes[q],
           NEW u \in DOMAIN jobs, u = User(p),
           (JobOK(u) /\ RunningOK(u) /\ EndedOK(u) /\ TailOK(u))'
    PROVE  IInv'
<1>1. /\ <<>> \in Seq(CallRecord) /\ Range(<<>>) = {} /\ DOMAIN <<>> = {}
  BY DEF Range
<1>2. /\ On = {Head(stack)} \cup Below /\ On' = Below
      /\ \A b \in Below : FeedOK(b) /\ Over(Head(stack), b)
  BY <1>1, Turned
<1>3. JobsKept /\ StatesGoOn
  BY DEF JobsKept, StatesGoOn, Kept, Running
<1>4. JobsOK'
  <2>1. \A i \in DOMAIN jobs \ {u} : Running(i) => pipes'[jobs[i].pipe] = pipes[jobs[i].pipe]
    <3> SUFFICES ASSUME NEW i \in DOMAIN jobs \ {u}, Running(i) PROVE jobs[i].pipe \in DOMAIN pipes \ {p}
      OBVIOUS
    <3>1. RunningOK(i) /\ jobs[i].pipe \in DOMAIN pipes
      BY Typed
    <3> QED
      BY <3>1 DEF RunningOK
  <2>2. jobs \in Seq(Job) /\ pipes \in Seq(PipeRecord) /\ JobsOK
    BY DEF IInv, TypeOK
  <2>3. \A i \in {u} \cap DOMAIN (jobs') : (JobOK(i) /\ RunningOK(i) /\ EndedOK(i) /\ TailOK(i))'
    OBVIOUS
  <2> QED
    BY <2>1, <2>2, <2>3, JobsStay DEF PipesKept
<1>5. ASSUME NEW i \in DOMAIN jobs
      PROVE  (AtEnd(i) => AtEnd(i)') /\ (HeardBy(i) => HeardBy(i)') /\ (Fed(i) => Fed(i)')
  BY <1>2, AtEndStays, FedStays DEF EndOps, FeedOps, HeardOps, ResetOps
<1>6. ControlOK'
  BY <1>5 DEF IInv, ControlOK, Running
<1>7. ParentsWait'
  <2> SUFFICES ASSUME NEW i \in DOMAIN jobs, jobs[i].parent # 0, jobs[i].state # "done"
               PROVE  WaitedFor(i)'
    BY DEF ParentsWait
  <2>1. WaitedFor(i)
    BY DEF IInv, ParentsWait
  <2>2. Head(stack).op \notin {"transformed", "transformedAgain"}
    BY DEF ResetOps
  <2> QED
    BY <1>2, <1>3, <2>1, <2>2, WaitedStays DEF IInv
<1>8. TimersOK' /\ SettledOK' /\ timers' \in SUBSET (DOMAIN jobs) /\ settled' \in SUBSET (DOMAIN jobs)
  BY DEF IInv, TypeOK, TimersOK, SettledOK, Running
<1>9. ASSUME NEW b \in Below
      PROVE  /\ b.op = "transformed" =>
                 jobs'[b.of].state = "running" /\ ~jobs'[b.of].closed /\ b.of \notin timers'
             /\ b.op = "transformedAgain" =>
                 /\ jobs'[b.of].state = "called" /\ b.of \notin settled'
                 /\ <<"child", b.of>> \in Range(jobs'[jobs[b.of].parent].waiting)
  BY Waiting
<1>10. jobs' \in Seq(Job) /\ Head(stack).op # "returnPipeline"
  BY Typed DEF ResetOps
<1> QED
  BY <1>1, <1>3, <1>4, <1>5, <1>6, <1>7, <1>8, <1>9, <1>10, Goes

LEMMA ResetKeeps == ASSUME IInv, P!Reset PROVE IInv'
<1> PICK p : p = Head(stack).of
  OBVIOUS
<1>1. /\ stack # <<>> /\ Head(stack).op = "reset" /\ pipes' = [pipes EXCEPT ![p].tail = FALSE]
      /\ stack' = <<>> \o Tail(stack)
      /\ jobs' = jobs /\ cache' = cache /\ timers' = timers /\ settled' = settled
  BY DEF P!Reset, P!Then
<1>2. /\ p \in DOMAIN pipes
      /\ Running(User(p)) /\ ~jobs[User(p)].closed => jobs[User(p)].expanded
  BY <1>1, HeadIs DEF ResetOK
<1>3. PICK u \in DOMAIN jobs : u = User(p) /\ p = jobs[u].pipe
  BY <1>2, Typed
<1>4. JobOK(u) /\ RunningOK(u) /\ EndedOK(u) /\ TailOK(u)
  BY Typed
<1>5. /\ pipes' \in Seq(PipeRecord) /\ DOMAIN (pipes') = DOMAIN pipes
      /\ \A q \in DOMAIN pipes \ {p} : pipes'[q] = pipes[q]
      /\ pipes'[p].key = pipes[p].key /\ pipes'[p].user = pipes[p].user
      /\ pipes'[p].frame = pipes[p].frame /\ pipes'[p].tree = pipes[p].tree
  <2> DEFINE v == [pipes[p] EXCEPT !.tail = FALSE]
  <2>1. /\ v \in PipeRecord /\ v.key = pipes[p].key /\ v.user = pipes[p].user
        /\ v.frame = pipes[p].frame /\ v.tree = pipes[p].tree
    <3>1. pipes[p] \in PipeRecord
      BY <1>2, Typed
    <3> QED
      BY <3>1 DEF PipeRecord
  <2>2. pipes' = [pipes EXCEPT ![p] = v]
    BY <1>1
  <2> HIDE DEF v
  <2>3. pipes \in Seq(PipeRecord)
    BY Typed
  <2> QED
    BY <1>2, <2>1, <2>2, <2>3, ReplacedInSeq
\* A job that still runs there and is not at its end is being transformed below, and
\* what may run meanwhile is not this reset.
<1>6. Running(u) => jobs[u].closed
  <2> SUFFICES ASSUME Running(u), ~jobs[u].closed PROVE FALSE
    OBVIOUS
  <2>1. jobs[u].expanded /\ jobs[u].kind = "attribute"
    BY <1>2, <1>3, <1>4 DEF JobOK
  <2>2. u \notin timers
    <3>1. ~P!Tokenizes(P!Recipe("attribute"))
      BY DEF P!Tokenizes, P!Recipe
    <3> QED
      BY <2>1, <3>1 DEF IInv, TimersOK
  <2>3. Fed(u)
    BY DEF IInv, ControlOK
  <2>4. PICK c \in On : c.op \in FeedOps \cup {"transformed"} /\ c.of = u
    BY <2>2, <2>3 DEF Fed
  <2>5. c \in Below
    BY <1>1, <2>4, HeadIs DEF FeedOps
  <2>6. c.op = "transformed" /\ User(p) # c.of
    BY <1>1, <2>4, <2>5, HeadIs DEF Over, MayWait, FeedOps, ResetOps, HeardOps
  <2> QED
    BY <1>3, <2>4, <2>6
<1>7. (JobOK(u) /\ RunningOK(u) /\ EndedOK(u) /\ TailOK(u))'
  <2>1. Out(u)' = Out(u) /\ ToDocument(u)' = ToDocument(u) /\ Ends(u)' = Ends(u)
    BY <1>1, <1>3, <1>5 DEF Out, ToDocument, Ends, Running
  <2>2. RunningOK(u)'
    BY <1>1, <1>3, <1>4, <1>5, <2>1 DEF RunningOK, Running, User
  <2>3. JobOK(u)' /\ EndedOK(u)' /\ TailOK(u)'
    BY <1>1, <1>3, <1>4, <1>5, <1>6 DEF JobOK, EndedOK, TailOK, Running
  <2> QED
    BY <2>2, <2>3
<1>8. PipesKept
  BY <1>5 DEF PipesKept
<1> QED
  BY <1>1, <1>2, <1>3, <1>5, <1>7, <1>8, StageReset DEF ResetOps

LEMMA TreeBuilderResetStateKeeps == ASSUME IInv, P!TreeBuilderResetState PROVE IInv'
<1> PICK p : p = Head(stack).of
  OBVIOUS
<1>1. /\ stack # <<>> /\ Head(stack).op = "treeBuilderResetState"
      /\ pipes' = [pipes EXCEPT ![p].tree = <<>>] /\ stack' = <<>> \o Tail(stack)
      /\ jobs' = jobs /\ cache' = cache /\ timers' = timers /\ settled' = settled
  BY DEF P!TreeBuilderResetState, P!Then
<1>2. p \in DOMAIN pipes /\ (Running(User(p)) => AtEnd(User(p)))
  BY <1>1, HeadIs DEF ResetOK
<1>3. PICK u \in DOMAIN jobs : u = User(p) /\ p = jobs[u].pipe
  BY <1>2, Typed
<1>4. JobOK(u) /\ RunningOK(u) /\ EndedOK(u) /\ TailOK(u)
  BY Typed
<1>5. /\ pipes' \in Seq(PipeRecord) /\ DOMAIN (pipes') = DOMAIN pipes
      /\ \A q \in DOMAIN pipes \ {p} : pipes'[q] = pipes[q]
      /\ pipes'[p].key = pipes[p].key /\ pipes'[p].user = pipes[p].user
  <2> DEFINE v == [pipes[p] EXCEPT !.tree = <<>>]
  <2>1. /\ v \in PipeRecord /\ v.key = pipes[p].key /\ v.user = pipes[p].user
    <3>1. pipes[p] \in PipeRecord
      BY <1>2, Typed
    <3>2. <<>> \in Seq(Item)
      OBVIOUS
    <3> QED
      BY <3>1, <3>2 DEF PipeRecord
  <2>2. pipes' = [pipes EXCEPT ![p] = v]
    BY <1>1
  <2> HIDE DEF v
  <2>3. pipes \in Seq(PipeRecord)
    BY Typed
  <2> QED
    BY <1>2, <2>1, <2>2, <2>3, ReplacedInSeq
\* Nobody is at the end of a job while the stage is reset.
<1>6. ~Running(u)
  <2>1. ~AtEnd(User(p))
    <3> SUFFICES ASSUME NEW c \in On PROVE c.op \notin HeardOps \cup EndOps
      BY DEF AtEnd, HeardBy
    <3> QED
      BY <1>1, HeadIs DEF MayWait, ResetOps, HeardOps, EndOps
  <2> QED
    BY <1>2, <1>3, <2>1
<1>7. (JobOK(u) /\ RunningOK(u) /\ EndedOK(u) /\ TailOK(u))'
  BY <1>1, <1>3, <1>4, <1>5, <1>6 DEF JobOK, RunningOK, EndedOK, TailOK, Running
<1>8. PipesKept
  BY <1>5 DEF PipesKept
<1> QED
  BY <1>1, <1>2, <1>3, <1>5, <1>7, <1>8, StageReset DEF ResetOps

-----------------------------------------------------------------------------
(* The steps that add to a job *)

\* What is pending and goes out is done; so what is not done stays pending.
LEMMA StaysPending ==
    ASSUME NEW waiting \in Seq(Item), NEW added \in Seq(Item), NEW out \in Seq(Item),
           NEW rest \in Seq(Item), waiting \o added = out \o rest, NEW x,
           <<"child", x>> \in Range(waiting) \cup Range(added), x \notin Children(out)
    PROVE  <<"child", x>> \in Range(rest)
<1>1. Range(waiting \o added) = Range(waiting) \cup Range(added)
  BY RangeConcatenation
<1>2. Range(out \o rest) = Range(out) \cup Range(rest)
  BY RangeConcatenation
<1>3. <<"child", x>> \notin Range(out)
  BY DEF Children
<1> QED
  BY <1>1, <1>2, <1>3

LEMMA Feeds ==
    ASSUME IInv, stack # <<>>, Head(stack).op \in {"chunk", "transformed"},
           cache' = cache, timers' = timers, settled' = settled,
           NEW j \in DOMAIN jobs, j = Head(stack).of, NEW p \in DOMAIN pipes, p = jobs[j].pipe,
           NEW item \in Item, item[1] = "child" => item[2] \in DOMAIN jobs,
           Head(stack).op = "transformed" => Head(stack).arg = <<item[2]>> /\ item[1] = "child",
           NEW out \in Seq(Item), NEW rest \in Seq(Item),
           GetsOn(j, <<item>>, out, rest),
           \A x \in Children(out) : jobs[x].state = "done",
           jobs' \in Seq(Job), DOMAIN (jobs') = DOMAIN jobs,
           \A i \in DOMAIN jobs \ {j} : jobs'[i] = jobs[i],
           ~jobs'[j].closed,
           pipes' \in Seq(PipeRecord), DOMAIN (pipes') = DOMAIN pipes,
           \A q \in DOMAIN pipes \ {p} : pipes'[q] = pipes[q],
           NEW c \in CallRecord, stack' = <<c>> \o Tail(stack), c.of = j, c.op \in FeedOps,
           c.op = "setImmediate" => P!Tokenizes(P!Recipe(jobs[j].kind))
    PROVE  IInv'
<1> DEFINE calls == <<c>>
           added == <<item>>
<1>1. calls \in Seq(CallRecord) /\ DOMAIN calls = {1} /\ calls[1] = c /\ stack' = calls \o Tail(stack)
  OBVIOUS
<1>2. added \in Seq(Item) /\ Range(added) = {item} /\ Children(added) \subseteq DOMAIN jobs
  <2>1. added \in Seq(Item) /\ Range(added) = {item}
    BY DEF Range
  <2> HIDE DEF added
  <2> QED
    BY <2>1 DEF Children
<1>3. GetsOn(j, added, out, rest)
  OBVIOUS
<1> HIDE DEF calls, added
<1>4. Range(calls) = {c}
  BY <1>1 DEF Range
<1>5. /\ On = {Head(stack)} \cup Below /\ On' = {c} \cup Below /\ Head(stack) \in On
      /\ FeedOK(Head(stack))
      /\ \A b \in Below : FeedOK(b) /\ Over(Head(stack), b)
  BY <1>1, <1>4, HeadIs, Turned
<1>6. Running(j) /\ ~jobs[j].closed /\ j \notin timers
  BY <1>5 DEF FeedOK, FeedOps
<1>7. JobsKept /\ PipesKept /\ StatesGoOn
  BY <1>3, <1>6 DEF JobsKept, PipesKept, StatesGoOn, Kept, Running, GetsOn
<1>8. \A i \in DOMAIN jobs : jobs'[i].state = jobs[i].state /\ jobs'[i].parent = jobs[i].parent
        /\ (jobs'[i].closed <=> jobs[i].closed) /\ jobs'[i].pipe = jobs[i].pipe
        /\ jobs'[i].kind = jobs[i].kind
  BY <1>3, <1>6 DEF Kept, Running, GetsOn
<1>9. JobsOK'
  <2>1. \A i \in DOMAIN jobs \ {j} : Running(i) => pipes'[jobs[i].pipe] = pipes[jobs[i].pipe]
    <3> SUFFICES ASSUME NEW i \in DOMAIN jobs \ {j}, Running(i) PROVE jobs[i].pipe \in DOMAIN pipes \ {p}
      OBVIOUS
    <3>1. RunningOK(i) /\ RunningOK(j) /\ jobs[i].pipe \in DOMAIN pipes
      BY Typed
    <3> QED
      BY <3>1, <1>6 DEF RunningOK
  <2>2. jobs \in Seq(Job) /\ pipes \in Seq(PipeRecord) /\ JobsOK
    BY DEF IInv, TypeOK
  <2>3. (JobOK(j) /\ RunningOK(j) /\ EndedOK(j) /\ TailOK(j))'
    <3>1. ~Ends(j) /\ \A i \in DOMAIN jobs : jobs[i].state = "done" => jobs'[i].state = "done"
      BY <1>6, <1>8 DEF Ends
    <3> QED
      BY <1>2, <1>3, <1>6, <2>2, <3>1, JobGetsOn
  <2>4. /\ \A i \in DOMAIN jobs : jobs[i].state = "done" => jobs'[i].state = "done"
        /\ \A i \in {j} \cap DOMAIN (jobs') : (JobOK(i) /\ RunningOK(i) /\ EndedOK(i) /\ TailOK(i))'
        /\ \A q \in DOMAIN pipes : pipes'[q].key = pipes[q].key
    BY <1>7, <1>8, <2>3 DEF PipesKept
  <2> QED
    BY <2>1, <2>2, <2>4, JobsStay
<1>10. \A i \in DOMAIN jobs : \A x \in DOMAIN jobs :
         jobs[x].state # "done" /\ <<"child", x>> \in Range(jobs[i].waiting)
            => <<"child", x>> \in Range(jobs'[i].waiting)
  <2> SUFFICES ASSUME NEW x \in DOMAIN jobs, jobs[x].state # "done",
                      <<"child", x>> \in Range(jobs[j].waiting)
               PROVE  <<"child", x>> \in Range(rest)
    BY <1>3 DEF GetsOn
  <2>1. PICK w \in Seq(Item) : w = jobs[j].waiting
    BY Typed
  <2>2. w \o added = out \o rest /\ x \notin Children(out) /\ <<"child", x>> \in Range(w)
    BY <1>3, <2>1 DEF GetsOn
  <2> QED
    BY <1>2, <2>2, StaysPending
<1>11. /\ \A d \in Range(calls) : (FeedOK(d) /\ EndOK(d) /\ HeardOK(d) /\ ResultOK(d) /\ ResetOK(d))'
       /\ \A i \in DOMAIN calls : \A b \in Below : Over(Head(stack), b) => Over(calls[i], b)'
       /\ \A k \in DOMAIN calls : \A i \in 1..(k - 1) : Over(calls[i], calls[k])'
  <2>1. (FeedOK(c) /\ EndOK(c) /\ HeardOK(c) /\ ResultOK(c) /\ ResetOK(c))'
    BY <1>6, <1>8 DEF FeedOK, EndOK, HeardOK, ResultOK, ResetOK, FeedOps, EndOps, HeardOps, Running
  <2>2. ASSUME NEW b \in Below, Over(Head(stack), b) PROVE Over(c, b)'
    <3>1. Gentle(Head(stack)) => Gentle(c)'
      BY <1>7 DEF Gentle, FeedOps, JobsKept, Kept
    <3> QED
      BY <2>2, <3>1 DEF Over, FeedOps, ResetOps, HeardOps
  <2> QED
    BY <1>1, <1>4, <2>1, <2>2
<1>12. ASSUME NEW i \in DOMAIN jobs
       PROVE  (AtEnd(i) => AtEnd(i)') /\ (HeardBy(i) => HeardBy(i)') /\ (Fed(i) => Fed(i)')
  <2>1. (AtEnd(i) => AtEnd(i)') /\ (HeardBy(i) => HeardBy(i)')
    BY <1>5, <1>8, AtEndStays DEF EndOps, HeardOps
  <2>2. CASE i = j
    BY <1>5, <2>1, <2>2 DEF Fed
  <2>3. CASE i # j
    BY <1>5, <2>1, <2>3, FedStays
  <2> QED
    BY <2>2, <2>3
<1>13. ControlOK'
  <2> SUFFICES ASSUME NEW i \in DOMAIN jobs, Running(i)'
               PROVE  (IF jobs[i].closed THEN jobs[i].waiting = <<>> => AtEnd(i) ELSE Fed(i))'
    BY DEF ControlOK
  <2>1. CASE i = j
    BY <1>5, <2>1 DEF Fed
  <2>2. CASE i # j
    BY <1>8, <1>12, <2>2 DEF IInv, ControlOK, Running
  <2> QED
    BY <2>1, <2>2
<1>14. ParentsWait'
  <2> SUFFICES ASSUME NEW x \in DOMAIN jobs, jobs[x].parent # 0, jobs[x].state # "done"
               PROVE  WaitedFor(x)'
    BY <1>8 DEF ParentsWait
  <2>1. WaitedFor(x) /\ jobs[x].parent \in DOMAIN jobs
    BY ParentIsJob DEF IInv, ParentsWait
  <2>2. CASE Head(stack).op = "transformed" /\ Head(stack).arg = <<x>> /\ jobs[x].parent = j
    <3>1. item[1] = "child" /\ item[2] = x /\ item = <<"child", x>>
      <4>1. item[1] = "child" /\ <<item[2]>> = <<x>>
        BY <2>2
      <4>2. item[2] = x
        BY <4>1
      <4> QED
        BY <4>1, <4>2 DEF Item
    <3>2. PICK w \in Seq(Item) : w = jobs[j].waiting
      BY Typed
    <3>3. w \o added = out \o rest /\ x \notin Children(out) /\ <<"child", x>> \in Range(added)
      BY <1>2, <1>3, <3>1, <3>2 DEF GetsOn
    <3>4. <<"child", x>> \in Range(rest)
      BY <1>2, <3>3, StaysPending
    <3>5. jobs'[x].parent = j /\ jobs'[j].waiting = rest
      BY <1>3, <1>8, <2>2 DEF GetsOn
    <3> QED
      BY <3>4, <3>5 DEF WaitedFor
  <2>3. CASE ~(Head(stack).op = "transformed" /\ Head(stack).arg = <<x>> /\ jobs[x].parent = j)
    <3>1. CASE <<"child", x>> \in Range(jobs[jobs[x].parent].waiting)
      BY <1>8, <1>10, <2>1, <3>1 DEF WaitedFor
    <3>2. CASE <<"child", x>> \notin Range(jobs[jobs[x].parent].waiting)
      <4>1. PICK d \in On :
              /\ \/ d.op = "transformed" /\ d.of = jobs[x].parent
                 \/ d.op = "transformedAgain" /\ jobs[d.of].parent = jobs[x].parent
              /\ d.arg = <<x>>
        BY <2>1, <3>2 DEF WaitedFor
      <4>2. d \in On'
        BY <1>5, <2>3, <4>1
      <4>3. d.op = "transformedAgain" => jobs'[d.of].parent = jobs[d.of].parent
        BY <1>8 DEF IInv, CallsOK, ResultOK
      <4>4. \/ d.op = "transformed" /\ d.of = jobs'[x].parent
            \/ d.op = "transformedAgain" /\ jobs'[d.of].parent = jobs'[x].parent
        BY <1>8, <4>1, <4>3
      <4> QED
        BY <4>1, <4>2, <4>4 DEF WaitedFor
    <3> QED
      BY <3>1, <3>2
  <2> QED
    BY <2>2, <2>3
<1>15. TimersOK' /\ SettledOK' /\ timers' \in SUBSET (DOMAIN jobs) /\ settled' \in SUBSET (DOMAIN jobs)
  <2>1. timers \subseteq DOMAIN jobs /\ settled \subseteq DOMAIN jobs /\ TimersOK /\ SettledOK
    BY DEF IInv, TypeOK
  <2>2. TimersOK'
    BY <1>8, <2>1 DEF TimersOK, Running
  <2> QED
    BY <1>8, <2>1, <2>2 DEF SettledOK
<1>16. ASSUME NEW b \in Below
       PROVE  /\ b.op = "transformed" =>
                  jobs'[b.of].state = "running" /\ ~jobs'[b.of].closed /\ b.of \notin timers'
              /\ b.op = "transformedAgain" =>
                  /\ jobs'[b.of].state = "called" /\ b.of \notin settled'
                  /\ <<"child", b.of>> \in Range(jobs'[jobs[b.of].parent].waiting)
  <2>1. CASE b.op = "transformed"
    BY <1>8, <2>1, Waiting
  <2>2. CASE b.op = "transformedAgain"
    BY <1>8, <1>10, <2>2, Waiting
  <2> QED
    BY <2>1, <2>2
<1> QED
  BY <1>1, <1>7, <1>9, <1>11, <1>12, <1>13, <1>14, <1>15, <1>16, Goes

WithItem(j, item) == [P!AddItem(jobs, j, item) EXCEPT ![j].left = @ - 1]
ItemIsAdded(js, j, item) ==
    /\ js \in Seq(Job) /\ DOMAIN js = DOMAIN jobs
    /\ \A i \in DOMAIN jobs \ {j} : js[i] = jobs[i]
    /\ Kept(js[j], jobs[j]) /\ js[j].closed = jobs[j].closed /\ js[j].state = jobs[j].state
    /\ js[j].items = jobs[j].items \o <<item>> /\ js[j].waiting = jobs[j].waiting
    /\ js[j].got = jobs[j].got
LEMMA ItemAdded ==
    ASSUME jobs \in Seq(Job), NEW j \in DOMAIN jobs, NEW item \in Item
    PROVE  ItemIsAdded(WithItem(j, item), j, item)
<1> DEFINE its == Append(jobs[j].items, item)
           v == [jobs[j] EXCEPT !.items = its]
           w == [v EXCEPT !.left = @ - 1]
           js1 == [jobs EXCEPT ![j] = v]
<1>1. jobs[j] \in Job
  OBVIOUS
<1>2. its \in Seq(Item) /\ its = jobs[j].items \o <<item>>
  <2>1. jobs[j].items \in Seq(Item)
    BY <1>1 DEF Job
  <2>2. its \in Seq(Item)
    BY <2>1
  <2>3. its = jobs[j].items \o <<item>>
    BY <2>1, AppendIsConcat
  <2> QED
    BY <2>2, <2>3
<1>3. P!AddItem(jobs, j, item) = js1
  BY DEF P!AddItem
<1> HIDE DEF its
<1>4. /\ v \in Job /\ Kept(v, jobs[j]) /\ v.closed = jobs[j].closed /\ v.state = jobs[j].state
      /\ v.items = its /\ v.waiting = jobs[j].waiting /\ v.got = jobs[j].got
  BY <1>1, <1>2 DEF Job, Kept
<1> HIDE DEF v
<1>5. /\ w \in Job /\ Kept(w, v) /\ w.closed = v.closed /\ w.state = v.state
      /\ w.items = v.items /\ w.waiting = v.waiting /\ w.got = v.got
  <2>1. v.left - 1 \in Int
    BY <1>4 DEF Job
  <2> DEFINE n == v.left - 1
  <2>2. w = [v EXCEPT !.left = n]
    OBVIOUS
  <2> HIDE DEF n, w
  <2> QED
    BY <1>4, <2>1, <2>2 DEF Job, Kept, n
<1>6. /\ js1 \in Seq(Job) /\ DOMAIN js1 = DOMAIN jobs /\ js1[j] = v
      /\ \A i \in DOMAIN jobs \ {j} : js1[i] = jobs[i]
  BY <1>4, ReplacedInSeq
<1> HIDE DEF js1
<1>7. WithItem(j, item) = [js1 EXCEPT ![j] = w]
  BY <1>3, <1>6 DEF WithItem
<1> HIDE DEF w
<1> DEFINE js == WithItem(j, item)
<1> HIDE DEF js
<1>8. /\ js \in Seq(Job) /\ DOMAIN js = DOMAIN js1 /\ js[j] = w
      /\ \A i \in DOMAIN js1 \ {j} : js[i] = js1[i]
  BY <1>5, <1>6, <1>7, ReplacedInSeq DEF js
<1> QED
  BY <1>2, <1>4, <1>5, <1>6, <1>8 DEF Kept, js, ItemIsAdded

LEMMA NextCallIs ==
    ASSUME IInv, NEW j \in DOMAIN jobs, NEW left
    PROVE  \E c \in CallRecord :
            /\ P!NextCall(j, left) = <<c>> /\ c.of = j /\ c.op \in FeedOps
            /\ c.op = "setImmediate" => P!Tokenizes(P!Recipe(jobs[j].kind))
<1> DEFINE op == IF left = 0 THEN "onEndEvent"
                 ELSE IF P!Tokenizes(P!RecipeOf(P!Pipe(j))) THEN "setImmediate" ELSE "chunk"
           c == P!Call(op, j)
<1>1. op \in FeedOps /\ (op = "setImmediate" => P!Tokenizes(P!Recipe(jobs[j].kind)))
  <2>1. P!RecipeOf(P!Pipe(j)) = P!Recipe(jobs[j].kind)
    <3>1. JobOK(j)
      BY Typed
    <3> QED
      BY <3>1 DEF P!RecipeOf, P!Pipe, JobOK
  <2> QED
    BY <2>1 DEF FeedOps
<1>2. P!NextCall(j, left) = <<c>>
  BY DEF P!NextCall
<1> HIDE DEF op
<1>3. c \in CallRecord /\ c.of = j /\ c.op = op
  <2>1. <<>> \in Seq(Item) /\ j \in Nat
    BY Typed
  <2> QED
    BY <1>1, <2>1 DEF P!Call, CallRecord, Ops
<1> QED
  BY <1>1, <1>2, <1>3

\* An item that is ready goes to the tail of what is pending, or out.
LEMMA Appends ==
    ASSUME IInv, stack # <<>>, Head(stack).op \in {"chunk", "transformed"},
           cache' = cache, timers' = timers, settled' = settled,
           NEW j, j = Head(stack).of,
           NEW item \in Item, item[1] = "child" => item[2] \in DOMAIN jobs, P!Ready(jobs, item),
           Head(stack).op = "transformed" => Head(stack).arg = <<item[2]>> /\ item[1] = "child",
           NEW js, js = WithItem(j, item),
           P!Becomes(P!AppendTail(js, pipes, j, item)),
           P!Then(P!NextCall(j, js[j].left))
    PROVE  IInv'
<1>2. j \in DOMAIN jobs /\ Running(j) /\ ~jobs[j].closed
  BY HeadIs DEF FeedOK, FeedOps
<1>3. PICK p \in DOMAIN pipes : p = jobs[j].pipe
  BY <1>2, Typed
<1>4. User(p) = j /\ JobOK(j) /\ RunningOK(j) /\ TailOK(j)
  BY <1>2, <1>3, Typed DEF RunningOK
<1>5. jobs \in Seq(Job) /\ pipes \in Seq(PipeRecord)
  BY Typed
<1>6. ItemIsAdded(js, j, item)
  BY <1>2, <1>5, ItemAdded
<1>7. PICK c \in CallRecord :
        /\ P!NextCall(j, js[j].left) = <<c>> /\ c.of = j /\ c.op \in FeedOps
        /\ c.op = "setImmediate" => P!Tokenizes(P!Recipe(jobs[j].kind))
  BY <1>2, NextCallIs
<1>8. stack' = <<c>> \o Tail(stack)
  BY <1>7 DEF P!Then
<1>9. js[j].pipe = p /\ js[j].waiting \in Seq(Item) /\ Children(js[j].waiting) \subseteq DOMAIN js
  BY <1>2, <1>3, <1>6, ChildrenAreJobs, Typed DEF ItemIsAdded, Kept
<1>10. pipes[p].tail \/ js[j].waiting = <<>>
  BY <1>2, <1>3, <1>4, <1>6 DEF TailOK, ItemIsAdded
<1>11. P!Ready(js, item)
  BY <1>2, <1>6 DEF P!Ready, ItemIsAdded
<1> DEFINE r == P!AppendTail(js, pipes, j, item)
<1>12. PICK out \in Seq(Item), rest \in Seq(Item) :
        /\ Append(js[j].waiting, item) = out \o rest
        /\ AllReady(js, out)
        /\ Took(js, pipes, j, out, rest, r)
        /\ rest # <<>> => pipes[p].tail
  <2>1. js \in Seq(Job) /\ j \in DOMAIN js /\ pipes[p].user = j
        /\ (item[1] = "child" => item[2] \in DOMAIN js)
    BY <1>2, <1>4, <1>6 DEF ItemIsAdded, User
  <2> QED
    BY <1>3, <1>5, <1>9, <1>10, <1>11, <2>1, AppendTailIs
<1> HIDE DEF r
<1>13. jobs' = r.js /\ pipes' = r.ps
  BY DEF P!Becomes, r
<1> DEFINE one == <<item>>
<1>14. /\ one \in Seq(Item) /\ Range(one) = {item} /\ Children(one) \subseteq DOMAIN jobs
       /\ jobs[j].waiting \o one = out \o rest
  <2>1. one \in Seq(Item) /\ Range(one) = {item}
    BY DEF Range
  <2>2. jobs[j].waiting \in Seq(Item) /\ js[j].waiting = jobs[j].waiting
    BY <1>2, <1>6, Typed DEF ItemIsAdded
  <2>3. jobs[j].waiting \o one = Append(jobs[j].waiting, item)
    BY <2>2, AppendIsConcat
  <2> HIDE DEF one
  <2>4. Children(one) \subseteq DOMAIN jobs
    BY <2>1 DEF Children
  <2> QED
    BY <1>12, <2>1, <2>2, <2>3, <2>4
<1>15. ASSUME NEW x \in Children(out)
       PROVE  x \in DOMAIN jobs /\ jobs[x].state = "done"
  <2> HIDE DEF one
  <2>1. PICK w \in Seq(Item) : w = jobs[j].waiting
    BY <1>2, Typed
  <2>2. Children(w) \cup Children(one) = Children(out) \cup Children(rest)
    <3>1. Children(w \o one) = Children(w) \cup Children(one)
      BY <1>14, ChildrenOfBoth
    <3>2. Children(out \o rest) = Children(out) \cup Children(rest)
      BY ChildrenOfBoth
    <3> QED
      BY <1>14, <2>1, <3>1, <3>2
  <2>3. x \in DOMAIN jobs
    BY <1>2, <1>14, <2>1, <2>2, ChildrenAreJobs
  <2>4. js[x].state = "done"
    <3>1. PICK i \in Range(out) : i[1] = "child" /\ i[2] = x
      BY DEF Children
    <3> QED
      BY <1>12, <3>1 DEF AllReady, P!Ready
  <2> QED
    BY <1>6, <2>3, <2>4 DEF ItemIsAdded
<1>16. P!MakesDocument(pipes[p].key[1]) <=> ToDocument(j)
  BY <1>3, <1>4 DEF JobOK, ToDocument
<1>17. /\ jobs' \in Seq(Job) /\ DOMAIN (jobs') = DOMAIN jobs
       /\ \A i \in DOMAIN jobs \ {j} : jobs'[i] = jobs[i]
       /\ Kept(jobs'[j], jobs[j]) /\ jobs'[j].state = "running" /\ ~jobs'[j].closed
       /\ jobs'[j].items = jobs[j].items \o one /\ jobs'[j].waiting = rest
       /\ jobs'[j].got = IF ToDocument(j) THEN jobs[j].got ELSE jobs[j].got \o out
  <2>1. /\ jobs' \in Seq(Job) /\ DOMAIN (jobs') = DOMAIN js
        /\ \A i \in DOMAIN js \ {j} : jobs'[i] = js[i]
        /\ Kept(jobs'[j], js[j]) /\ jobs'[j].state = js[j].state /\ jobs'[j].closed = js[j].closed
        /\ jobs'[j].items = js[j].items /\ jobs'[j].waiting = rest
        /\ jobs'[j].got = IF ToDocument(j) THEN js[j].got ELSE js[j].got \o out
    BY <1>9, <1>12, <1>13, <1>16 DEF Took
  <2>2. /\ DOMAIN js = DOMAIN jobs /\ \A i \in DOMAIN jobs \ {j} : js[i] = jobs[i]
        /\ Kept(js[j], jobs[j]) /\ js[j].closed = jobs[j].closed /\ js[j].state = jobs[j].state
        /\ js[j].items = jobs[j].items \o one /\ js[j].got = jobs[j].got
    BY <1>6 DEF ItemIsAdded
  <2> QED
    BY <1>2, <2>1, <2>2 DEF Kept, Running
<1>18. /\ pipes' \in Seq(PipeRecord) /\ DOMAIN (pipes') = DOMAIN pipes
       /\ \A q \in DOMAIN pipes \ {p} : pipes'[q] = pipes[q]
       /\ pipes'[p].key = pipes[p].key /\ pipes'[p].frame = pipes[p].frame
       /\ pipes'[p].user = pipes[p].user /\ pipes'[p].tail = pipes[p].tail
       /\ pipes'[p].tree = IF ToDocument(j) THEN pipes[p].tree \o out ELSE pipes[p].tree
  BY <1>9, <1>12, <1>13, <1>16 DEF Took
<1>19. GetsOn(j, one, out, rest)
  <2> HIDE DEF one
  <2>1. \A x \in Children(out) : jobs'[x].state = "done"
    BY <1>2, <1>15, <1>17 DEF Running
  <2> QED
    BY <1>3, <1>12, <1>14, <1>17, <1>18, <2>1 DEF GetsOn
<1> QED
  BY <1>2, <1>3, <1>7, <1>8, <1>15, <1>17, <1>18, <1>19, Feeds

LEMMA ChunkKeeps == ASSUME IInv, P!Chunk PROVE IInv'
<1> PICK j : j = Head(stack).of
  OBVIOUS
<1> PICK item : item = <<"chunk", jobs[j].left>>
  OBVIOUS
<1> PICK js : js = WithItem(j, item)
  OBVIOUS
<1>0. P!Becomes(P!AppendTail(js, pipes, j, item)) /\ P!Then(P!NextCall(j, js[j].left))
  BY DEF P!Chunk, WithItem
<1>1. /\ stack # <<>> /\ Head(stack).op = "chunk"
      /\ cache' = cache /\ timers' = timers /\ settled' = settled
  BY DEF P!Chunk
<1>2. j \in DOMAIN jobs
  BY <1>1, HeadIs DEF FeedOK, FeedOps
<1>3. item \in Item /\ item[1] = "chunk" /\ P!Ready(jobs, item)
  <2>1. jobs[j] \in Job
    BY <1>2, Typed
  <2>2. jobs[j].left \in Int
    BY <2>1 DEF Job
  <2> QED
    BY <2>2 DEF Item, P!Ready
<1> QED
  BY <1>0, <1>1, <1>2, <1>3, Appends

LEMMA TransformedKeeps == ASSUME IInv, P!Transformed PROVE IInv'
<1> PICK j, c : j = Head(stack).of /\ c = Head(stack).arg[1]
  OBVIOUS
<1> PICK item : item = <<"child", c>>
  OBVIOUS
<1> PICK js : js = WithItem(j, item)
  OBVIOUS
<1>0. /\ IF jobs[c].state = "done" THEN P!Becomes(P!AppendTail(js, pipes, j, item))
         ELSE /\ jobs' = [js EXCEPT ![j].waiting = Append(@, item)]
              /\ pipes' = [pipes EXCEPT ![P!Pipe(j)].tail = TRUE]
      /\ P!Then(P!NextCall(j, js[j].left))
  BY DEF P!Transformed, WithItem
<1>1. /\ stack # <<>> /\ Head(stack).op = "transformed"
      /\ cache' = cache /\ timers' = timers /\ settled' = settled
  BY DEF P!Transformed
<1>2. /\ j \in DOMAIN jobs /\ Running(j) /\ ~jobs[j].closed
      /\ c \in DOMAIN jobs /\ Head(stack).arg = <<c>>
  <2>1. FeedOK(Head(stack))
    BY <1>1, HeadIs
  <2>2. PICK x \in DOMAIN jobs : Head(stack).arg = <<x>>
    BY <1>1, <2>1 DEF FeedOK
  <2>3. x = c
    BY <2>2
  <2> QED
    BY <1>1, <2>1, <2>2, <2>3 DEF FeedOK
<1>3. item \in Item /\ item[1] = "child" /\ item[2] = c /\ Head(stack).arg = <<item[2]>>
  <2>1. c \in Nat
    BY <1>2, Typed
  <2> QED
    BY <1>2, <2>1 DEF Item
<1>4. CASE jobs[c].state = "done"
  <2>1. P!Ready(jobs, item)
    BY <1>3, <1>4 DEF P!Ready
  <2> QED
    BY <1>0, <1>1, <1>2, <1>3, <1>4, <2>1, Appends
<1>5. CASE jobs[c].state # "done"
  <2>1. PICK p \in DOMAIN pipes : p = jobs[j].pipe
    BY <1>2, Typed
  <2>2. ItemIsAdded(js, j, item)
    BY <1>2, <1>3, ItemAdded, Typed
  <2>3. PICK d \in CallRecord :
          /\ P!NextCall(j, js[j].left) = <<d>> /\ d.of = j /\ d.op \in FeedOps
          /\ d.op = "setImmediate" => P!Tokenizes(P!Recipe(jobs[j].kind))
    BY <1>2, NextCallIs
  <2>4. stack' = <<d>> \o Tail(stack)
    BY <1>0, <2>3 DEF P!Then
  <2> DEFINE one == <<item>>
             none == <<>>
  <2>5. /\ one \in Seq(Item) /\ Range(one) = {item} /\ none \in Seq(Item) /\ Range(none) = {}
    BY <1>3 DEF Range
  <2>6. PICK rest \in Seq(Item) : rest = Append(js[j].waiting, item) /\ rest = jobs[j].waiting \o one
        /\ rest = none \o rest /\ rest # <<>>
    <3>1. jobs[j].waiting \in Seq(Item) /\ js[j].waiting = jobs[j].waiting
      BY <1>2, <2>2, Typed DEF ItemIsAdded
    <3>2. Append(jobs[j].waiting, item) = jobs[j].waiting \o one
      BY <1>3, <3>1, AppendIsConcat
    <3>3. Append(jobs[j].waiting, item) \in Seq(Item) /\ Append(jobs[j].waiting, item) # <<>>
      <4>1. \A w \in Seq(Item) : Append(w, item) \in Seq(Item) /\ Append(w, item) # <<>>
        BY <1>3
      <4> QED
        BY <3>1, <4>1
    <3>4. \A s \in Seq(Item) : none \o s = s
      OBVIOUS
    <3> QED
      BY <3>1, <3>2, <3>3, <3>4
  <2> HIDE DEF one, none
  <2>7. /\ jobs' \in Seq(Job) /\ DOMAIN (jobs') = DOMAIN jobs
        /\ \A i \in DOMAIN jobs \ {j} : jobs'[i] = jobs[i]
        /\ Kept(jobs'[j], jobs[j]) /\ jobs'[j].state = "running" /\ ~jobs'[j].closed
        /\ jobs'[j].items = jobs[j].items \o one /\ jobs'[j].waiting = rest
        /\ jobs'[j].got = jobs[j].got
    <3> DEFINE v == [js[j] EXCEPT !.waiting = rest]
    <3>1. /\ js \in Seq(Job) /\ js[j] \in Job /\ DOMAIN js = DOMAIN jobs
          /\ \A i \in DOMAIN jobs \ {j} : js[i] = jobs[i]
          /\ Kept(js[j], jobs[j]) /\ js[j].closed = jobs[j].closed /\ js[j].state = jobs[j].state
          /\ js[j].items = jobs[j].items \o one /\ js[j].got = jobs[j].got
      <4>1. js \in Seq(Job) /\ DOMAIN js = DOMAIN jobs
        BY <2>2 DEF ItemIsAdded
      <4>2. js[j] \in Job
        BY <1>2, <4>1
      <4> QED
        BY <2>2, <4>1, <4>2 DEF ItemIsAdded, one
    <3>2. v \in Job /\ Kept(v, js[j]) /\ v.closed = js[j].closed /\ v.state = js[j].state
          /\ v.items = js[j].items /\ v.waiting = rest /\ v.got = js[j].got
      <4>1. js[j] \in Job /\ rest \in Seq(Item)
        BY <3>1
      <4>2. v \in Job
        BY ONLY <4>1 DEF Job
      <4>3. v.closed = js[j].closed /\ v.state = js[j].state /\ v.items = js[j].items
            /\ v.waiting = rest /\ v.got = js[j].got
        BY ONLY <4>1 DEF Job
      <4>4. Kept(v, js[j])
        BY ONLY <4>1 DEF Job, Kept
      <4> QED
        BY ONLY <4>2, <4>3, <4>4
    <3>3. jobs' = [js EXCEPT ![j] = v]
      BY <1>0, <1>5, <2>6
    <3> HIDE DEF v
    <3>4. /\ jobs' \in Seq(Job) /\ DOMAIN (jobs') = DOMAIN js /\ jobs'[j] = v
          /\ \A i \in DOMAIN js \ {j} : jobs'[i] = js[i]
      BY <1>2, <3>1, <3>2, <3>3, ReplacedInSeq
    <3> QED
      BY <1>2, <3>1, <3>2, <3>4 DEF Kept, Running
  <2>8. /\ pipes' \in Seq(PipeRecord) /\ DOMAIN (pipes') = DOMAIN pipes
        /\ \A q \in DOMAIN pipes \ {p} : pipes'[q] = pipes[q]
        /\ pipes'[p].key = pipes[p].key /\ pipes'[p].frame = pipes[p].frame
        /\ pipes'[p].user = pipes[p].user /\ pipes'[p].tail
        /\ pipes'[p].tree = pipes[p].tree
    <3> DEFINE v == [pipes[p] EXCEPT !.tail = TRUE]
    <3>1. pipes \in Seq(PipeRecord) /\ pipes[p] \in PipeRecord
      BY Typed
    <3>2. /\ v \in PipeRecord /\ v.key = pipes[p].key /\ v.frame = pipes[p].frame
          /\ v.user = pipes[p].user /\ v.tail /\ v.tree = pipes[p].tree
      BY <3>1 DEF PipeRecord
    <3>3. pipes' = [pipes EXCEPT ![p] = v]
      BY <1>0, <1>5, <2>1 DEF P!Pipe
    <3> HIDE DEF v
    <3>4. /\ pipes' \in Seq(PipeRecord) /\ DOMAIN (pipes') = DOMAIN pipes /\ pipes'[p] = v
          /\ \A q \in DOMAIN pipes \ {p} : pipes'[q] = pipes[q]
      BY <3>1, <3>2, <3>3, ReplacedInSeq
    <3> QED
      BY <3>2, <3>4
  <2>9. \A s \in Seq(Item) : s \o none = s
    BY DEF none
  <2>10. Children(one) = {c} /\ Children(none) = {}
    BY <1>3, <2>5 DEF Children
  <2>11. GetsOn(j, one, none, rest)
    <3>1. jobs[j].got \o none = jobs[j].got /\ pipes[p].tree \o none = pipes[p].tree
      BY <1>2, <2>1, <2>9, Typed
    <3> QED
      BY <1>2, <2>1, <2>6, <2>7, <2>8, <2>10, <3>1 DEF GetsOn
  <2> QED
    BY <1>1, <1>2, <1>3, <2>1, <2>3, <2>4, <2>5, <2>7, <2>8, <2>10, <2>11, Feeds DEF one
<1> QED
  BY <1>4, <1>5

\* A result has gone to where it belongs.
LEMMA Finishes ==
    ASSUME IInv, stack # <<>>, Head(stack).op = "result",
           cache' = cache, timers' = timers, settled' = settled,
           NEW j \in DOMAIN jobs, j = Head(stack).of,
           jobs' \in Seq(Job), pipes' \in Seq(PipeRecord), DOMAIN (jobs') = DOMAIN jobs,
           PipesKept, JobsOK',
           \A i \in DOMAIN jobs :
            /\ Kept(jobs'[i], jobs[i]) /\ (jobs'[i].closed <=> jobs[i].closed)
            /\ jobs'[i].state = IF i = j THEN "done" ELSE jobs[i].state,
           \A i \in DOMAIN jobs : \A x \in DOMAIN jobs \ {j} :
            jobs[x].state # "done" /\ <<"child", x>> \in Range(jobs[i].waiting)
                => <<"child", x>> \in Range(jobs'[i].waiting),
           \A i \in DOMAIN jobs : Running(i) /\ jobs[i].closed /\ jobs'[i].waiting = <<>>
                => jobs[i].waiting = <<>> \/ AtEnd(i)',
           NEW calls \in Seq(CallRecord), stack' = calls \o Tail(stack),
           \A c \in Range(calls) : (FeedOK(c) /\ EndOK(c) /\ HeardOK(c) /\ ResultOK(c) /\ ResetOK(c))',
           \A i \in DOMAIN calls : \A b \in Below : Over(Head(stack), b) => Over(calls[i], b)',
           \A k \in DOMAIN calls : \A i \in 1..(k - 1) : Over(calls[i], calls[k])'
    PROVE  IInv'
<1>1. /\ On = {Head(stack)} \cup Below /\ On' = Range(calls) \cup Below /\ Head(stack) \in On
      /\ ResultOK(Head(stack))
      /\ \A b \in Below : ResultOK(b) /\ FeedOK(b) /\ Over(Head(stack), b)
  BY HeadIs, Turned
<1>2. jobs[j].state = "called" /\ j \notin settled /\ Below \subseteq On'
  BY <1>1 DEF ResultOK
<1>3. JobsKept
  BY DEF JobsKept
<1>4. \A i \in DOMAIN jobs : (Running(i)' <=> Running(i)) /\ (Running(i) => i # j)
  BY <1>2 DEF Running
<1>5. StatesGoOn
  BY <1>4 DEF StatesGoOn
<1>6. ASSUME NEW i \in DOMAIN jobs
      PROVE  (AtEnd(i) => AtEnd(i)') /\ (HeardBy(i) => HeardBy(i)') /\ (Fed(i) => Fed(i)')
  <2>1. jobs'[i].pipe = jobs[i].pipe
    BY DEF Kept
  <2> QED
    BY <1>1, <1>2, <2>1, AtEndStays, FedStays DEF EndOps, HeardOps, FeedOps
<1>7. ControlOK'
  <2> SUFFICES ASSUME NEW i \in DOMAIN jobs, Running(i)
               PROVE  (IF jobs[i].closed THEN jobs[i].waiting = <<>> => AtEnd(i) ELSE Fed(i))'
    BY <1>4 DEF ControlOK
  <2>1. IF jobs[i].closed THEN jobs[i].waiting = <<>> => AtEnd(i) ELSE Fed(i)
    BY DEF IInv, ControlOK
  <2> QED
    BY <1>6, <2>1
<1>8. ParentsWait'
  <2> SUFFICES ASSUME NEW x \in DOMAIN jobs \ {j}, jobs[x].parent # 0, jobs[x].state # "done"
               PROVE  WaitedFor(x)'
    BY DEF ParentsWait, Kept
  <2>1. WaitedFor(x) /\ jobs[x].parent \in DOMAIN jobs
    BY ParentIsJob DEF IInv, ParentsWait
  <2>2. <<"child", x>> \in Range(jobs[jobs[x].parent].waiting)
            => <<"child", x>> \in Range(jobs'[jobs[x].parent].waiting)
    BY <2>1
  <2> QED
    BY <1>1, <1>2, <1>3, <2>1, <2>2, WaitedStays DEF IInv
<1>9. timers \in SUBSET (DOMAIN jobs) /\ settled \in SUBSET (DOMAIN jobs) /\ TimersOK /\ SettledOK
  BY DEF IInv, TypeOK
<1>10. TimersOK' /\ SettledOK'
  BY <1>2, <1>4, <1>9 DEF TimersOK, SettledOK, Kept
<1>11. ASSUME NEW b \in Below
       PROVE  /\ b.op = "transformed" =>
                  jobs'[b.of].state = "running" /\ ~jobs'[b.of].closed /\ b.of \notin timers'
              /\ b.op = "transformedAgain" =>
                  /\ jobs'[b.of].state = "called" /\ b.of \notin settled'
                  /\ <<"child", b.of>> \in Range(jobs'[jobs[b.of].parent].waiting)
  <2>1. CASE b.op = "transformed"
    BY <1>2, <2>1, Waiting
  <2>2. CASE b.op = "transformedAgain"
    <3>1. b.of # j
      BY <1>1, <2>2 DEF Over
    <3> QED
      BY <3>1, <2>2, Waiting
  <2> QED
    BY <2>1, <2>2
<1>12. \A i \in DOMAIN jobs : Running(i)' => (AtEnd(i) => AtEnd(i)') /\ (HeardBy(i) => HeardBy(i)')
  BY <1>6
<1> QED
  BY <1>3, <1>5, <1>7, <1>8, <1>9, <1>10, <1>11, <1>12, Goes

IsDone(js, j) ==
    /\ js \in Seq(Job) /\ DOMAIN js = DOMAIN jobs
    /\ \A i \in DOMAIN jobs \ {j} : js[i] = jobs[i]
    /\ Kept(js[j], jobs[j]) /\ js[j].closed = jobs[j].closed /\ js[j].state = "done"
    /\ js[j].items = jobs[j].items /\ js[j].waiting = jobs[j].waiting
    /\ js[j].got = jobs[j].got
LEMMA DoneIs ==
    ASSUME jobs \in Seq(Job), NEW j \in DOMAIN jobs
    PROVE  IsDone([jobs EXCEPT ![j].state = "done"], j)
<1> DEFINE v == [jobs[j] EXCEPT !.state = "done"]
           js == [jobs EXCEPT ![j] = v]
<1>1. jobs[j] \in Job
  OBVIOUS
<1>2. /\ v \in Job /\ Kept(v, jobs[j]) /\ v.closed = jobs[j].closed /\ v.state = "done"
      /\ v.items = jobs[j].items /\ v.waiting = jobs[j].waiting /\ v.got = jobs[j].got
  BY <1>1 DEF Job, Kept
<1>3. [jobs EXCEPT ![j].state = "done"] = js
  OBVIOUS
<1> HIDE DEF v
<1>4. /\ js \in Seq(Job) /\ DOMAIN js = DOMAIN jobs /\ js[j] = v
      /\ \A i \in DOMAIN jobs \ {j} : js[i] = jobs[i]
  BY <1>2, ReplacedInSeq
<1> QED
  BY <1>2, <1>3, <1>4 DEF IsDone

LEMMA DoneJobOK ==
    ASSUME IInv, NEW j \in DOMAIN jobs, ~Running(j), jobs'[j].state = "done",
           Kept(jobs'[j], jobs[j]), jobs'[j].items = jobs[j].items,
           jobs'[j].waiting = jobs[j].waiting, jobs'[j].got = jobs[j].got,
           DOMAIN (jobs') = DOMAIN jobs, PipesKept
    PROVE  (JobOK(j) /\ RunningOK(j) /\ EndedOK(j) /\ TailOK(j))'
<1>1. JobOK(j) /\ EndedOK(j)
  BY Typed
<1>2. JobOK(j)'
  BY <1>1 DEF JobOK, Kept, PipesKept
<1> QED
  BY <1>1, <1>2 DEF RunningOK, EndedOK, TailOK, Running

\* Who has a result to come has a running job above him.
LEMMA ParentRuns ==
    ASSUME IInv, NEW j \in DOMAIN jobs, jobs[j].state # "done", NEW q, q = jobs[j].parent, q # 0
    PROVE  q \in DOMAIN jobs /\ q # j /\ Running(q) /\ ~Ends(q)
<1>1. q \in DOMAIN jobs /\ q < j /\ q \in Nat /\ j \in Nat
  BY ParentIsJob, Typed
<1>2. \A x : <<"child", x>> \in Range(jobs[q].waiting) => Running(q) /\ ~Ends(q)
  <2> SUFFICES ASSUME NEW x, <<"child", x>> \in Range(jobs[q].waiting)
               PROVE  Running(q) /\ ~Ends(q)
    OBVIOUS
  <2>1. jobs[q].waiting # <<>>
    BY DEF Range
  <2> QED
    BY <1>1, <2>1, Typed DEF EndedOK, Ends
<1>3. WaitedFor(j)
  BY DEF IInv, ParentsWait
<1>4. CASE \E c \in On : c.op = "transformed" /\ c.of = q
  <2>1. PICK c \in On : c.op = "transformed" /\ c.of = q
    BY <1>4
  <2>2. FeedOK(c)
    BY DEF IInv, CallsOK
  <2> QED
    BY <1>1, <2>1, <2>2 DEF FeedOK, Ends
<1>5. CASE \E c \in On : c.op = "transformedAgain" /\ jobs[c.of].parent = q
  <2>1. PICK c \in On : c.op = "transformedAgain" /\ jobs[c.of].parent = q
    BY <1>5
  <2>2. ResultOK(c)
    BY DEF IInv, CallsOK
  <2> QED
    BY <1>1, <1>2, <2>1, <2>2 DEF ResultOK
<1> QED
  BY <1>1, <1>2, <1>3, <1>4, <1>5 DEF WaitedFor

LEMMA ResultKeeps == ASSUME IInv, P!Result PROVE IInv'
<1> PICK j : j = Head(stack).of
  OBVIOUS
<1> PICK q : q = jobs[j].parent
  OBVIOUS
<1> PICK js : js = [jobs EXCEPT ![j].state = "done"]
  OBVIOUS
<1> PICK r : r = P!Drained(js, pipes, q)
  OBVIOUS
<1>0. IF q = 0 THEN jobs' = js /\ P!Then(<<>>) /\ pipes' = pipes
      ELSE /\ P!Becomes(r)
           /\ P!Then(IF r.js[q].closed /\ r.js[q].waiting = <<>> THEN P!EndCalls(P!Pipe(q)) ELSE <<>>)
  BY DEF P!Result
<1>1. /\ stack # <<>> /\ Head(stack).op = "result"
      /\ cache' = cache /\ timers' = timers /\ settled' = settled
  BY DEF P!Result
<1>2. /\ j \in DOMAIN jobs /\ jobs[j].state = "called" /\ ~Running(j)
      /\ jobs \in Seq(Job) /\ pipes \in Seq(PipeRecord)
  <2>1. ResultOK(Head(stack))
    BY <1>1, HeadIs
  <2> QED
    BY <1>1, <2>1, Typed DEF ResultOK, Running
<1>3. IsDone(js, j)
  BY <1>2, DoneIs
<1>4. CASE q = 0
  <2> PICK calls : calls = <<>>
    OBVIOUS
  <2>1. jobs' = js /\ pipes' = pipes /\ stack' = calls \o Tail(stack)
    BY <1>0, <1>4 DEF P!Then
  <2>2. PipesKept
    BY <2>1 DEF PipesKept
  <2>3. /\ jobs' \in Seq(Job) /\ DOMAIN (jobs') = DOMAIN jobs
        /\ \A i \in DOMAIN jobs \ {j} : jobs'[i] = jobs[i]
        /\ Kept(jobs'[j], jobs[j]) /\ jobs'[j].closed = jobs[j].closed /\ jobs'[j].state = "done"
        /\ jobs'[j].items = jobs[j].items /\ jobs'[j].waiting = jobs[j].waiting
        /\ jobs'[j].got = jobs[j].got
    BY <1>3, <2>1 DEF IsDone
  <2>4. (JobOK(j) /\ RunningOK(j) /\ EndedOK(j) /\ TailOK(j))'
    BY <1>2, <2>2, <2>3, DoneJobOK
  <2>5. \A i \in {j} \cap DOMAIN (jobs') : (JobOK(i) /\ RunningOK(i) /\ EndedOK(i) /\ TailOK(i))'
    BY <2>4
  <2>6. JobsOK'
    BY <1>2, <2>1, <2>3, <2>5, JobsStay DEF IInv
  <2>7. calls \in Seq(CallRecord) /\ Range(calls) = {} /\ DOMAIN calls = {}
    BY DEF Range
  <2>8. \A i \in DOMAIN jobs :
            /\ Kept(jobs'[i], jobs[i]) /\ (jobs'[i].closed <=> jobs[i].closed)
            /\ jobs'[i].state = IF i = j THEN "done" ELSE jobs[i].state
            /\ jobs'[i].waiting = jobs[i].waiting
    BY <2>3 DEF Kept
  <2>9. /\ \A i \in DOMAIN jobs : \A x \in DOMAIN jobs \ {j} :
            jobs[x].state # "done" /\ <<"child", x>> \in Range(jobs[i].waiting)
                => <<"child", x>> \in Range(jobs'[i].waiting)
        /\ \A i \in DOMAIN jobs : Running(i) /\ jobs[i].closed /\ jobs'[i].waiting = <<>>
                => jobs[i].waiting = <<>> \/ AtEnd(i)'
    BY <2>8
  <2>10. /\ \A d \in Range(calls) : (FeedOK(d) /\ EndOK(d) /\ HeardOK(d) /\ ResultOK(d) /\ ResetOK(d))'
         /\ \A i \in DOMAIN calls : \A b \in Below : Over(Head(stack), b) => Over(calls[i], b)'
         /\ \A k \in DOMAIN calls : \A i \in 1..(k - 1) : Over(calls[i], calls[k])'
    BY <2>7
  <2>11. pipes' \in Seq(PipeRecord)
    BY <1>2, <2>1
  <2> QED
    BY <1>1, <1>2, <2>1, <2>2, <2>3, <2>6, <2>7, <2>8, <2>9, <2>10, <2>11, Finishes
<1>5. CASE q # 0
  <2>1. q \in DOMAIN jobs /\ q # j /\ Running(q) /\ ~Ends(q)
    BY <1>2, <1>5, ParentRuns
  <2>2. PICK p \in DOMAIN pipes : p = jobs[q].pipe
    BY <2>1, Typed
  <2>3. User(p) = q /\ JobOK(q) /\ RunningOK(q) /\ TailOK(q) /\ jobs[q].waiting \in Seq(Item)
    BY <2>1, <2>2, Typed DEF RunningOK
  <2>4. js \in Seq(Job) /\ DOMAIN js = DOMAIN jobs /\ js[q] = jobs[q]
    BY <1>3, <2>1 DEF IsDone
  <2>5. PICK out \in Seq(Item), rest \in Seq(Item) :
          /\ jobs[q].waiting = out \o rest
          /\ AllReady(js, out)
          /\ Took(js, pipes, q, out, rest, r)
    BY <1>2, <2>1, <2>2, <2>3, <2>4, DrainedIs DEF User
  <2>6. jobs' = r.js /\ pipes' = r.ps
    BY <1>0, <1>5 DEF P!Becomes
  <2>7. P!MakesDocument(pipes[p].key[1]) <=> ToDocument(q)
    BY <2>2, <2>3 DEF JobOK, ToDocument
  <2>8. /\ jobs' \in Seq(Job) /\ DOMAIN (jobs') = DOMAIN js
        /\ \A i \in DOMAIN js \ {q} : jobs'[i] = js[i]
        /\ Kept(jobs'[q], js[q]) /\ jobs'[q].state = js[q].state /\ jobs'[q].closed = js[q].closed
        /\ jobs'[q].items = js[q].items /\ jobs'[q].waiting = rest
        /\ jobs'[q].got = IF ToDocument(q) THEN js[q].got ELSE js[q].got \o out
    BY <2>2, <2>4, <2>5, <2>6, <2>7 DEF Took
  <2>9. /\ pipes' \in Seq(PipeRecord) /\ DOMAIN (pipes') = DOMAIN pipes
        /\ \A k \in DOMAIN pipes \ {p} : pipes'[k] = pipes[k]
        /\ pipes'[p].key = pipes[p].key /\ pipes'[p].frame = pipes[p].frame
        /\ pipes'[p].user = pipes[p].user /\ pipes'[p].tail = pipes[p].tail
        /\ pipes'[p].tree = IF ToDocument(q) THEN pipes[p].tree \o out ELSE pipes[p].tree
    <3>1. js[q].pipe = p
      BY <2>2, <2>4
    <3> QED
      BY <2>2, <2>5, <2>6, <2>7, <3>1 DEF Took
  <2>10. PipesKept
    BY <2>9 DEF PipesKept
  <2>11. /\ \A i \in DOMAIN jobs \ {j, q} : jobs'[i] = jobs[i]
         /\ Kept(jobs'[j], jobs[j]) /\ jobs'[j].closed = jobs[j].closed /\ jobs'[j].state = "done"
         /\ jobs'[j].items = jobs[j].items /\ jobs'[j].waiting = jobs[j].waiting
         /\ jobs'[j].got = jobs[j].got
    BY <1>2, <1>3, <2>1, <2>8 DEF IsDone
  <2>12. /\ Kept(jobs'[q], jobs[q]) /\ jobs'[q].state = "running" /\ jobs'[q].closed = jobs[q].closed
         /\ jobs'[q].items = jobs[q].items /\ jobs'[q].waiting = rest
         /\ jobs'[q].got = IF ToDocument(q) THEN jobs[q].got ELSE jobs[q].got \o out
    BY <2>1, <2>4, <2>8 DEF Running
  <2>13. \A i \in DOMAIN jobs :
            /\ Kept(jobs'[i], jobs[i]) /\ (jobs'[i].closed <=> jobs[i].closed)
            /\ jobs'[i].state = IF i = j THEN "done" ELSE jobs[i].state
            /\ (i # q => jobs'[i].waiting = jobs[i].waiting)
    BY <2>1, <2>11, <2>12 DEF Kept, Running
  <2>14. ASSUME NEW x \in Children(out)
         PROVE  x \in DOMAIN jobs /\ js[x].state = "done" /\ jobs'[x].state = "done"
    <3>1. x \in DOMAIN jobs
      <4>1. Children(out \o rest) = Children(out) \cup Children(rest)
        BY ChildrenOfBoth
      <4> QED
        BY <2>1, <2>5, <4>1, ChildrenAreJobs
    <3>2. PICK i \in Range(out) : i[1] = "child" /\ i[2] = x
      BY DEF Children
    <3>3. js[x].state = "done"
      BY <2>5, <3>2 DEF AllReady, P!Ready
    <3> QED
      BY <2>4, <2>8, <3>1, <3>3
  <2> PICK none : none = <<>>
    OBVIOUS
  <2>15. /\ none \in Seq(Item) /\ \A s \in Seq(Item) : s \o none = s
         /\ Range(none) = {} /\ Children(none) = {}
    BY DEF Range, Children
  <2>16. GetsOn(q, none, out, rest)
    <3>1. jobs[q].waiting \o none = out \o rest /\ jobs[q].items \o none = jobs[q].items
      BY <2>1, <2>5, <2>15, Typed
    <3>2. ~jobs[q].closed /\ rest # <<>> => pipes[p].tail
      <4>1. rest # <<>> => out \o rest # <<>>
        OBVIOUS
      <4> QED
        BY <2>1, <2>2, <2>3, <2>5, <4>1 DEF TailOK
    <3> QED
      BY <2>2, <2>9, <2>12, <2>14, <2>15, <3>1, <3>2 DEF GetsOn
  <2>17. JobsOK'
    <3>1. (JobOK(j) /\ RunningOK(j) /\ EndedOK(j) /\ TailOK(j))'
      BY <1>2, <2>4, <2>8, <2>10, <2>11, DoneJobOK
    <3>2. JobsOK /\ \A i \in DOMAIN jobs : jobs[i].state = "done" => jobs'[i].state = "done"
      BY <2>13 DEF IInv
    <3>3. (JobOK(q) /\ RunningOK(q) /\ EndedOK(q) /\ TailOK(q))'
      BY <1>2, <2>1, <2>4, <2>8, <2>9, <2>15, <2>16, <3>2, JobGetsOn
    <3>4. \A i \in {j, q} \cap DOMAIN (jobs') : (JobOK(i) /\ RunningOK(i) /\ EndedOK(i) /\ TailOK(i))'
      BY <3>1, <3>3
    <3>5. ASSUME NEW i \in DOMAIN jobs \ {j, q}, Running(i)
          PROVE  pipes'[jobs[i].pipe] = pipes[jobs[i].pipe]
      <4>1. RunningOK(i) /\ jobs[i].pipe \in DOMAIN pipes
        BY Typed
      <4>2. jobs[i].pipe # p
        BY <2>3, <3>5, <4>1 DEF RunningOK
      <4> QED
        BY <2>9, <4>1, <4>2
    <3> QED
      <4>1. \A k \in DOMAIN pipes : pipes'[k].key = pipes[k].key
        BY <2>10 DEF PipesKept
      <4>2. DOMAIN (jobs') = DOMAIN jobs /\ DOMAIN (pipes') = DOMAIN pipes
        BY <2>4, <2>8, <2>9
      <4> QED
        BY <1>2, <2>11, <3>2, <3>4, <3>5, <4>1, <4>2, JobsStay
  <2>18. ASSUME NEW i \in DOMAIN jobs, NEW x \in DOMAIN jobs \ {j}, jobs[x].state # "done",
                <<"child", x>> \in Range(jobs[i].waiting)
         PROVE  <<"child", x>> \in Range(jobs'[i].waiting)
    <3>1. CASE i = q
      <4>1. PICK w \in Seq(Item) : w = jobs[q].waiting
        BY <2>3
      <4>2. w \o none = out \o rest /\ x \notin Children(out)
        BY <1>3, <2>5, <2>14, <2>15, <2>18, <4>1 DEF IsDone
      <4>3. <<"child", x>> \in Range(rest)
        BY <2>15, <2>18, <3>1, <4>1, <4>2, StaysPending
      <4> QED
        BY <2>12, <3>1, <4>3
    <3> QED
      BY <2>13, <2>18, <3>1
  <2> PICK ends \in BOOLEAN, doc \in BOOLEAN :
        ends = (jobs[q].closed /\ rest = <<>>) /\ doc = P!MakesDocument(pipes[p].key[1])
    <3>1. (jobs[q].closed /\ rest = <<>>) \in BOOLEAN /\ P!MakesDocument(pipes[p].key[1]) \in BOOLEAN
      BY DEF P!MakesDocument
    <3> QED
      BY <3>1, Zenon
  <2> PICK calls : calls = EndCallsOf(p, ends, doc)
    OBVIOUS
  <2>19. EndCalls(calls, p, ends, doc) /\ calls \in Seq(CallRecord)
    <3>1. p \in Nat
      BY <2>2, Typed
    <3>2. EndCalls(calls, p, ends, doc)
      BY <3>1, EndCallsAre
    <3> QED
      BY <3>2 DEF EndCalls
  <2>20. stack' = calls \o Tail(stack)
    <3>1. (r.js[q].closed /\ r.js[q].waiting = <<>>) <=> ends
      BY <2>6, <2>12
    <3>2. P!Pipe(q) = p /\ (P!MakesDocument(P!RecipeOf(P!Pipe(q))) <=> doc)
      BY <2>2 DEF P!Pipe, P!RecipeOf
    <3>3. (IF r.js[q].closed /\ r.js[q].waiting = <<>> THEN P!EndCalls(P!Pipe(q)) ELSE <<>>) = calls
      BY <3>1, <3>2 DEF P!EndCalls, EndCallsOf
    <3> QED
      BY <1>0, <1>5, <3>3 DEF P!Then
  <2>21. /\ \A c \in Range(calls) : (FeedOK(c) /\ EndOK(c) /\ HeardOK(c) /\ ResultOK(c) /\ ResetOK(c))'
         /\ \A i \in DOMAIN calls : \A b \in Below : Over(Head(stack), b) => Over(calls[i], b)'
         /\ \A k \in DOMAIN calls : \A i \in 1..(k - 1) : Over(calls[i], calls[k])'
    <3>1. ~HeardBy(q)
      BY <2>1 DEF IInv, CallsOK, HeardOK, HeardBy
    <3>2. ends => \A b \in Below : b.op = "transformed" => b.of # q
      BY <1>1, Waiting
    <3>3. ends => Ends(q)'
      BY <2>1, <2>4, <2>8, <2>12 DEF Ends, Running
    <3>4. JobsKept
      BY <2>4, <2>8, <2>13 DEF JobsKept
    <3> QED
      <4>1. /\ stack # <<>> /\ Head(stack).op # "returnPipeline" /\ cache' = cache
            /\ q \in DOMAIN jobs /\ p = jobs[q].pipe /\ Running(q) /\ User(p) = q
            /\ EndCalls(calls, p, ends, doc)
        BY <1>1, <2>1, <2>2, <2>3, <2>19
      <4>2. doc = P!MakesDocument(pipes[p].key[1])
        OBVIOUS
      <4> QED
        BY <2>10, <3>1, <3>2, <3>3, <3>4, <4>1, <4>2, EndMayBegin
  <2>22. \A i \in DOMAIN jobs : Running(i) /\ jobs[i].closed /\ jobs'[i].waiting = <<>>
                => jobs[i].waiting = <<>> \/ AtEnd(i)'
    <3>1. jobs[q].closed /\ rest = <<>> => AtEnd(q)'
      <4> SUFFICES ASSUME ends PROVE AtEnd(q)'
        OBVIOUS
      <4>1. PICK c \in Range(calls) : c.op \in EndOps /\ c.of = p
        BY <2>19 DEF EndCalls
      <4>2. c \in On'
        BY <1>1, <2>19, <2>20, Turned
      <4>3. jobs'[q].pipe = p
        BY <2>2, <2>12 DEF Kept
      <4> QED
        BY <4>1, <4>2, <4>3 DEF AtEnd
    <3> QED
      BY <2>12, <2>13, <3>1
  <2>23. DOMAIN (jobs') = DOMAIN jobs /\ jobs' \in Seq(Job) /\ pipes' \in Seq(PipeRecord)
    BY <2>4, <2>8, <2>9
  <2> QED
    BY <1>1, <1>2, <2>10, <2>13, <2>17, <2>18, <2>19, <2>20, <2>21, <2>22, <2>23, Finishes
<1> QED
  BY <1>4, <1>5

-----------------------------------------------------------------------------
(* What takes the place of a result *)

\* Up to the first place of an item, and what follows.
UpTo(a, x) ==
    /\ Len(a) > 0 /\ a[Len(a)] = x
    /\ \A k \in 1..(Len(a) - 1) : a[k] # x
HasNot(s, x) == \A k \in 1..Len(s) : s[k] # x
JoinOf(s, t, r) == r = s \o t

LEMMA Joins == ASSUME NEW s \in Seq(Item), NEW t \in Seq(Item) PROVE \E r \in Seq(Item) : JoinOf(s, t, r)
  BY ConcatProperties DEF JoinOf

LEMMA JoinsThrough ==
    ASSUME NEW a \in Seq(Item), NEW b \in Seq(Item), NEW c \in Seq(Item),
           NEW ab, NEW bc, NEW r, JoinOf(a, b, ab), JoinOf(b, c, bc)
    PROVE  JoinOf(ab, c, r) <=> JoinOf(a, bc, r)
<1>1. (a \o b) \o c = a \o (b \o c)
  BY Regrouped, Zenon
<1>2. ab \o c = a \o bc
  BY <1>1, Zenon DEF JoinOf
<1> QED
  BY <1>2, Zenon DEF JoinOf

LEMMA OneItem == ASSUME NEW x \in Item PROVE <<x>> \in Seq(Item) /\ Range(<<x>>) = {x}
  BY DEF Range

LEMMA HasNotIs == ASSUME NEW s \in Seq(Item), NEW x, x \notin Range(s) PROVE HasNot(s, x)
  BY DEF Range, HasNot

LEMMA RangeOfBoth ==
    ASSUME NEW s \in Seq(Item), NEW t \in Seq(Item), NEW r, JoinOf(s, t, r)
    PROVE  Range(r) = Range(s) \cup Range(t) /\ Children(r) = Children(s) \cup Children(t)
  BY RangeConcatenation, ChildrenOfBoth DEF JoinOf

LEMMA FirstPlace ==
    ASSUME NEW w \in Seq(Item), NEW x, x \in Range(w)
    PROVE  \E a, b \in Seq(Item) : JoinOf(a, b, w) /\ UpTo(a, x)
<1> DEFINE S == {k \in 1..Len(w) : w[k] = x}
<1>1. S \in SUBSET Nat /\ S # {}
  BY DEF Range
<1> HIDE DEF S
<1>2. PICK m \in S : \A k \in S : m <= k
  BY <1>1, Indices!LeastNat
<1>3. m \in 1..Len(w) /\ w[m] = x
  BY DEF S
<1>4. \A k \in 1..(m - 1) : w[k] # x
  <2> SUFFICES ASSUME NEW k \in 1..(m - 1), w[k] = x PROVE FALSE
    OBVIOUS
  <2>1. k \in S
    BY <1>3 DEF S
  <2> QED
    BY <1>2, <1>3, <2>1
<1> DEFINE a == SubSeq(w, 1, m)
           b == SubSeq(w, m + 1, Len(w))
<1>5. a \in Seq(Item) /\ b \in Seq(Item) /\ w = a \o b
  <2>1. m \in 0..Len(w)
    BY <1>3
  <2> HIDE DEF a, b
  <2>2. SubSeq(w, 1, m) = a /\ SubSeq(w, m + 1, Len(w)) = b
    BY DEF a, b
  <2> QED
    BY <2>1, <2>2, ConcatParts
<1>6. Len(a) = m /\ \A k \in 1..m : a[k] = w[k]
  BY <1>3
<1> HIDE DEF a, b
<1>7. UpTo(a, x)
  BY <1>3, <1>4, <1>6 DEF UpTo
<1> QED
  BY <1>5, <1>7 DEF JoinOf

LEMMA InsertAfterBoth ==
    ASSUME NEW a \in Seq(Item), NEW b \in Seq(Item), NEW j, NEW item \in Item, NEW x, x = <<"child", j>>, UpTo(a, x)
    PROVE  P!InsertAfter(a \o b, j, item) = (a \o <<item>>) \o b
<1> PICK s : s = a \o b
  OBVIOUS
<1> DEFINE I == {k \in 1..Len(s) : s[k] = x}
<1>1. /\ s \in Seq(Item) /\ Len(s) = Len(a) + Len(b) /\ Len(a) \in Nat /\ Len(b) \in Nat
      /\ \A k \in 1..Len(a) : s[k] = a[k]
  BY ConcatProperties
<1>2. Len(a) \in I /\ \A k \in I : Len(a) <= k
  <2>1. Len(a) \in 1..Len(a) /\ Len(a) \in 1..Len(s) /\ a[Len(a)] = x
    BY <1>1 DEF UpTo
  <2>2. ASSUME NEW k \in I, k < Len(a) PROVE FALSE
    <3>1. k \in 1..(Len(a) - 1) /\ k \in 1..Len(a)
      BY <1>1, <2>2
    <3> QED
      BY <1>1, <2>2, <3>1 DEF UpTo
  <2> QED
    BY <1>1, <2>1, <2>2
<1>3. P!SelectInSeq(s, LAMBDA y : y = x) = Len(a)
  <2>1. P!SelectInSeq(s, LAMBDA y : y = x) = IF I # {} THEN P!Min(I) ELSE 0
    BY DEF P!SelectInSeq
  <2>2. P!Min(I) = CHOOSE k \in I : \A i \in I : k <= i
    BY DEF P!Min
  <2>3. ASSUME NEW k \in I, \A i \in I : k <= i PROVE k = Len(a)
    <3>1. k <= Len(a) /\ Len(a) <= k
      BY <1>2, <2>3
    <3> QED
      BY <1>1, <3>1
  <2> HIDE DEF I
  <2> QED
    BY <1>2, <2>1, <2>2, <2>3
<1>4. P!InsertAfter(s, j, item) = P!InsertAt(s, Len(a) + 1, item)
  BY <1>1, <1>3 DEF P!InsertAfter, UpTo
<1>5. SubSeq(s, 1, Len(a)) = a /\ SubSeq(s, Len(a) + 1, Len(s)) = b
  BY <1>1
<1>6. P!InsertAt(s, Len(a) + 1, item) = (a \o <<item>>) \o b
  <2>1. P!InsertAt(s, Len(a) + 1, item)
            = (SubSeq(s, 1, (Len(a) + 1) - 1) \o <<item>>) \o SubSeq(s, Len(a) + 1, Len(s))
    BY DEF P!InsertAt
  <2>2. (Len(a) + 1) - 1 = Len(a)
    BY <1>1
  <2> QED
    BY <1>5, <2>1, <2>2
<1> QED
  BY <1>4, <1>6
LEMMA InsertAfterIs ==
    ASSUME NEW a \in Seq(Item), NEW b \in Seq(Item), NEW j, NEW item \in Item,
           NEW x, x = <<"child", j>>, UpTo(a, x), NEW one, one = <<item>>,
           NEW s, JoinOf(a, b, s), NEW t, JoinOf(a, one, t), NEW r, JoinOf(t, b, r)
    PROVE  P!InsertAfter(s, j, item) = r
  BY InsertAfterBoth, Zenon DEF JoinOf

LEMMA UpToJoined ==
    ASSUME NEW out \in Seq(Item), NEW a \in Seq(Item), NEW x, HasNot(out, x), UpTo(a, x),
           NEW oa, JoinOf(out, a, oa)
    PROVE  UpTo(oa, x)
<1>1. /\ Len(oa) = Len(out) + Len(a) /\ Len(out) \in Nat /\ Len(a) \in Nat
      /\ \A k \in 1..Len(out) : oa[k] = out[k]
      /\ \A k \in (Len(out) + 1)..Len(oa) : oa[k] = a[k - Len(out)]
  BY ConcatProperties DEF JoinOf
<1>2. Len(a) > 0 /\ a[Len(a)] = x /\ \A k \in 1..(Len(a) - 1) : a[k] # x
  BY DEF UpTo
<1>3. Len(oa) \in (Len(out) + 1)..Len(oa) /\ Len(oa) - Len(out) = Len(a) /\ Len(oa) > 0
  BY <1>1, <1>2
<1>4. oa[Len(oa)] = x
  BY <1>1, <1>2, <1>3
<1>5. ASSUME NEW k \in 1..(Len(oa) - 1) PROVE oa[k] # x
  <2>1. CASE k <= Len(out)
    <3>1. k \in 1..Len(out)
      BY <1>1, <2>1
    <3> QED
      BY <1>1, <3>1 DEF HasNot
  <2>2. CASE k > Len(out)
    <3>1. k \in (Len(out) + 1)..Len(oa) /\ k - Len(out) \in 1..(Len(a) - 1)
      BY <1>1, <2>2
    <3> QED
      BY <1>1, <1>2, <3>1
  <2> QED
    BY <1>1, <2>1, <2>2
<1> QED
  BY <1>3, <1>4, <1>5 DEF UpTo

\* Where it is put after a job's place among what is pending, it follows the job
\* among all items, when none that has left is in that place.
LEMMA InsertedAfter ==
    ASSUME NEW out \in Seq(Item), NEW w \in Seq(Item), NEW its, JoinOf(out, w, its),
           NEW j, NEW item \in Item, NEW x, x = <<"child", j>>,
           x \in Range(w), HasNot(out, x)
    PROVE  \E w2, its2 \in Seq(Item) :
            /\ P!InsertAfter(w, j, item) = w2
            /\ P!InsertAfter(its, j, item) = its2
            /\ JoinOf(out, w2, its2)
            /\ Range(w2) = Range(w) \cup {item}
<1>1. PICK a \in Seq(Item), b \in Seq(Item) : JoinOf(a, b, w) /\ UpTo(a, x)
  BY FirstPlace
<1>2. PICK one \in Seq(Item) : one = <<item>> /\ Range(one) = {item}
  BY OneItem
<1>3. PICK both \in Seq(Item) : JoinOf(a, one, both)
  BY Joins
<1>4. PICK w2 \in Seq(Item) : JoinOf(both, b, w2)
  BY Joins
<1>5. PICK oa \in Seq(Item) : JoinOf(out, a, oa)
  BY Joins
<1>6. PICK ot \in Seq(Item) : JoinOf(oa, one, ot)
  BY Joins
<1>7. PICK its2 \in Seq(Item) : JoinOf(ot, b, its2)
  BY Joins
<1>8. P!InsertAfter(w, j, item) = w2
  BY <1>1, <1>2, <1>3, <1>4, InsertAfterIs
<1>9. UpTo(oa, x)
  BY <1>1, <1>5, UpToJoined
<1>10. JoinOf(oa, b, its)
  BY <1>1, <1>5, JoinsThrough
<1>11. P!InsertAfter(its, j, item) = its2
  BY <1>2, <1>6, <1>7, <1>9, <1>10, InsertAfterIs
<1>12. JoinOf(out, both, ot)
  BY <1>3, <1>5, <1>6, JoinsThrough
<1>13. JoinOf(out, w2, its2)
  BY <1>4, <1>7, <1>12, JoinsThrough
<1>14. Range(w2) = Range(w) \cup {item}
  <2>2. Range(both) = Range(a) \cup Range(one) /\ Range(w2) = Range(both) \cup Range(b)
        /\ Range(w) = Range(a) \cup Range(b)
    BY <1>1, <1>3, <1>4, RangeOfBoth
  <2> QED
    BY <1>2, <2>2
<1> QED
  BY <1>8, <1>11, <1>13, <1>14

LEMMA TransformedAgainKeeps == ASSUME IInv, P!TransformedAgain PROVE IInv'
<1> PICK j, c, q : j = Head(stack).of /\ c = Head(stack).arg[1] /\ q = jobs[j].parent
  OBVIOUS
<1> PICK item, x : item = <<"child", c>> /\ x = <<"child", j>>
  OBVIOUS
<1>0. /\ jobs' = [jobs EXCEPT ![q].items = P!InsertAfter(@, j, item),
                              ![q].waiting = P!InsertAfter(@, j, item)]
      /\ P!Then(<<P!Call("result", j)>>)
  BY DEF P!TransformedAgain
<1>1. /\ stack # <<>> /\ Head(stack).op = "transformedAgain" /\ Head(stack).of = j
      /\ pipes' = pipes /\ cache' = cache /\ timers' = timers /\ settled' = settled
  BY DEF P!TransformedAgain
<1>2. /\ j \in DOMAIN jobs /\ jobs[j].state = "called" /\ j \notin settled
      /\ q \in DOMAIN jobs /\ q # j /\ x \in Range(jobs[q].waiting)
      /\ c \in DOMAIN jobs /\ Head(stack).arg = <<c>>
  <2>1. ResultOK(Head(stack))
    BY <1>1, HeadIs
  <2>2. PICK d \in DOMAIN jobs : Head(stack).arg = <<d>>
    BY <1>1, <2>1 DEF ResultOK
  <2>3. d = c
    BY <2>2
  <2>4. j \in DOMAIN jobs /\ q # 0 /\ jobs[j].state = "called"
    BY <1>1, <2>1 DEF ResultOK
  <2> QED
    BY <1>1, <2>1, <2>2, <2>3, <2>4, ParentRuns DEF ResultOK
<1>3. Running(q) /\ ~Ends(q) /\ JobOK(q) /\ RunningOK(q) /\ TailOK(q) /\ jobs[q] \in Job
  <2>1. jobs[q].waiting # <<>>
    BY <1>2 DEF Range
  <2> QED
    BY <1>2, <2>1, Typed DEF EndedOK, Ends
<1>4. PICK p \in DOMAIN pipes : p = jobs[q].pipe
  BY <1>2, Typed
<1>5. PICK out \in Seq(Item), w \in Seq(Item) :
        /\ out = Out(q) /\ w = jobs[q].waiting /\ jobs[q].items = out \o w
        /\ Children(out) \subseteq DOMAIN jobs /\ Children(w) \subseteq DOMAIN jobs
  BY <1>2, <1>3, Typed, ChildrenAreJobs DEF RunningOK
<1>6. item \in Item
  <2>1. c \in Nat
    BY <1>2, Typed
  <2> QED
    BY <2>1 DEF Item
<1>7. HasNot(out, x)
  <2> SUFFICES ASSUME x \in Range(out) PROVE FALSE
    BY <1>5, HasNotIs
  <2>1. j \in Children(out)
    BY DEF Children
  <2> QED
    BY <1>2, <1>3, <1>5, <2>1 DEF RunningOK
<1>8. PICK w2 \in Seq(Item), its \in Seq(Item) :
        /\ P!InsertAfter(w, j, item) = w2
        /\ P!InsertAfter(jobs[q].items, j, item) = its
        /\ JoinOf(out, w2, its)
        /\ Range(w2) = Range(w) \cup {item}
  <2>1. JoinOf(out, w, jobs[q].items) /\ x \in Range(w)
    BY <1>2, <1>5 DEF JoinOf
  <2> QED
    BY <1>6, <1>7, <2>1, InsertedAfter
<1>11. /\ jobs' \in Seq(Job) /\ DOMAIN (jobs') = DOMAIN jobs
       /\ \A i \in DOMAIN jobs \ {q} : jobs'[i] = jobs[i]
       /\ Kept(jobs'[q], jobs[q]) /\ jobs'[q].state = "running" /\ jobs'[q].closed = jobs[q].closed
       /\ jobs'[q].items = its /\ jobs'[q].waiting = w2 /\ jobs'[q].got = jobs[q].got
  <2> DEFINE v == [jobs[q] EXCEPT !.items = its, !.waiting = w2]
  <2>1. /\ v \in Job /\ Kept(v, jobs[q]) /\ v.state = jobs[q].state /\ v.closed = jobs[q].closed
        /\ v.items = its /\ v.waiting = w2 /\ v.got = jobs[q].got
    BY <1>3, <1>8 DEF Job, Kept
  <2>2. jobs \in Seq(Job)
    BY Typed
  <2>3. jobs' = [jobs EXCEPT ![q] = v]
    BY <1>0, <1>2, <1>3, <1>5, <1>8, <2>2 DEF Job
  <2> HIDE DEF v
  <2>4. /\ jobs' \in Seq(Job) /\ DOMAIN (jobs') = DOMAIN jobs /\ jobs'[q] = v
        /\ \A i \in DOMAIN jobs \ {q} : jobs'[i] = jobs[i]
    BY <1>2, <2>1, <2>2, <2>3, ReplacedInSeq
  <2> QED
    BY <1>3, <2>1, <2>4 DEF Running
<1>12. /\ Range(w2) = Range(w) \cup {item} /\ w2 # <<>> /\ jobs[q].waiting # <<>>
       /\ Children(its) \subseteq DOMAIN jobs
  <2>1. Children(w2) \subseteq Children(w) \cup {c}
    BY <1>8 DEF Children
  <2>2. Children(its) = Children(out) \cup Children(w2)
    BY <1>8, RangeOfBoth
  <2>3. \A s : s = <<>> => Range(s) = {}
    BY DEF Range
  <2> QED
    BY <1>2, <1>5, <1>8, <2>1, <2>2, <2>3
<1>13. JobsKept /\ PipesKept /\ StatesGoOn
  BY <1>1, <1>3, <1>11 DEF JobsKept, PipesKept, StatesGoOn, Kept, Running
<1>14. \A i \in DOMAIN jobs : jobs'[i].state = jobs[i].state /\ jobs'[i].parent = jobs[i].parent
        /\ (jobs'[i].closed <=> jobs[i].closed) /\ jobs'[i].pipe = jobs[i].pipe
        /\ jobs'[i].kind = jobs[i].kind
        /\ Range(jobs[i].waiting) \subseteq Range(jobs'[i].waiting)
        /\ (i # q => jobs'[i].waiting = jobs[i].waiting)
  BY <1>3, <1>5, <1>11, <1>12 DEF Kept, Running
<1>15. JobsOK'
  <2>1. (JobOK(q) /\ EndedOK(q) /\ TailOK(q))'
    BY <1>1, <1>3, <1>11, <1>12 DEF JobOK, EndedOK, TailOK, Running, Kept
  <2>2. RunningOK(q)'
    <3>1. Out(q)' = Out(q) /\ ToDocument(q)' = ToDocument(q)
      BY <1>1, <1>11 DEF Out, ToDocument, Kept
    <3>2. \A k \in Children(Out(q)) : jobs'[k].state = "done"
      BY <1>3, <1>5, <1>14 DEF RunningOK
    <3> QED
      BY <1>1, <1>3, <1>5, <1>8, <1>11, <3>1, <3>2 DEF RunningOK, User, Kept, JoinOf
  <2>3. jobs \in Seq(Job) /\ pipes \in Seq(PipeRecord) /\ JobsOK
    BY DEF IInv, TypeOK
  <2>4. /\ \A i \in DOMAIN jobs : jobs[i].state = "done" => jobs'[i].state = "done"
        /\ \A i \in {q} \cap DOMAIN (jobs') : (JobOK(i) /\ RunningOK(i) /\ EndedOK(i) /\ TailOK(i))'
    BY <1>14, <2>1, <2>2
  <2> QED
    BY <1>1, <1>11, <2>3, <2>4, JobsStay
<1> PICK r : r = P!Call("result", j)
  OBVIOUS
<1> PICK calls : calls = <<r>>
  OBVIOUS
<1>16. r \in CallRecord /\ r.op = "result" /\ r.of = j
  <2>1. j \in Nat
    BY <1>2, Typed
  <2>2. <<>> \in Seq(Item)
    OBVIOUS
  <2> QED
    BY <2>1, <2>2 DEF P!Call, CallRecord, Ops
<1>17. /\ calls \in Seq(CallRecord) /\ Range(calls) = {r} /\ DOMAIN calls = {1} /\ calls[1] = r
       /\ stack' = calls \o Tail(stack)
  <2>1. DOMAIN calls = {1} /\ calls[1] = r /\ calls \in Seq(CallRecord)
    BY <1>16
  <2> QED
    BY <1>0, <2>1 DEF P!Then, Range
<1>18. /\ On = {Head(stack)} \cup Below /\ On' = {r} \cup Below
       /\ \A b \in Below : Over(Head(stack), b)
  BY <1>1, <1>17, Turned
<1>19. /\ \A d \in Range(calls) : (FeedOK(d) /\ EndOK(d) /\ HeardOK(d) /\ ResultOK(d) /\ ResetOK(d))'
       /\ \A i \in DOMAIN calls : \A d \in Below : Over(Head(stack), d) => Over(calls[i], d)'
       /\ \A k \in DOMAIN calls : \A i \in 1..(k - 1) : Over(calls[i], calls[k])'
  <2>1. (FeedOK(r) /\ EndOK(r) /\ HeardOK(r) /\ ResultOK(r) /\ ResetOK(r))'
    BY <1>1, <1>2, <1>11, <1>14, <1>16 DEF FeedOK, EndOK, HeardOK, ResultOK, ResetOK, FeedOps, EndOps, HeardOps
  <2>2. ASSUME NEW d \in Below, Over(Head(stack), d) PROVE Over(r, d)'
    <3>1. Gentle(Head(stack)) => Gentle(r)'
      BY <1>1, <1>2, <1>13, <1>16 DEF Gentle, FeedOps, JobsKept, Kept
    <3> QED
      BY <1>1, <1>16, <2>2, <3>1 DEF Over, FeedOps, ResetOps, HeardOps
  <2> QED
    BY <1>17, <2>1, <2>2
<1>20. ASSUME NEW i \in DOMAIN jobs
       PROVE  (AtEnd(i) => AtEnd(i)') /\ (HeardBy(i) => HeardBy(i)') /\ (Fed(i) => Fed(i)')
  BY <1>1, <1>14, <1>18, AtEndStays, FedStays DEF EndOps, HeardOps, FeedOps
<1>21. ControlOK'
  <2> SUFFICES ASSUME NEW i \in DOMAIN jobs, Running(i)
               PROVE  (IF jobs[i].closed THEN jobs[i].waiting = <<>> => AtEnd(i) ELSE Fed(i))'
    BY <1>11, <1>14 DEF ControlOK, Running
  <2>1. IF jobs[i].closed THEN jobs[i].waiting = <<>> => AtEnd(i) ELSE Fed(i)
    BY DEF IInv, ControlOK
  <2>2. jobs'[i].waiting = <<>> => jobs[i].waiting = <<>>
    BY <1>11, <1>12, <1>14
  <2> QED
    BY <1>14, <1>20, <2>1, <2>2
<1>22. ParentsWait'
  <2> SUFFICES ASSUME NEW i \in DOMAIN jobs, jobs[i].parent # 0, jobs[i].state # "done"
               PROVE  WaitedFor(i)'
    BY <1>11, <1>14 DEF ParentsWait
  <2>1. WaitedFor(i) /\ jobs[i].parent \in DOMAIN jobs
    BY ParentIsJob DEF IInv, ParentsWait
  <2>2. CASE i = c /\ jobs[i].parent = q
    <3>1. <<"child", i>> \in Range(jobs'[q].waiting) /\ jobs'[i].parent = q
      BY <1>11, <1>12, <1>14, <2>2
    <3> QED
      BY <3>1 DEF WaitedFor
  <2>3. CASE ~(i = c /\ jobs[i].parent = q)
    <3>1. CASE <<"child", i>> \in Range(jobs[jobs[i].parent].waiting)
      BY <1>14, <2>1, <3>1 DEF WaitedFor
    <3>2. CASE <<"child", i>> \notin Range(jobs[jobs[i].parent].waiting)
      <4>1. PICK d \in On :
              /\ \/ d.op = "transformed" /\ d.of = jobs[i].parent
                 \/ d.op = "transformedAgain" /\ jobs[d.of].parent = jobs[i].parent
              /\ d.arg = <<i>>
        BY <2>1, <3>2 DEF WaitedFor
      <4>2. d \in On'
        <5>1. d # Head(stack)
          BY <1>1, <1>2, <2>3, <4>1
        <5> QED
          BY <1>18, <5>1
      <4>3. d.op = "transformedAgain" => jobs'[d.of].parent = jobs[d.of].parent
        BY <1>14 DEF IInv, CallsOK, ResultOK
      <4>4. \/ d.op = "transformed" /\ d.of = jobs'[i].parent
            \/ d.op = "transformedAgain" /\ jobs'[d.of].parent = jobs'[i].parent
        BY <1>14, <4>1, <4>3
      <4> QED
        BY <4>1, <4>2, <4>4 DEF WaitedFor
    <3> QED
      BY <3>1, <3>2
  <2> QED
    BY <2>2, <2>3
<1>23. TimersOK' /\ SettledOK' /\ timers' \in SUBSET (DOMAIN jobs) /\ settled' \in SUBSET (DOMAIN jobs)
  <2>1. timers \subseteq DOMAIN jobs /\ settled \subseteq DOMAIN jobs /\ TimersOK /\ SettledOK
    BY DEF IInv, TypeOK
  <2>2. TimersOK'
    BY <1>1, <1>14, <2>1 DEF TimersOK, Running
  <2> QED
    BY <1>1, <1>14, <2>1, <2>2 DEF SettledOK
<1>24. ASSUME NEW d \in Below
       PROVE  /\ d.op = "transformed" =>
                  jobs'[d.of].state = "running" /\ ~jobs'[d.of].closed /\ d.of \notin timers'
              /\ d.op = "transformedAgain" =>
                  /\ jobs'[d.of].state = "called" /\ d.of \notin settled'
                  /\ <<"child", d.of>> \in Range(jobs'[jobs[d.of].parent].waiting)
  BY <1>1, <1>14, Waiting
<1>25. pipes' \in Seq(PipeRecord) /\ \A i \in DOMAIN jobs : Running(i)' =>
            (AtEnd(i) => AtEnd(i)') /\ (HeardBy(i) => HeardBy(i)')
  BY <1>1, <1>20, Typed
<1> QED
  BY <1>1, <1>11, <1>13, <1>15, <1>17, <1>19, <1>21, <1>22, <1>23, <1>24, <1>25, Goes

-----------------------------------------------------------------------------
(* The steps that start a job *)

\* Job n of the given kind is new, and runs in pipeline p: a new one, or one of
\* the cache, whose user has heard of the end.
Started(kind, u, expanded, n, p) ==
    /\ jobs' \in Seq(Job) /\ DOMAIN (jobs') = DOMAIN jobs \cup {n}
    /\ n \in Nat /\ n \notin DOMAIN jobs /\ \A i \in DOMAIN jobs : i < n /\ jobs'[i] = jobs[i]
    /\ jobs'[n].kind = kind /\ jobs'[n].parent = u /\ jobs'[n].pipe = p
    /\ jobs'[n].expanded = expanded /\ jobs'[n].items = <<>> /\ jobs'[n].waiting = <<>>
    /\ ~jobs'[n].closed /\ jobs'[n].got = <<>> /\ jobs'[n].state = "running"
    /\ pipes' \in Seq(PipeRecord) /\ DOMAIN (pipes') = DOMAIN pipes \cup {p}
    /\ \A q \in DOMAIN pipes \ {p} : pipes'[q] = pipes[q]
    /\ p \in DOMAIN pipes => pipes'[p].key = pipes[p].key /\ ~Running(User(p))
    /\ pipes'[p].key[1] = P!Recipe(kind) /\ pipes'[p].frame = jobs'[n].depth
    /\ pipes'[p].user = n /\ pipes'[p].tree = <<>>
    /\ cache' \in [P!Keys -> Seq(Nat)]
    /\ \A key \in P!Keys : \A i \in DOMAIN cache'[key] :
        i \in DOMAIN cache[key] /\ cache'[key][i] = cache[key][i] /\ cache'[key][i] # p

LEMMA NobodyHears ==
    ASSUME IInv, stack # <<>>, Head(stack).op \in {"chunk", "result"}
    PROVE  \A i : ~HeardBy(i)
<1>1. On = {Head(stack)} \cup Below /\ \A b \in Below : MayWait(b)
  BY HeadIs
<1> QED
  BY <1>1 DEF HeardBy, HeardOps, MayWait, ResetOps

\* The last of a sequence that holds each member once.
LEMMA TakenLast ==
    ASSUME NEW s \in Seq(Nat), s # <<>>, \A i, k \in DOMAIN s : s[i] = s[k] => i = k,
           NEW p, p = Last(s), NEW f, f = Front(s)
    PROVE  /\ Len(s) \in DOMAIN s /\ p = s[Len(s)] /\ p \in Nat
           /\ f \in Seq(Nat) /\ \A i \in DOMAIN f : i \in DOMAIN s /\ f[i] = s[i] /\ f[i] # p
<1>1. /\ Len(s) \in Nat /\ Len(s) > 0 /\ DOMAIN s = 1..Len(s) /\ p = s[Len(s)] /\ p \in Nat
  BY DEF Last
<1>2. /\ f \in Seq(Nat) /\ Len(f) = Len(s) - 1 /\ \A i \in 1..Len(f) : f[i] = s[i]
  BY <1>1 DEF Front
<1>3. DOMAIN f = 1..(Len(s) - 1)
  BY <1>1, <1>2
<1>4. ASSUME NEW i \in DOMAIN f PROVE i \in DOMAIN s /\ f[i] = s[i] /\ f[i] # p
  <2>1. i \in 1..Len(s) /\ Len(s) \in 1..Len(s) /\ i # Len(s)
    BY <1>1, <1>3
  <2> QED
    BY <1>1, <1>2, <1>3, <2>1
<1> QED
  BY <1>1, <1>2, <1>4

LEMMA JobIs ==
    ASSUME NEW kind \in P!Kinds, NEW u \in Nat, NEW p \in Nat, NEW chunks \in Int,
           NEW expanded \in BOOLEAN, NEW inTemplate \in BOOLEAN, NEW depth \in Nat, NEW none \in Seq(Item)
    PROVE  [kind |-> kind, parent |-> u, pipe |-> p, left |-> chunks, expanded |-> expanded,
            inTemplate |-> inTemplate, depth |-> depth,
            items |-> none, waiting |-> none, closed |-> FALSE, got |-> none, state |-> "running"] \in Job
  BY DEF Job

LEMMA NewJobIs ==
    ASSUME NEW kind \in P!Kinds, NEW u \in Nat, u # 0, NEW p \in Nat, NEW chunks \in Int,
           NEW expanded \in BOOLEAN, jobs[u].inTemplate \in BOOLEAN, jobs[u].depth \in Nat
    PROVE  \A nj : nj = P!NewJob(kind, u, p, chunks, expanded) =>
               /\ nj \in Job /\ nj.kind = kind /\ nj.parent = u /\ nj.pipe = p /\ nj.expanded = expanded
               /\ nj.items = <<>> /\ nj.waiting = <<>> /\ ~nj.closed /\ nj.got = <<>>
               /\ nj.state = "running"
               /\ nj.depth = (IF u = 0 THEN 0 ELSE jobs[u].depth) + (IF kind = "template" THEN 1 ELSE 0)
<1> DEFINE depth == (IF u = 0 THEN 0 ELSE jobs[u].depth) + (IF kind = "template" THEN 1 ELSE 0)
           inTemplate == kind = "template" \/ (u # 0 /\ jobs[u].inTemplate)
           none == <<>>
<1>1. depth \in Nat
  OBVIOUS
<1>2. inTemplate \in BOOLEAN
  BY Zenon
<1>3. none \in Seq(Item)
  OBVIOUS
<1>4. P!NewJob(kind, u, p, chunks, expanded)
      = [kind |-> kind, parent |-> u, pipe |-> p, left |-> chunks, expanded |-> expanded,
         inTemplate |-> inTemplate, depth |-> depth,
         items |-> none, waiting |-> none, closed |-> FALSE, got |-> none, state |-> "running"]
  BY DEF P!NewJob
<1>5. ASSUME NEW nj, nj = [kind |-> kind, parent |-> u, pipe |-> p, left |-> chunks, expanded |-> expanded,
         inTemplate |-> inTemplate, depth |-> depth,
         items |-> none, waiting |-> none, closed |-> FALSE, got |-> none, state |-> "running"]
      PROVE  /\ nj \in Job /\ nj.kind = kind /\ nj.parent = u /\ nj.pipe = p /\ nj.expanded = expanded
             /\ nj.items = none /\ nj.waiting = none /\ ~nj.closed /\ nj.got = none
             /\ nj.state = "running" /\ nj.depth = depth
  <2> HIDE DEF depth, inTemplate, none
  <2> QED
    BY <1>1, <1>2, <1>3, <1>5 DEF Job
<1> QED
  BY <1>4, <1>5, Zenon

LEMMA StartsIn ==
    ASSUME IInv, stack # <<>>, Head(stack).op \in {"chunk", "result"},
           NEW u \in DOMAIN jobs, Running(u), NEW kind \in P!Kinds,
           NEW expanded \in BOOLEAN, NEW chunks \in Int, NEW n, n = Len(jobs) + 1,
           P!processContentInPipeline(kind, u, chunks, expanded)
    PROVE  \E p \in Nat : Started(kind, u, expanded, n, p)
<1> PICK t : t = (u # 0 /\ jobs[u].inTemplate)
  OBVIOUS
<1> PICK key : key = P!getCacheKey(kind, t)
  OBVIOUS
<1> PICK p : p = IF cache[key] = <<>> THEN Len(pipes) + 1 ELSE Last(cache[key])
  OBVIOUS
<1> PICK fresh : fresh = P!NewPipe(key, P!Frame(kind, u), n)
  OBVIOUS
<1> PICK nj : nj = P!NewJob(kind, u, p, chunks, expanded)
  OBVIOUS
<1>0. /\ jobs' = Append(jobs, nj)
      /\ pipes' = IF cache[key] = <<>> THEN Append(pipes, fresh) ELSE [pipes EXCEPT ![p] = fresh]
      /\ cache' = IF cache[key] = <<>> THEN cache ELSE [cache EXCEPT ![key] = Front(@)]
  BY DEF P!processContentInPipeline, P!Last, P!Front, Last, Front
<1>1. /\ u \in Nat /\ jobs[u] \in Job /\ jobs \in Seq(Job) /\ pipes \in Seq(PipeRecord)
      /\ jobs[u].pipe \in DOMAIN pipes /\ pipes[jobs[u].pipe].frame = jobs[u].depth
      /\ cache \in [P!Keys -> Seq(Nat)]
  BY Typed DEF RunningOK, IInv, TypeOK
<1>2. t \in BOOLEAN /\ jobs[u].depth \in Nat
  BY <1>1 DEF Job
<1>3. key \in P!Keys /\ key[1] = P!Recipe(kind)
  <2>1. key \in P!Keys
    <3>1. <<kind, t>> \in P!Kinds \X BOOLEAN /\ <<kind, t>>[1] = kind /\ <<kind, t>>[2] = t
      BY <1>2
    <3> QED
      BY <3>1, Zenon DEF P!Keys
  <2>2. key = <<P!Recipe(kind), P!Options(kind, t)>>
    BY DEF P!getCacheKey
  <2> QED
    BY <2>1, <2>2
<1>4. cache[key] \in Seq(Nat) /\ n \in Nat
  BY <1>1, <1>3
<1>5. cache[key] # <<>> => /\ p \in DOMAIN pipes /\ p \in Nat /\ pipes[p].key = key /\ ~Running(User(p))
                           /\ Front(cache[key]) \in Seq(Nat)
                           /\ \A i \in DOMAIN Front(cache[key]) :
                                /\ i \in DOMAIN cache[key] /\ Front(cache[key])[i] = cache[key][i]
                                /\ Front(cache[key])[i] # p
  <2> SUFFICES ASSUME cache[key] # <<>>
               PROVE  /\ p \in DOMAIN pipes /\ p \in Nat /\ pipes[p].key = key /\ ~Running(User(p))
                      /\ Front(cache[key]) \in Seq(Nat)
                      /\ \A i \in DOMAIN Front(cache[key]) :
                            /\ i \in DOMAIN cache[key] /\ Front(cache[key])[i] = cache[key][i]
                            /\ Front(cache[key])[i] # p
    OBVIOUS
  <2>1. \A i, k \in DOMAIN cache[key] : cache[key][i] = cache[key][k] => i = k
    BY <1>3 DEF IInv, CacheOK
  <2>2. /\ Len(cache[key]) \in DOMAIN cache[key] /\ p = cache[key][Len(cache[key])] /\ p \in Nat
        /\ Front(cache[key]) \in Seq(Nat)
        /\ \A i \in DOMAIN Front(cache[key]) :
            /\ i \in DOMAIN cache[key] /\ Front(cache[key])[i] = cache[key][i]
            /\ Front(cache[key])[i] # p
    BY <1>4, <2>1, TakenLast
  <2>3. p \in DOMAIN pipes /\ pipes[p].key = key /\ (Running(User(p)) => HeardBy(User(p)))
    BY <1>3, <2>2 DEF IInv, CacheOK
  <2> QED
    BY <2>2, <2>3, NobodyHears
<1>6. p \in Nat /\ (cache[key] = <<>> => p = Len(pipes) + 1 /\ p \notin DOMAIN pipes)
  BY <1>1, <1>5
<1>7. /\ nj \in Job /\ nj.kind = kind /\ nj.parent = u /\ nj.pipe = p /\ nj.expanded = expanded
      /\ nj.items = <<>> /\ nj.waiting = <<>> /\ ~nj.closed /\ nj.got = <<>> /\ nj.state = "running"
      /\ nj.depth = P!Frame(kind, u) /\ P!Frame(kind, u) \in Nat
  <2>1. u # 0 /\ u \in Nat /\ p \in Nat /\ jobs[u].inTemplate \in BOOLEAN /\ jobs[u].depth \in Nat
    BY <1>1, <1>6 DEF Job
  <2>2. P!Frame(kind, u) = (IF u = 0 THEN 0 ELSE jobs[u].depth) + (IF kind = "template" THEN 1 ELSE 0)
    BY <1>1, <2>1 DEF P!Frame, P!Pipe
  <2>3. P!Frame(kind, u) \in Nat
    BY <2>1, <2>2
  <2> QED
    BY <2>1, <2>2, <2>3, NewJobIs
<1>8. /\ fresh \in PipeRecord /\ fresh.key = key /\ fresh.frame = P!Frame(kind, u)
      /\ fresh.user = n /\ fresh.tree = <<>>
  <2>1. <<>> \in Seq(Item)
    OBVIOUS
  <2> QED
    BY <1>3, <1>4, <1>7, <2>1 DEF P!NewPipe, PipeRecord
<1>9. /\ jobs' \in Seq(Job) /\ DOMAIN (jobs') = DOMAIN jobs \cup {n} /\ jobs'[n] = nj
      /\ n \notin DOMAIN jobs /\ \A i \in DOMAIN jobs : i < n /\ jobs'[i] = jobs[i]
  <2>1. \A i \in DOMAIN jobs : i < n
    BY <1>1
  <2> QED
    <3>1. jobs' = Append(jobs, nj) /\ jobs \in Seq(Job) /\ nj \in Job
      BY <1>0, <1>1, <1>7
    <3>2. /\ jobs' \in Seq(Job) /\ DOMAIN (jobs') = DOMAIN jobs \cup {Len(jobs) + 1}
          /\ jobs'[Len(jobs) + 1] = nj /\ Len(jobs) + 1 \notin DOMAIN jobs
          /\ \A i \in DOMAIN jobs : jobs'[i] = jobs[i]
      BY <3>1, Appended
    <3> QED
      BY <2>1, <3>2
<1>10. /\ pipes' \in Seq(PipeRecord) /\ DOMAIN (pipes') = DOMAIN pipes \cup {p} /\ pipes'[p] = fresh
       /\ \A q \in DOMAIN pipes \ {p} : pipes'[q] = pipes[q]
  <2>1. CASE cache[key] = <<>>
    BY <1>0, <1>1, <1>6, <1>8, <2>1, Appended
  <2>2. CASE cache[key] # <<>>
    <3>1. pipes' = [pipes EXCEPT ![p] = fresh] /\ p \in DOMAIN pipes
      BY <1>0, <1>5, <2>2
    <3>2. /\ pipes' \in Seq(PipeRecord) /\ DOMAIN (pipes') = DOMAIN pipes /\ pipes'[p] = fresh
          /\ \A q \in DOMAIN pipes \ {p} : pipes'[q] = pipes[q]
      BY <1>1, <1>8, <3>1, ReplacedInSeq
    <3> QED
      BY <3>1, <3>2
  <2> QED
    BY <2>1, <2>2
<1>11. /\ cache' \in [P!Keys -> Seq(Nat)]
       /\ \A k \in P!Keys : \A i \in DOMAIN cache'[k] :
            i \in DOMAIN cache[k] /\ cache'[k][i] = cache[k][i] /\ cache'[k][i] # p
  <2>1. \A k \in P!Keys : \A i \in DOMAIN cache[k] :
            cache[k][i] \in DOMAIN pipes /\ pipes[cache[k][i]].key = k
    BY DEF IInv, CacheOK
  <2>2. CASE cache[key] = <<>>
    BY <1>0, <1>1, <1>6, <2>1, <2>2
  <2>3. CASE cache[key] # <<>>
    <3> PICK f : f = Front(cache[key])
      OBVIOUS
    <3>1. /\ f \in Seq(Nat) /\ pipes[p].key = key
          /\ \A i \in DOMAIN f : i \in DOMAIN cache[key] /\ f[i] = cache[key][i] /\ f[i] # p
      BY <1>5, <2>3
    <3>2. cache' = [cache EXCEPT ![key] = f]
      BY <1>0, <2>3
    <3> QED
      BY <1>1, <1>3, <2>1, <3>1, <3>2
  <2> QED
    BY <2>2, <2>3
<1>12. p \in DOMAIN pipes => pipes'[p].key = pipes[p].key /\ ~Running(User(p))
  BY <1>5, <1>6, <1>8, <1>10
<1>13. /\ jobs'[n].kind = kind /\ jobs'[n].parent = u /\ jobs'[n].pipe = p
       /\ jobs'[n].expanded = expanded /\ jobs'[n].items = <<>> /\ jobs'[n].waiting = <<>>
       /\ ~jobs'[n].closed /\ jobs'[n].got = <<>> /\ jobs'[n].state = "running"
       /\ pipes'[p].key[1] = P!Recipe(kind) /\ pipes'[p].frame = jobs'[n].depth
       /\ pipes'[p].user = n /\ pipes'[p].tree = <<>>
  BY <1>3, <1>7, <1>8, <1>9, <1>10
<1>14. Started(kind, u, expanded, n, p)
  BY <1>4, <1>9, <1>10, <1>11, <1>12, <1>13 DEF Started
<1> QED
  BY <1>6, <1>14

\* A new job, and the call that goes on after its first turn, in place of the head.
LEMMA Starts ==
    ASSUME IInv, stack # <<>>, Head(stack).op \in {"chunk", "result"},
           NEW u \in DOMAIN jobs, Running(u), NEW kind \in P!Kinds,
           NEW expanded \in BOOLEAN, expanded => kind = "attribute",
           Gentle(Head(stack)) => expanded,
           NEW n, NEW p \in Nat, Started(kind, u, expanded, n, p),
           timers' = timers, settled' = settled,
           NEW j, j = Head(stack).of,
           NEW a \in CallRecord, a.op = "chunk", a.of = n,
           NEW c \in CallRecord, c.of = j, c.arg = <<n>>,
           IF Head(stack).op = "chunk" THEN c.op = "transformed" /\ j = u
           ELSE /\ c.op = "transformedAgain" /\ jobs[j].parent = u
                /\ <<"child", j>> \in Range(jobs[u].waiting),
           stack' = <<a, c>> \o Tail(stack)
    PROVE  IInv'
<1>1. /\ stack' \in Seq(CallRecord) /\ On = {Head(stack)} \cup Below /\ On' = {a, c} \cup Below
      /\ \A b \in Below : b \in CallRecord /\ Over(Head(stack), b) /\ MayWait(b)
      /\ \A b \in On : FeedOK(b) /\ EndOK(b) /\ HeardOK(b) /\ ResultOK(b) /\ ResetOK(b)
  <2>1. <<a, c>> \in Seq(CallRecord) /\ Range(<<a, c>>) = {a, c}
    BY DEF Range
  <2> QED
    BY <2>1, Turned
<1>2. /\ DOMAIN (jobs') = DOMAIN jobs \cup {n} /\ n \notin DOMAIN jobs
      /\ \A i \in DOMAIN jobs : i < n /\ jobs'[i] = jobs[i]
      /\ DOMAIN (pipes') = DOMAIN pipes \cup {p}
      /\ \A q \in DOMAIN pipes \ {p} : pipes'[q] = pipes[q]
      /\ pipes'[p].user = n /\ jobs'[n].pipe = p /\ jobs'[n].parent = u /\ jobs'[n].state = "running"
  BY DEF Started
<1>3. JobsKept
  BY <1>2 DEF JobsKept, Kept
<1>4. \A i \in DOMAIN jobs : Running(i) => jobs[i].pipe # p
  <2> SUFFICES ASSUME NEW i \in DOMAIN jobs, Running(i), jobs[i].pipe = p PROVE FALSE
    OBVIOUS
  <2>1. p \in DOMAIN pipes /\ User(p) = i
    BY Typed DEF RunningOK
  <2> QED
    BY <2>1 DEF Started
<1>5. JobsOK'
  <2>1. \A s : s = <<>> => Children(s) = {} /\ s \o s = <<>>
    BY DEF Children, Range
  <2>2. JobOK(n)'
    <3>1. jobs'[n].items = <<>>
      BY DEF Started
    <3>2. Children(jobs'[n].items) \subseteq DOMAIN (jobs')
      BY <2>1, <3>1
    <3> QED
      BY <1>2, <3>2 DEF JobOK, Started
  <2>3. RunningOK(n)'
    <3>1. Out(n)' = <<>>
      BY <1>2 DEF Out, Started
    <3>2. jobs'[n].items = Out(n)' \o jobs'[n].waiting /\ Children(Out(n))' = {}
      BY <2>1, <3>1 DEF Started
    <3> QED
      BY <1>2, <3>2 DEF RunningOK, Started, User
  <2>4. EndedOK(n)' /\ TailOK(n)'
    BY DEF EndedOK, TailOK, Started, Running
  <2>5. jobs \in Seq(Job) /\ pipes \in Seq(PipeRecord) /\ JobsOK
    BY DEF IInv, TypeOK
  <2>6. /\ \A q \in DOMAIN pipes : pipes'[q].key = pipes[q].key
        /\ \A i \in DOMAIN jobs \ {n} :
              jobs'[i] = jobs[i] /\ (Running(i) => pipes'[jobs[i].pipe] = pipes[jobs[i].pipe])
        /\ \A i \in DOMAIN jobs : jobs[i].state = "done" => jobs'[i].state = "done"
        /\ \A i \in {n} \cap DOMAIN (jobs') : (JobOK(i) /\ RunningOK(i) /\ EndedOK(i) /\ TailOK(i))'
    <3>1. \A q \in DOMAIN pipes : pipes'[q].key = pipes[q].key
      BY <1>2 DEF Started
    <3>2. \A i \in DOMAIN jobs : Running(i) => pipes'[jobs[i].pipe] = pipes[jobs[i].pipe]
      BY <1>2, <1>4, Typed
    <3> QED
      BY <1>2, <2>2, <2>3, <2>4, <3>1, <3>2
  <2> QED
    BY <1>2, <2>5, <2>6, JobsStay
<1>6. ASSUME NEW i \in DOMAIN jobs
      PROVE  (AtEnd(i) => AtEnd(i)') /\ (Fed(i) => Fed(i)') /\ Running(i)' = Running(i)
  <2>1. jobs'[i].pipe = jobs[i].pipe /\ Running(i)' = Running(i)
    BY <1>2 DEF Running
  <2>2. AtEnd(i) => AtEnd(i)'
    BY <1>1, <2>1, AtEndStays DEF EndOps, HeardOps
  <2>3. CASE Head(stack).op = "chunk" /\ j = i
    <3>1. c \in On' /\ c.op = "transformed" /\ c.of = i
      BY <1>1, <2>3
    <3> QED
      BY <2>1, <2>2, <3>1 DEF Fed
  <2>4. CASE ~(Head(stack).op = "chunk" /\ j = i)
    BY <1>1, <2>1, <2>2, <2>4, FedStays DEF FeedOps
  <2> QED
    BY <2>3, <2>4
<1>7. ControlOK'
  <2>1. ASSUME NEW i \in DOMAIN jobs, Running(i)
        PROVE  (IF jobs[i].closed THEN jobs[i].waiting = <<>> => AtEnd(i) ELSE Fed(i))'
    <3>1. IF jobs[i].closed THEN jobs[i].waiting = <<>> => AtEnd(i) ELSE Fed(i)
      BY <2>1 DEF IInv, ControlOK
    <3> QED
      BY <1>2, <1>6, <3>1
  <2>2. ~jobs'[n].closed /\ Fed(n)'
    BY <1>1 DEF Started, Fed, FeedOps
  <2> QED
    BY <1>2, <1>6, <2>1, <2>2 DEF ControlOK
<1>8. ParentsWait'
  <2>1. ASSUME NEW i \in DOMAIN jobs, jobs[i].parent # 0, jobs[i].state # "done"
        PROVE  WaitedFor(i)'
    <3>1. WaitedFor(i) /\ jobs[i].parent \in DOMAIN jobs
      BY <2>1, ParentIsJob DEF IInv, ParentsWait
    <3>2. jobs'[jobs[i].parent].waiting = jobs[jobs[i].parent].waiting /\ CallsOK
      BY <1>2, <3>1 DEF IInv
    <3> QED
      BY <1>1, <1>3, <3>1, <3>2, WaitedStays
  <2>2. WaitedFor(n)'
    <3>1. c \in On' /\ c.arg = <<n>>
      BY <1>1
    <3>2. \/ c.op = "transformed" /\ c.of = jobs'[n].parent
          \/ c.op = "transformedAgain" /\ jobs'[c.of].parent = jobs'[n].parent
      <4>1. Head(stack).op = "result" => j \in DOMAIN jobs
        BY <1>1 DEF ResultOK
      <4> QED
        BY <1>2, <4>1
    <3> QED
      BY <3>1, <3>2 DEF WaitedFor
  <2> QED
    BY <1>2, <2>1, <2>2 DEF ParentsWait
<1>9. PipesOK'
  <2>1. \A q \in DOMAIN pipes : User(q) \in DOMAIN jobs /\ jobs[User(q)].pipe = q
    BY DEF IInv, PipesOK
  <2> QED
    BY <1>2, <2>1 DEF PipesOK, User
<1>10. CacheOK'
  <2> SUFFICES ASSUME NEW key \in P!Keys
               PROVE  (/\ \A i \in DOMAIN cache[key] :
                          /\ cache[key][i] \in DOMAIN pipes
                          /\ pipes[cache[key][i]].key = key
                          /\ Running(User(cache[key][i])) => HeardBy(User(cache[key][i]))
                       /\ \A i, k \in DOMAIN cache[key] : cache[key][i] = cache[key][k] => i = k)'
    BY DEF CacheOK
  <2>1. \A i \in DOMAIN cache[key] :
          /\ cache[key][i] \in DOMAIN pipes /\ pipes[cache[key][i]].key = key
          /\ ~Running(User(cache[key][i]))
    BY NobodyHears DEF IInv, CacheOK
  <2>2. \A i, k \in DOMAIN cache[key] : cache[key][i] = cache[key][k] => i = k
    BY DEF IInv, CacheOK
  <2>3. \A i \in DOMAIN cache'[key] :
            i \in DOMAIN cache[key] /\ cache'[key][i] = cache[key][i] /\ cache'[key][i] # p
    BY DEF Started
  <2>4. ASSUME NEW i \in DOMAIN cache'[key]
        PROVE  (/\ cache[key][i] \in DOMAIN pipes /\ pipes[cache[key][i]].key = key
                /\ ~Running(User(cache[key][i])))'
    <3> PICK q : q = cache'[key][i]
      OBVIOUS
    <3>1. q \in DOMAIN pipes /\ q # p /\ pipes[q].key = key /\ ~Running(User(q))
      BY <2>1, <2>3
    <3>2. pipes'[q] = pipes[q] /\ User(q) \in DOMAIN jobs /\ q \in DOMAIN (pipes')
      BY <1>2, <3>1, Typed
    <3>3. ~Running(User(q))'
      BY <1>2, <3>1, <3>2 DEF Running, User
    <3> QED
      BY <3>1, <3>2, <3>3
  <2> QED
    BY <2>2, <2>3, <2>4
<1>11. TimersOK' /\ SettledOK' /\ timers' \in SUBSET (DOMAIN (jobs')) /\ settled' \in SUBSET (DOMAIN (jobs'))
  <2>1. timers \subseteq DOMAIN jobs /\ settled \subseteq DOMAIN jobs /\ TimersOK /\ SettledOK
    BY DEF IInv, TypeOK
  <2> QED
    BY <1>2, <2>1 DEF TimersOK, SettledOK, Running
<1>12. \A b \in Below : b.op \in ResetOps => expanded
  BY <1>1 DEF Over
<1>13. CallsOK'
  <2>1. n \notin timers
    BY <1>2 DEF IInv, TypeOK
  <2>2. (FeedOK(a) /\ EndOK(a) /\ HeardOK(a) /\ ResultOK(a) /\ ResetOK(a))'
    BY <1>2, <2>1 DEF FeedOK, EndOK, HeardOK, ResultOK, ResetOK, FeedOps, EndOps, HeardOps, Running, Started
  <2>3. (FeedOK(c) /\ EndOK(c) /\ HeardOK(c) /\ ResultOK(c) /\ ResetOK(c))'
    <3>1. FeedOK(Head(stack)) /\ ResultOK(Head(stack))
      BY <1>1
    <3>2. (EndOK(c) /\ HeardOK(c) /\ ResetOK(c))'
      BY DEF EndOK, HeardOK, ResetOK, EndOps, HeardOps
    <3>3. CASE Head(stack).op = "chunk"
      BY <1>2, <3>1, <3>2, <3>3 DEF FeedOK, ResultOK, FeedOps, Running
    <3>4. CASE Head(stack).op = "result"
      <4>1. u # 0 /\ j \in DOMAIN jobs
        BY <3>1, <3>4, Typed DEF ResultOK
      <4> QED
        BY <1>2, <3>1, <3>2, <3>4, <4>1 DEF FeedOK, ResultOK, FeedOps
    <3> QED
      BY <3>3, <3>4
  <2>4. ASSUME NEW b \in Below
        PROVE  (FeedOK(b) /\ EndOK(b) /\ HeardOK(b) /\ ResultOK(b) /\ ResetOK(b))'
    <3>1. /\ FeedOK(b) /\ ResultOK(b) /\ ResetOK(b)
          /\ b.op \in {"transformed", "transformedAgain"} \cup ResetOps
      BY <1>1 DEF MayWait
    <3>2. (EndOK(b) /\ HeardOK(b))'
      BY <3>1 DEF EndOK, HeardOK, EndOps, HeardOps, ResetOps
    <3>3. FeedOK(b)'
      BY <1>2, <3>1 DEF FeedOK, FeedOps, ResetOps, Running
    <3>4. ResultOK(b)'
      <4>1. b.op = "transformedAgain" => jobs[b.of].parent \in DOMAIN jobs
        BY <3>1, ParentIsJob DEF ResultOK
      <4> QED
        BY <1>2, <3>1, <4>1 DEF ResultOK, ResetOps
    <3>5. CASE b.op \notin ResetOps
      BY <3>2, <3>3, <3>4, <3>5 DEF ResetOK, ResetOps
    <3>6. CASE b.op \in ResetOps /\ b.of = p
      <4>1. expanded /\ kind = "attribute"
        BY <1>12, <3>6
      <4>2. p \in DOMAIN pipes => ~P!MakesDocument(pipes[p].key[1])
        BY <4>1 DEF Started, P!Recipe, P!MakesDocument
      <4>3. b.op = "reset"
        BY <3>1, <3>6, <4>2 DEF ResetOK, ResetOps
      <4>4. ResetOK(b)'
        BY <1>2, <3>6, <4>1, <4>3 DEF ResetOK, Started, User
      <4> QED
        BY <3>2, <3>3, <3>4, <4>4
    <3>7. CASE b.op \in ResetOps /\ b.of # p
      <4>1. b.of \in DOMAIN pipes /\ pipes'[b.of] = pipes[b.of]
        BY <1>2, <3>1, <3>7 DEF ResetOK, ResetOps
      <4> PICK v \in DOMAIN jobs : v = User(b.of)
        BY <4>1, Typed
      <4>2. User(b.of)' = v /\ jobs'[v] = jobs[v] /\ b.of \in DOMAIN (pipes')
        BY <1>2, <4>1 DEF User
      <4>3. CASE b.op = "reset"
        <5>1. Running(v) /\ ~jobs[v].closed => jobs[v].expanded
          BY <3>1, <4>3 DEF ResetOK
        <5>2. ResetOK(b)'
          BY <4>2, <4>3, <5>1 DEF ResetOK, Running
        <5> QED
          BY <3>2, <3>3, <3>4, <5>2
      <4>4. CASE b.op = "treeBuilderResetState"
        <5>1. Running(v)' => AtEnd(v)'
          BY <1>6, <3>1, <4>4 DEF ResetOK
        <5>2. P!MakesDocument(pipes'[b.of].key[1])
          BY <3>1, <4>1, <4>4 DEF ResetOK
        <5>3. (Running(User(b.of)) => AtEnd(User(b.of)))'
          BY <4>2, <5>1 DEF Running, AtEnd, HeardBy
        <5> QED
          BY <3>2, <3>3, <3>4, <4>2, <4>4, <5>2, <5>3 DEF ResetOK
      <4> QED
        BY <3>2, <3>3, <3>4, <3>7, <4>3, <4>4 DEF ResetOps
    <3> QED
      BY <3>5, <3>6, <3>7
  <2> QED
    BY <1>1, <2>2, <2>3, <2>4 DEF CallsOK
<1>14. Ordered'
  <2>1. ASSUME NEW d \in Below, NEW b \in Below, Over(d, b) PROVE Over(d, b)'
    <3>1. \A q \in DOMAIN pipes : User(q)' = User(q) \/ User(q)' \notin DOMAIN jobs
      BY <1>2 DEF User
    <3>2. CallsOK /\ d \in On /\ b \in On
      BY <1>1 DEF IInv
    <3> QED
      BY <1>3, <2>1, <3>1, <3>2, OverStays
  <2>2. ASSUME NEW b \in Below PROVE Over(a, b)' /\ Over(c, b)'
    <3>1. /\ b.op \in {"transformed", "transformedAgain"} \cup ResetOps
          /\ b.op = "transformed" => b.of \in DOMAIN jobs
          /\ Over(Head(stack), b) /\ FeedOK(Head(stack)) /\ ResultOK(Head(stack))
      BY <1>1 DEF MayWait, FeedOK
    <3>2. Over(a, b)'
      <4>1. b.op \in ResetOps => Gentle(a)'
        BY <1>12 DEF Gentle, Started
      <4> QED
        BY <1>2, <3>1, <4>1 DEF Over, ResetOps, FeedOps
    <3>3. Over(c, b)'
      <4>1. CASE Head(stack).op = "chunk"
        <5>1. Gentle(Head(stack)) => Gentle(c)'
          BY <1>2, <4>1 DEF Gentle, FeedOps
        <5> QED
          BY <3>1, <4>1, <5>1 DEF Over, FeedOps, ResetOps
      <4>2. CASE Head(stack).op = "result"
        <5>1. Gentle(Head(stack)) => Gentle(c)'
          BY <1>2, <3>1, <4>2 DEF Gentle, FeedOps, ResultOK
        <5> QED
          BY <3>1, <4>2, <5>1 DEF Over, FeedOps, ResetOps
      <4> QED
        BY <4>1, <4>2
    <3> QED
      BY <3>2, <3>3
  <2>3. Over(a, c)'
    <3>1. c.op = "transformed" => a.of # c.of
      BY <1>2
    <3> QED
      BY <3>1 DEF Over, ResetOps
  <2> PICK calls : calls = <<a, c>>
    OBVIOUS
  <2>4. /\ calls \in Seq(CallRecord) /\ DOMAIN calls = 1..2 /\ calls[1] = a /\ calls[2] = c
        /\ stack' = calls \o Tail(stack)
    OBVIOUS
  <2>5. \A i \in DOMAIN calls : \A b \in Below : Over(calls[i], b)'
    BY <2>2, <2>4
  <2>6. \A k \in DOMAIN calls : \A i \in 1..(k - 1) : Over(calls[i], calls[k])'
    <3> SUFFICES ASSUME NEW k \in DOMAIN calls, NEW i \in 1..(k - 1) PROVE Over(calls[i], calls[k])'
      OBVIOUS
    <3>1. k = 2 /\ i = 1
      BY <2>4
    <3> QED
      BY <2>3, <2>4, <3>1
  <2>7. stack \in Seq(CallRecord) /\ Ordered
    BY DEF IInv, TypeOK
  <2> QED
    BY <2>1, <2>4, <2>5, <2>6, <2>7, StaysOrdered
<1>15. TypeOK'
  BY <1>1, <1>11 DEF TypeOK, Started
<1> QED
  BY <1>5, <1>7, <1>8, <1>9, <1>10, <1>11, <1>13, <1>14, <1>15 DEF IInv

\* The new job's first turn comes next, then the rest of the handler that started it.
StartedBy(kind, u, expanded, n, op, j) ==
    \E a \in CallRecord, c \in CallRecord, p \in Nat :
        /\ Started(kind, u, expanded, n, p)
        /\ a.op = "chunk" /\ a.of = n /\ c.op = op /\ c.of = j /\ c.arg = <<n>>
        /\ stack' = <<a, c>> \o Tail(stack)

LEMMA CallsAre ==
    ASSUME NEW op \in Ops, NEW j \in Nat, NEW n \in Nat
    PROVE  /\ \A a : a = P!Call(op, j) => a \in CallRecord /\ a.op = op /\ a.of = j
           /\ \A c : c = P!CallWith(op, j, <<n>>) =>
                c \in CallRecord /\ c.op = op /\ c.of = j /\ c.arg = <<n>>
<1>1. <<>> \in Seq(Item) /\ <<n>> \in Seq(Nat)
  OBVIOUS
<1>2. P!Call(op, j) \in CallRecord /\ P!Call(op, j).op = op /\ P!Call(op, j).of = j
  BY <1>1 DEF P!Call, CallRecord
<1>3. ASSUME NEW arg, arg = <<n>>
      PROVE  /\ P!CallWith(op, j, arg) \in CallRecord /\ P!CallWith(op, j, arg).op = op
             /\ P!CallWith(op, j, arg).of = j /\ P!CallWith(op, j, arg).arg = arg
  <2>1. arg \in Seq(Nat)
    BY <1>1, <1>3
  <2> HIDE <1>3
  <2> QED
    BY <2>1 DEF P!CallWith, CallRecord
<1> QED
  BY <1>2, <1>3

\* StartJob, with the calls it pushes.
LEMMA StartJobIs ==
    ASSUME IInv, stack # <<>>, Head(stack).op \in {"chunk", "result"},
           NEW u \in DOMAIN jobs, Running(u), NEW kind \in P!Kinds,
           NEW expanded \in BOOLEAN, NEW n, n = Len(jobs) + 1,
           NEW j \in Nat, NEW op \in {"transformed", "transformedAgain"},
           NEW rest, rest = <<P!CallWith(op, j, <<n>>)>>, P!StartJob(kind, u, expanded, rest)
    PROVE  StartedBy(kind, u, expanded, n, op, j)
<1> PICK chunks \in Int : P!processContentInPipeline(kind, u, chunks, expanded)
  BY DEF P!StartJob
<1>1. PICK p \in Nat : Started(kind, u, expanded, n, p)
  BY StartsIn
<1> PICK a : a = P!Call("chunk", n)
  OBVIOUS
<1> PICK c : c = P!CallWith(op, j, <<n>>)
  OBVIOUS
<1>2. a \in CallRecord /\ a.op = "chunk" /\ a.of = n
  <2>1. n \in Nat /\ "chunk" \in Ops
    BY <1>1 DEF Started, Ops, FeedOps
  <2> QED
    BY <2>1, CallsAre
<1>3. c \in CallRecord /\ c.op = op /\ c.of = j /\ c.arg = <<n>>
  <2>1. n \in Nat /\ op \in Ops
    BY <1>1 DEF Started, Ops
  <2> QED
    BY <2>1, CallsAre
<1>4. stack' = <<a, c>> \o Tail(stack)
  <2>1. stack' = <<a>> \o <<c>> \o Tail(stack)
    BY DEF P!StartJob
  <2>2. <<a>> \o <<c>> = <<a, c>>
    <3>1. <<a>> \in Seq(CallRecord) /\ <<c>> \in Seq(CallRecord) /\ <<a, c>> \in Seq(CallRecord)
      BY <1>2, <1>3
    <3> PICK s, t : s = <<a>> \o <<c>> /\ t = <<a, c>>
      OBVIOUS
    <3>4. s \in Seq(CallRecord) /\ t \in Seq(CallRecord)
      BY <3>1
    <3>2. Len(s) = 2 /\ s[1] = a /\ s[2] = c /\ Len(t) = 2 /\ t[1] = a /\ t[2] = c
      BY <3>1
    <3>3. \A i \in 1..Len(s) : s[i] = t[i]
      <4>1. \A i \in 1..2 : i = 1 \/ i = 2
        OBVIOUS
      <4> QED
        BY <3>2, <4>1
    <3> QED
      BY <3>2, <3>3, <3>4, SeqEqual
  <2> QED
    BY <2>1, <2>2
<1> QED
  BY <1>1, <1>2, <1>3, <1>4 DEF StartedBy

LEMMA ChunkOfJobKeeps == ASSUME IInv, P!ChunkOfJob PROVE IInv'
<1> PICK j : j = Head(stack).of
  OBVIOUS
<1> PICK n : n = Len(jobs) + 1
  OBVIOUS
<1> PICK expanded : expanded = jobs[j].expanded
  OBVIOUS
<1>1. PICK kind \in P!Startable(j) :
        P!StartJob(kind, j, expanded, <<P!CallWith("transformed", j, <<n>>)>>)
  BY DEF P!ChunkOfJob
<1>2. stack # <<>> /\ Head(stack).op = "chunk" /\ timers' = timers /\ settled' = settled
  BY DEF P!ChunkOfJob
<1>3. j \in DOMAIN jobs /\ j \in Nat /\ Running(j) /\ expanded \in BOOLEAN
  <2>1. FeedOK(Head(stack))
    BY <1>2, HeadIs
  <2>2. j \in DOMAIN jobs /\ Running(j)
    BY <1>2, <2>1 DEF FeedOK, FeedOps
  <2>3. jobs[j] \in Job
    BY <2>2, Typed
  <2> QED
    BY <2>2, <2>3, Typed DEF Job
<1>4. kind \in P!Kinds /\ (expanded => kind = "attribute")
  BY <1>1 DEF P!Startable, P!Kinds
<1>5. Gentle(Head(stack)) => expanded
  BY <1>2 DEF Gentle, FeedOps
<1>6. StartedBy(kind, j, expanded, n, "transformed", j)
  <2>1. Head(stack).op \in {"chunk", "result"} /\ "transformed" \in {"transformed", "transformedAgain"}
    BY <1>2
  <2> PICK rest : rest = <<P!CallWith("transformed", j, <<n>>)>>
    OBVIOUS
  <2>2. P!StartJob(kind, j, expanded, rest)
    BY <1>1, Zenon
  <2> QED
    BY <1>2, <1>3, <1>4, <2>1, <2>2, StartJobIs
<1>7. PICK a \in CallRecord, c \in CallRecord, p \in Nat :
        /\ Started(kind, j, expanded, n, p)
        /\ a.op = "chunk" /\ a.of = n /\ c.op = "transformed" /\ c.of = j /\ c.arg = <<n>>
        /\ stack' = <<a, c>> \o Tail(stack)
  BY <1>6 DEF StartedBy
<1> QED
  BY <1>2, <1>3, <1>4, <1>5, <1>7, Starts

LEMMA ResultOfJobsKeeps == ASSUME IInv, P!ResultOfJobs PROVE IInv'
<1> PICK j : j = Head(stack).of
  OBVIOUS
<1> PICK u : u = jobs[j].parent
  OBVIOUS
<1> PICK n : n = Len(jobs) + 1
  OBVIOUS
<1>1. PICK kind \in P!Later(j) :
        P!StartJob(kind, u, kind = "attribute", <<P!CallWith("transformedAgain", j, <<n>>)>>)
  BY DEF P!ResultOfJobs
<1>2. /\ stack # <<>> /\ Head(stack).op = "result" /\ timers' = timers /\ settled' = settled
      /\ u # 0 /\ <<"child", j>> \in Range(jobs[u].waiting)
  BY DEF P!ResultOfJobs, P!Range, Range
<1>3. j \in DOMAIN jobs /\ j \in Nat /\ u \in DOMAIN jobs /\ Running(u)
  <2>1. ResultOK(Head(stack))
    BY <1>2, HeadIs
  <2>2. j \in DOMAIN jobs /\ jobs[j].state # "done"
    BY <1>2, <2>1 DEF ResultOK
  <2> QED
    BY <1>2, <2>2, ParentRuns, Typed
<1>4. PICK expanded \in BOOLEAN : expanded = (kind = "attribute")
  <2>1. (kind = "attribute") \in BOOLEAN
    BY Zenon
  <2> QED
    BY <2>1, Zenon
<1>5. kind \in P!Kinds /\ (expanded => kind = "attribute")
  BY <1>1, <1>4 DEF P!Later, P!Kinds
<1>6. Gentle(Head(stack)) => expanded
  <2>1. Gentle(Head(stack)) => jobs[j].kind # "attribute" \/ jobs[j].expanded
    BY <1>2 DEF Gentle
  <2>2. kind # "attribute" => jobs[j].kind = "attribute" /\ ~jobs[j].expanded
    <3>1. jobs[j].expanded \in BOOLEAN
      BY <1>3, Typed DEF Job
    <3>2. CASE jobs[j].expanded
      BY <1>1, <3>2 DEF P!Later
    <3>3. CASE ~jobs[j].expanded
      BY <1>1, <3>3 DEF P!Later
    <3> QED
      BY <3>1, <3>2, <3>3
  <2> QED
    BY <1>4, <2>1, <2>2
<1>7. P!StartJob(kind, u, expanded, <<P!CallWith("transformedAgain", j, <<n>>)>>)
  BY <1>1, <1>4, Zenon
<1>8. StartedBy(kind, u, expanded, n, "transformedAgain", j)
  <2>1. Head(stack).op \in {"chunk", "result"} /\ "transformedAgain" \in {"transformed", "transformedAgain"}
    BY <1>2
  <2> PICK rest : rest = <<P!CallWith("transformedAgain", j, <<n>>)>>
    OBVIOUS
  <2>2. P!StartJob(kind, u, expanded, rest)
    BY <1>7, Zenon
  <2> QED
    BY <1>2, <1>3, <1>5, <2>1, <2>2, StartJobIs
<1>9. PICK a \in CallRecord, c \in CallRecord, p \in Nat :
        /\ Started(kind, u, expanded, n, p)
        /\ a.op = "chunk" /\ a.of = n /\ c.op = "transformedAgain" /\ c.of = j /\ c.arg = <<n>>
        /\ stack' = <<a, c>> \o Tail(stack)
  BY <1>8 DEF StartedBy
<1> QED
  BY <1>2, <1>3, <1>5, <1>6, <1>9, Starts

-----------------------------------------------------------------------------
(* The theorems *)

LEMMA StartsRight == ASSUME P!Init PROVE IInv
<1>1. PICK chunks \in 1..MaxChunks :
        jobs = <<[kind |-> "page", parent |-> 0, pipe |-> 1, left |-> chunks, expanded |-> FALSE,
                  inTemplate |-> FALSE, depth |-> 0, items |-> <<>>, waiting |-> <<>>, closed |-> FALSE,
                  got |-> <<>>, state |-> "running"]>>
  BY Zenon DEF P!Init
<1>2. PICK key \in P!Keys : key = P!getCacheKey("page", FALSE) /\ key[1] = P!Recipe("page")
  <2>1. <<"page", FALSE>> \in P!Kinds \X BOOLEAN /\ <<"page", FALSE>>[1] = "page" /\ <<"page", FALSE>>[2] = FALSE
    BY DEF P!Kinds
  <2>2. P!getCacheKey("page", FALSE) \in P!Keys
    BY <2>1, Zenon DEF P!Keys
  <2> QED
    BY <2>2 DEF P!getCacheKey
<1> PICK none \in Seq(Item) : none = <<>>
  <2>1. <<>> \in Seq(Item)
    OBVIOUS
  <2> QED
    BY <2>1
<1> PICK pj : pj = [kind |-> "page", parent |-> 0, pipe |-> 1, left |-> chunks, expanded |-> FALSE,
                    inTemplate |-> FALSE, depth |-> 0, items |-> none, waiting |-> none, closed |-> FALSE,
                    got |-> none, state |-> "running"]
  OBVIOUS
<1> PICK pp : pp = [key |-> key, frame |-> 0, tail |-> FALSE, tree |-> none, user |-> 1]
  OBVIOUS
<1> PICK c : c = P!Call("chunk", 1)
  OBVIOUS
<1>3. pj \in Job /\ pp \in PipeRecord /\ c \in CallRecord /\ c.op = "chunk" /\ c.of = 1
  <2>1. "page" \in P!Kinds /\ "chunk" \in Ops
    BY DEF P!Kinds, Ops, FeedOps
  <2>2. c \in CallRecord /\ c.op = "chunk" /\ c.of = 1
    <3> PICK op \in Ops, one \in Nat : op = "chunk" /\ one = 1
      BY <2>1
    <3> PICK x : x = P!CallWith(op, one, <<one>>)
      OBVIOUS
    <3>1. c = P!Call(op, one)
      OBVIOUS
    <3> QED
      BY <3>1, CallsAre
  <2>3. pj \in Job
    BY <2>1 DEF Job
  <2>4. pp \in PipeRecord
    BY DEF PipeRecord
  <2> QED
    BY <2>2, <2>3, <2>4
<1>4. /\ jobs = <<pj>> /\ pipes = <<pp>> /\ stack = <<c>> /\ timers = {} /\ settled = {}
      /\ cache = [k \in P!Keys |-> <<>>]
  BY <1>1, <1>2 DEF P!Init, P!NewPipe
<1>5. /\ jobs \in Seq(Job) /\ pipes \in Seq(PipeRecord) /\ stack \in Seq(CallRecord)
      /\ cache \in [P!Keys -> Seq(Nat)]
      /\ DOMAIN jobs = {1} /\ DOMAIN pipes = {1} /\ DOMAIN stack = {1}
      /\ jobs[1] = pj /\ pipes[1] = pp /\ stack[1] = c
      /\ \A key2 \in P!Keys : DOMAIN cache[key2] = {}
  <2>1. /\ jobs \in Seq(Job) /\ pipes \in Seq(PipeRecord) /\ stack \in Seq(CallRecord)
        /\ DOMAIN jobs = {1} /\ DOMAIN pipes = {1} /\ DOMAIN stack = {1}
        /\ jobs[1] = pj /\ pipes[1] = pp /\ stack[1] = c
    BY <1>3, <1>4
  <2>2. cache \in [P!Keys -> Seq(Nat)] /\ \A key2 \in P!Keys : DOMAIN cache[key2] = {}
    BY <1>4
  <2> QED
    BY <2>1, <2>2
<1>6. /\ jobs[1].kind = "page" /\ jobs[1].parent = 0 /\ jobs[1].pipe = 1 /\ ~jobs[1].expanded
      /\ jobs[1].depth = 0 /\ jobs[1].items = <<>> /\ jobs[1].waiting = <<>> /\ ~jobs[1].closed
      /\ jobs[1].got = <<>> /\ jobs[1].state = "running"
      /\ pipes[1].key = key /\ pipes[1].frame = 0 /\ pipes[1].tree = <<>> /\ pipes[1].user = 1
  BY <1>5
<1>7. On = {c}
  BY <1>5 DEF On
<1>8. TypeOK
  BY <1>4, <1>5 DEF TypeOK
<1>9. JobsOK
  <2>1. \A s : s = <<>> => Children(s) = {} /\ s \o s = <<>>
    BY DEF Children, Range
  <2>2. Out(1) = <<>>
    BY <1>6 DEF Out
  <2>3. Children(jobs[1].items) = {} /\ Children(Out(1)) = {} /\ jobs[1].items = Out(1) \o jobs[1].waiting
    BY <1>6, <2>1, <2>2
  <2>4. JobOK(1)
    <3>1. jobs[1].parent < 1 /\ jobs[1].pipe \in DOMAIN pipes /\ Children(jobs[1].items) \subseteq DOMAIN jobs
      BY <1>5, <1>6, <2>3
    <3>2. pipes[jobs[1].pipe].key[1] = P!Recipe(jobs[1].kind) /\ ~jobs[1].expanded
      BY <1>2, <1>6
    <3> QED
      BY <3>1, <3>2 DEF JobOK
  <2>5. RunningOK(1)
    BY <1>5, <1>6, <2>3 DEF RunningOK, User
  <2>6. EndedOK(1) /\ TailOK(1)
    BY <1>6 DEF EndedOK, TailOK, Running
  <2> QED
    BY <1>5, <2>4, <2>5, <2>6 DEF JobsOK
<1>10. ControlOK
  BY <1>3, <1>5, <1>6, <1>7 DEF ControlOK, Fed, FeedOps
<1>11. ParentsWait /\ PipesOK /\ CacheOK /\ TimersOK /\ SettledOK
  BY <1>4, <1>5, <1>6 DEF ParentsWait, PipesOK, CacheOK, TimersOK, SettledOK, User
<1>12. CallsOK
  BY <1>3, <1>4, <1>5, <1>6, <1>7 DEF CallsOK, FeedOK, EndOK, HeardOK, ResultOK, ResetOK,
     FeedOps, EndOps, HeardOps, Running
<1>13. Ordered
  BY <1>5 DEF Ordered
<1> QED
  BY <1>8, <1>9, <1>10, <1>11, <1>12, <1>13 DEF IInv

LEMMA StepKeeps == ASSUME IInv, [P!Next]_pipelineVars PROVE IInv'
<1>1. CASE UNCHANGED pipelineVars
  <2>1. /\ jobs' = jobs /\ pipes' = pipes /\ cache' = cache /\ stack' = stack
        /\ timers' = timers /\ settled' = settled
    BY <1>1 DEF pipelineVars
  <2>2. TypeOK' = TypeOK
    BY <2>1 DEF TypeOK
  <2>3. JobsOK' = JobsOK
    BY <2>1 DEF JobsOK, JobOK, RunningOK, EndedOK, TailOK, Running, Ends, User, ToDocument, Out
  <2>4. On' = On /\ \A i : Running(i)' = Running(i) /\ User(i)' = User(i) /\ Ends(i)' = Ends(i)
                         /\ ToDocument(i)' = ToDocument(i)
    BY <2>1 DEF On, Running, User, Ends, ToDocument
  <2>5. \A i : HeardBy(i)' = HeardBy(i)
    BY <2>4 DEF HeardBy
  <2>6. \A i : AtEnd(i)' = AtEnd(i) /\ Fed(i)' = Fed(i) /\ WaitedFor(i)' = WaitedFor(i)
    BY <2>1, <2>4, <2>5 DEF AtEnd, Fed, WaitedFor
  <2>7. ControlOK' = ControlOK /\ ParentsWait' = ParentsWait
    BY <2>1, <2>4, <2>6 DEF ControlOK, ParentsWait
  <2>8. PipesOK' = PipesOK /\ TimersOK' = TimersOK /\ SettledOK' = SettledOK
    BY <2>1 DEF PipesOK, User, TimersOK, Running, SettledOK
  <2>9. CacheOK' = CacheOK
    BY <2>1 DEF CacheOK, Running, User, HeardBy, On
  <2>10. CallsOK' = CallsOK
    <3>1. \A c : /\ FeedOK(c)' = FeedOK(c) /\ HeardOK(c)' = HeardOK(c) /\ ResultOK(c)' = ResultOK(c)
      BY <2>1, <2>4 DEF FeedOK, HeardOK, ResultOK
    <3>2. \A c : EndOK(c)' = EndOK(c) /\ ResetOK(c)' = ResetOK(c)
      BY <2>1 DEF EndOK, ResetOK, Ends, Running, User, ToDocument, HeardBy, AtEnd, On
    <3> QED
      BY <2>4, <3>1, <3>2 DEF CallsOK
  <2>11. Ordered' = Ordered
    BY <2>1 DEF Ordered, Over, Gentle, User
  <2> QED
    BY <2>2, <2>3, <2>7, <2>8, <2>9, <2>10, <2>11 DEF IInv
<1>2. CASE P!Next
  BY <1>2, ChunkKeeps, ChunkOfJobKeeps, TransformedKeeps, SetImmediateKeeps, TokenizeChunkKeeps,
     OnEndEventKeeps, ResetKeeps, TreeBuilderOnEndKeeps, TreeBuilderResetStateKeeps, EmitEndKeeps,
     ReturnPipelineKeeps, DocumentCBKeeps, EndCBKeeps, SettleKeeps, ResultKeeps, ResultOfJobsKeeps,
     TransformedAgainKeeps, Zenon DEF P!Next
<1> QED
  BY <1>1, <1>2

\* The invariant of the part of the specification that is about pipelines.
PipelinesInv == part = "pipelines" => IInv

\* The invariant holds from the start of a page's expansion on: of every job, every
\* pipeline and every call of the turn, whatever the page holds and however many
\* pipelines the cache keeps.
THEOREM PipelinesInvariant == Spec => []PipelinesInv
<1>1. Init => PipelinesInv
  BY StartsRight DEF Init, PipelinesInv
<1>2. PipelinesInv /\ [Next]_vars => PipelinesInv'
  <2> SUFFICES ASSUME PipelinesInv, [Next]_vars, part' = "pipelines" PROVE IInv'
    BY DEF PipelinesInv
  <2>1. part = "pipelines" /\ [P!Next]_pipelineVars
    BY DEF Next, PipelinesStep, TransclusionStep, AttributesStep, vars
  <2> QED
    BY <2>1, StepKeeps DEF PipelinesInv
<1> QED
  BY <1>1, <1>2, PTL DEF Spec

LEMMA PrefixIs ==
    ASSUME NEW s \in Seq(Item), NEW t \in Seq(Item), NEW w \in Seq(Item), s = t \/ s = <<>> \/ t = s \o w
    PROVE  P!IsPrefix(s, t)
<1>1. Len(s) \in Nat /\ Len(t) \in Nat /\ Len(s) <= Len(t)
  BY Len(w) \in Nat
<1> PICK a, b : a = SubSeq(s, 1, Len(s)) /\ b = SubSeq(t, 1, Len(s))
  OBVIOUS
<1>2. a \in Seq(Item) /\ b \in Seq(Item) /\ Len(a) = Len(s) /\ Len(b) = Len(s)
  BY <1>1
<1>3. \A i \in 1..Len(a) : a[i] = b[i]
  <2>1. \A i \in 1..Len(s) : a[i] = s[i] /\ b[i] = t[i]
    BY <1>1
  <2>2. \A i \in 1..Len(s) : s[i] = t[i]
    BY <1>1
  <2> QED
    BY <1>2, <2>1, <2>2
<1>4. a = b
  BY <1>2, <1>3, SeqEqual
<1> QED
  BY <1>1, <1>4 DEF P!IsPrefix

LEMMA OwnContentFollows == ASSUME IInv PROVE P!OwnContent /\ P!PipelineIsItsOwn
<1>1. ASSUME NEW j \in DOMAIN jobs
      PROVE  IF jobs[j].state = "done" THEN jobs[j].got = jobs[j].items
             ELSE P!IsPrefix(jobs[j].got, jobs[j].items)
  <2>1. /\ jobs[j].items \in Seq(Item) /\ jobs[j].waiting \in Seq(Item) /\ jobs[j].got \in Seq(Item)
        /\ Out(j) \in Seq(Item) /\ RunningOK(j) /\ EndedOK(j)
    BY Typed
  <2> PICK s \in Seq(Item), t \in Seq(Item), w \in Seq(Item) :
        s = jobs[j].got /\ t = jobs[j].items /\ w = jobs[j].waiting
    BY <2>1
  <2>2. CASE ~Running(j)
    <3>1. s = t
      BY <2>1, <2>2 DEF EndedOK
    <3> QED
      BY <3>1 DEF P!IsPrefix
  <2>3. CASE Running(j)
    <3>1. s = t \/ s = <<>> \/ t = s \o w
      BY <2>1, <2>3 DEF RunningOK, Out
    <3>2. P!IsPrefix(s, t)
      BY <3>1, PrefixIs
    <3> QED
      BY <2>3, <3>2 DEF Running
  <2> QED
    BY <2>2, <2>3
<1>2. P!PipelineIsItsOwn
  BY Typed DEF P!PipelineIsItsOwn, P!Pipe, RunningOK, Running, User
<1> QED
  BY <1>1, <1>2 DEF P!OwnContent

\* However the turns of its jobs interleave, and whichever pipelines are given back,
\* taken again and reset on the way, the user of a pipeline is given what came of its
\* own content, in order, and a pipeline in use is nobody else's.
THEOREM PipelinesGiveOwnContent == Spec => []OwnContent
<1>1. PipelinesInv => OwnContent
  BY OwnContentFollows DEF PipelinesInv, OwnContent
<1> QED
  BY <1>1, PipelinesInvariant, PTL
=============================================================================
