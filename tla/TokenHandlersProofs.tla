------------------------- MODULE TokenHandlersProofs -------------------------
(***************************************************************************)
(* Proofs about the synchronous token handlers, for every bound of the     *)
(* stage.  Each handler has an inductive invariant over its own fields:    *)
(*                                                                         *)
(*   PreInv      which buffers are in use in each state of the machine of  *)
(*               indented lines, and that a collected line has its newline *)
(*               in the buffer                                             *)
(*   ParaInv     newlines are counted only while the line is empty but for *)
(*               blanks, and are seen exactly outside an indented block    *)
(*   QuotesInv   every second chunk of a line is one run of 2, 3 or 5      *)
(*   ListInv     the list tags and tables a consumer has open are those    *)
(*               that the frames of the handler have end tags for          *)
(*   PatcherInv  on the page itself the nesting that is counted is that of *)
(*               the tables a consumer has open                            *)
(*                                                                         *)
(* From them follows that what the code asserts, throws or dereferences    *)
(* without a check cannot go wrong, and that the end of the page closes    *)
(* what is open and leaves nothing behind.  For the quotes the machine of  *)
(* the conversion has an invariant of its own, ConvOK: a tag that is open  *)
(* in its state was the last one seen of its name, as an opening tag.  For *)
(* lists, GivesTags says of an answer what is open before and after it.    *)
(***************************************************************************)
EXTENDS TokenHandlers, SequencesExt, FiniteSetsExt, SequenceTheorems, FiniteSetTheorems, TLAPS

-----------------------------------------------------------------------------
(* PreHandler *)

Kinds == {Pre!Nl, Pre!Space, Pre!Text, Pre!Sol, Pre!Rule, Pre!BlockTag, Pre!Inline, Pre!EOFTk}

PreStates == {Pre!SOL, Pre!PRE, Pre!PRE_COLLECT, Pre!MULTILINE_PRE, Pre!IGNORE}

PreFields ==
    [state : PreStates, any : BOOLEAN, lastNlTk : Seq(Kinds), tokens : Seq(Kinds),
     preCollectCurrentLine : Seq(Kinds), preWSToken : Seq(Kinds), multiLinePreWSToken : Seq(Kinds),
     solTransparentTokens : Seq(Kinds)]

\* Collected lines end in a newline and what is transparent to the start of a line.
LineBegun(tokens) ==
    \E k \in 1..Len(tokens) :
        tokens[k] = Pre!Nl /\ \A j \in (k + 1)..Len(tokens) : Pre!isSolTransparent(tokens[j])

SolTokens == Seq({Pre!Sol, Pre!Space})

\* The buffers in each state of the handler.
PreState(h) ==
    /\ h \in PreFields
    /\ h.any <=> h.state # Pre!IGNORE
    /\ h.preWSToken \in {<<>>, <<Pre!Space>>} /\ h.multiLinePreWSToken \in {<<>>, <<Pre!Space>>}
InSol(h) ==
    /\ h.state = Pre!SOL
    /\ h.lastNlTk = <<>> /\ h.preCollectCurrentLine = <<>> /\ h.preWSToken = <<>>
    /\ h.multiLinePreWSToken = <<>> /\ h.solTransparentTokens = <<>>
InPreState(h) ==
    /\ h.state = Pre!PRE
    /\ h.tokens = <<>> /\ h.lastNlTk = <<>> /\ h.preCollectCurrentLine = <<>>
    /\ h.preWSToken = <<Pre!Space>> /\ h.multiLinePreWSToken = <<>>
    /\ h.solTransparentTokens \in SolTokens
InCollect(h) ==
    /\ h.state = Pre!PRE_COLLECT
    /\ h.lastNlTk = <<>> /\ h.solTransparentTokens = <<>>
    /\ h.tokens = <<>> \/ LineBegun(h.tokens)
    /\ h.preCollectCurrentLine = <<>> => h.tokens # <<>> /\ h.multiLinePreWSToken # <<>>
InMultiline(h) ==
    /\ h.state = Pre!MULTILINE_PRE
    /\ h.tokens # <<>> /\ h.lastNlTk = <<Pre!Nl>> /\ h.preCollectCurrentLine = <<>>
    /\ h.solTransparentTokens \in SolTokens
InIgnore(h) ==
    /\ h.state = Pre!IGNORE
    /\ h.tokens = <<>> /\ h.lastNlTk = <<>> /\ h.preCollectCurrentLine = <<>>
    /\ h.multiLinePreWSToken = <<>> /\ h.solTransparentTokens = <<>>
PreOK(h) == PreState(h) /\ (InSol(h) \/ InPreState(h) \/ InCollect(h) \/ InMultiline(h) \/ InIgnore(h))

PreInv ==
    /\ called = FALSE
    /\ PreOK(handler)
    /\ input = <<Pre!EOFTk>> => handler = Pre!NewHandler

LEMMA ResultOf == \A h, out : Pre!Result(h, out).handler = h /\ Pre!Result(h, out).out = out
  BY DEF Pre!Result

LEMMA NoTokens == <<>> \in Seq(Kinds)
  OBVIOUS

\* A field set to what it holds.
LEMMA SameField ==
    ASSUME NEW f, f = [y \in DOMAIN f |-> f[y]], NEW x \in DOMAIN f
    PROVE  [f EXCEPT ![x] = f[x]] = f
  OBVIOUS

LEMMA NewPre ==
    ASSUME NEW h, PreState(h), NEW add \in BOOLEAN, h.any \/ add
    PROVE  Pre!reset(h, add) = Pre!NewHandler /\ PreOK(Pre!NewHandler)
<1>0. (h.any \/ add) = TRUE
  BY Zenon
<1>1. Pre!reset(h, add) = [Pre!NewHandler EXCEPT !.any = TRUE]
  BY ONLY <1>0, Zenon DEF Pre!reset
<1>3. [Pre!NewHandler EXCEPT !.any = TRUE] = Pre!NewHandler
  <2>1. /\ Pre!NewHandler.any = TRUE /\ "any" \in DOMAIN Pre!NewHandler
        /\ Pre!NewHandler = [y \in DOMAIN Pre!NewHandler |-> Pre!NewHandler[y]]
    BY DEF Pre!NewHandler
  <2> QED
    BY ONLY <2>1, SameField, Zenon
<1>2. PreState(Pre!NewHandler) /\ InSol(Pre!NewHandler)
  BY DEF PreState, PreFields, PreStates, InSol, Pre!NewHandler, Pre!SOL, Pre!IGNORE, Kinds
<1> QED
  BY <1>1, <1>2, <1>3 DEF PreOK

\* All that is held goes out.
Empty(h) ==
    /\ h.tokens = <<>> /\ h.lastNlTk = <<>> /\ h.multiLinePreWSToken = <<>> /\ h.solTransparentTokens = <<>>

LEMMA Resets ==
    ASSUME NEW h, PreState(h), NEW token
    PROVE  LET r == Pre!getResultAndReset(h, token).handler
           IN  /\ PreState(r) /\ Empty(r) /\ r.preWSToken = <<>> /\ r.state = h.state
               /\ r.any = h.any
               /\ r.preCollectCurrentLine = h.preCollectCurrentLine
<1> DEFINE r == [h EXCEPT !.tokens = <<>>, !.lastNlTk = <<>>, !.preWSToken = <<>>,
                     !.solTransparentTokens = <<>>, !.multiLinePreWSToken = <<>>]
<1>1. Pre!getResultAndReset(h, token).handler = r
  BY ONLY ResultOf DEF Pre!getResultAndReset
<1>2. r \in PreFields
  BY NoTokens DEF PreState, PreFields
<1>3. /\ Empty(r) /\ r.preWSToken = <<>> /\ r.state = h.state 
      /\ r.preCollectCurrentLine = h.preCollectCurrentLine
  BY DEF PreState, PreFields, Empty
<1>4. r.any = h.any
  BY DEF PreState, PreFields
<1> HIDE DEF r
<1> QED
  BY <1>1, <1>2, <1>3, <1>4, Zenon DEF PreState, Empty

LEMMA Processes ==
    ASSUME NEW h, PreState(h), NEW token
    PROVE  LET r == Pre!processPre(h, token).handler
           IN  /\ PreState(r) /\ Empty(r) /\ r.preWSToken = h.preWSToken /\ r.state = h.state
               /\ r.any = h.any
               /\ r.preCollectCurrentLine = h.preCollectCurrentLine
<1> DEFINE r == [h EXCEPT !.tokens = <<>>, !.multiLinePreWSToken = <<>>, !.lastNlTk = <<>>,
                         !.solTransparentTokens = <<>>]
<1>1. Pre!processPre(h, token).handler = r
  BY ONLY ResultOf DEF Pre!processPre
<1>2. r \in PreFields
  BY NoTokens DEF PreState, PreFields
<1>3. /\ Empty(r) /\ r.preWSToken = h.preWSToken /\ r.state = h.state 
      /\ r.preCollectCurrentLine = h.preCollectCurrentLine
  BY DEF PreState, PreFields, Empty
<1>4. r.any = h.any
  BY DEF PreState, PreFields
<1> HIDE DEF r
<1> QED
  BY <1>1, <1>2, <1>3, <1>4, Zenon DEF PreState, Empty

IsResult(r) == r = Pre!Result(r.handler, r.out)

LEMMA BothAreResults ==
    ASSUME NEW h, NEW token
    PROVE  IsResult(Pre!getResultAndReset(h, token)) /\ IsResult(Pre!processPre(h, token))
<1>1. \A g, out : IsResult(Pre!Result(g, out))
  BY Zenon, ResultOf DEF IsResult
<1>2. IsResult(Pre!getResultAndReset(h, token))
  BY ONLY <1>1 DEF Pre!getResultAndReset
<1>3. IsResult(Pre!processPre(h, token))
  BY ONLY <1>1 DEF Pre!processPre
<1> QED
  BY <1>2, <1>3

\* What a change of state keeps.
SameBuffers(g, h) ==
    /\ g.tokens = h.tokens /\ g.lastNlTk = h.lastNlTk /\ g.preWSToken = h.preWSToken
    /\ g.multiLinePreWSToken = h.multiLinePreWSToken
    /\ g.solTransparentTokens = h.solTransparentTokens
    /\ g.preCollectCurrentLine = h.preCollectCurrentLine

LEMMA Enters ==
    ASSUME NEW r, IsResult(r), r.handler \in PreFields, NEW s \in PreStates
    PROVE  LET e == Pre!Enter(r, s).handler
           IN  e \in PreFields /\ SameBuffers(e, r.handler) /\ e.state = s /\ e.any = r.handler.any
<1> DEFINE e == [r.handler EXCEPT !.state = s]
<1>1. Pre!Enter(r, s).handler = e
  <2>1. "handler" \in DOMAIN r
    BY DEF IsResult, Pre!Result
  <2> QED
    BY <2>1 DEF Pre!Enter
<1>2. e \in PreFields /\ SameBuffers(e, r.handler) /\ e.state = s
  BY DEF PreFields, SameBuffers
<1>3. e.any = r.handler.any
  BY DEF PreFields
<1> QED
  BY <1>1, <1>2, <1>3, Zenon

LEMMA Ignores ==
    ASSUME NEW r, IsResult(r), r.handler \in PreFields
    PROVE  LET e == Pre!moveToIgnoreState(r).handler
           IN  e \in PreFields /\ SameBuffers(e, r.handler) /\ e.state = Pre!IGNORE /\ ~e.any
<1> DEFINE e == [r.handler EXCEPT !.state = Pre!IGNORE, !.any = FALSE]
<1>1. Pre!moveToIgnoreState(r).handler = e
  <2>1. "handler" \in DOMAIN r
    BY DEF IsResult, Pre!Result
  <2> QED
    BY <2>1 DEF Pre!moveToIgnoreState
<1>2. e \in PreFields /\ SameBuffers(e, r.handler) /\ e.state = Pre!IGNORE
  BY DEF PreFields, SameBuffers, PreStates
<1>3. e.any = FALSE
  BY DEF PreFields
<1> QED
  BY <1>1, <1>2, <1>3, Zenon

LEMMA States ==
    /\ Pre!SOL # Pre!IGNORE /\ Pre!PRE # Pre!IGNORE /\ Pre!PRE_COLLECT # Pre!IGNORE
    /\ Pre!MULTILINE_PRE # Pre!IGNORE /\ Pre!SOL # Pre!PRE /\ Pre!SOL # Pre!PRE_COLLECT
    /\ Pre!SOL # Pre!MULTILINE_PRE /\ Pre!PRE # Pre!PRE_COLLECT /\ Pre!PRE # Pre!MULTILINE_PRE
    /\ Pre!PRE_COLLECT # Pre!MULTILINE_PRE
    /\ {Pre!SOL, Pre!PRE, Pre!PRE_COLLECT, Pre!MULTILINE_PRE, Pre!IGNORE} = PreStates
  BY DEF Pre!SOL, Pre!PRE, Pre!PRE_COLLECT, Pre!MULTILINE_PRE, Pre!IGNORE, PreStates

LEMMA CollectsLine ==
    ASSUME NEW h, PreState(h)
    PROVE  LET r == Pre!resetPreCollectCurrentLine(h)
           IN  /\ PreState(r) /\ r.state = h.state /\ r.any = h.any
               /\ r.preCollectCurrentLine = <<>> /\ r.lastNlTk = h.lastNlTk
               /\ r.solTransparentTokens = h.solTransparentTokens /\ r.preWSToken = h.preWSToken
               /\ h.preCollectCurrentLine # <<>> \/ h.tokens # <<>> => r.tokens # <<>>
<1>1. CASE h.preCollectCurrentLine = <<>>
  BY <1>1, Zenon DEF Pre!resetPreCollectCurrentLine
<1>2. CASE h.preCollectCurrentLine # <<>>
  <2> DEFINE r == [h EXCEPT !.tokens = h.tokens \o h.preCollectCurrentLine,
                            !.preCollectCurrentLine = <<>>, !.multiLinePreWSToken = <<>>]
  <2>1. Pre!resetPreCollectCurrentLine(h) = r
    BY <1>2 DEF Pre!resetPreCollectCurrentLine, PreState, PreFields
  <2>2. h.tokens \o h.preCollectCurrentLine \in Seq(Kinds) /\ h.tokens \o h.preCollectCurrentLine # <<>>
    <3>1. h.tokens \in Seq(Kinds) /\ h.preCollectCurrentLine \in Seq(Kinds)
      BY DEF PreState, PreFields
    <3> QED
      BY ONLY <3>1, <1>2
  <2>3. r \in PreFields
    BY <2>2, NoTokens DEF PreState, PreFields
  <2>4. /\ r.state = h.state /\ r.preCollectCurrentLine = <<>> /\ r.lastNlTk = h.lastNlTk
        /\ r.solTransparentTokens = h.solTransparentTokens /\ r.preWSToken = h.preWSToken
        /\ r.tokens # <<>> /\ r.multiLinePreWSToken = <<>>
    BY <2>2 DEF PreState, PreFields
  <2>5. r.any = h.any
    BY DEF PreState, PreFields
  <2> HIDE DEF r
  <2> QED
    BY <2>1, <2>3, <2>4, <2>5, Zenon DEF PreState
<1> QED
  BY <1>1, <1>2, Zenon

LEMMA Cases ==
    ASSUME NEW h, PreOK(h)
    PROVE  /\ PreState(h) /\ h \in PreFields /\ h.state \in PreStates
           /\ h.state = Pre!SOL => InSol(h)
           /\ h.state = Pre!PRE => InPreState(h)
           /\ h.state = Pre!PRE_COLLECT => InCollect(h)
           /\ h.state = Pre!MULTILINE_PRE => InMultiline(h)
           /\ h.state = Pre!IGNORE => InIgnore(h)
  BY States, Zenon DEF PreOK, PreState, InSol, InPreState, InCollect, InMultiline, InIgnore, PreFields

\* A line that is over, and all that was held with it.
LEMMA StartsLine ==
    ASSUME NEW r, IsResult(r), PreState(r.handler), Empty(r.handler), r.handler.any,
           r.handler.preWSToken = <<>>, r.handler.preCollectCurrentLine = <<>>
    PROVE  PreOK(Pre!Enter(r, Pre!SOL).handler)
<1> DEFINE e == Pre!Enter(r, Pre!SOL).handler
<1>1. e \in PreFields /\ SameBuffers(e, r.handler) /\ e.state = Pre!SOL /\ e.any = r.handler.any
  BY Enters, States, Zenon DEF PreState
<1> HIDE DEF e
<1>2. PreState(e) /\ InSol(e)
  BY <1>1, States, Zenon DEF PreState, InSol, SameBuffers, Empty
<1> QED
  BY <1>2, Zenon DEF PreOK, e

LEMMA LeavesLine ==
    ASSUME NEW r, IsResult(r), PreState(r.handler), Empty(r.handler),
           r.handler.preCollectCurrentLine = <<>>
    PROVE  PreOK(Pre!moveToIgnoreState(r).handler)
<1> DEFINE e == Pre!moveToIgnoreState(r).handler
<1>1. e \in PreFields /\ SameBuffers(e, r.handler) /\ e.state = Pre!IGNORE /\ ~e.any
  BY Ignores, Zenon DEF PreState
<1> HIDE DEF e
<1>2. PreState(e) /\ InIgnore(e)
  BY <1>1, Zenon DEF PreState, InIgnore, SameBuffers, Empty
<1> QED
  BY <1>2, Zenon DEF PreOK, e

LEMMA NewlineKeeps ==
    ASSUME NEW h, PreOK(h)
    PROVE  PreOK(Pre!onNewline(h).handler)
<1>0. /\ PreState(h) /\ h \in PreFields /\ h.state \in PreStates
      /\ h.state = Pre!SOL => InSol(h)
      /\ h.state = Pre!PRE => InPreState(h)
      /\ h.state = Pre!PRE_COLLECT => InCollect(h)
      /\ h.state = Pre!MULTILINE_PRE => InMultiline(h)
      /\ h.state = Pre!IGNORE => InIgnore(h)
  BY Cases, Zenon
<1>1. CASE h.state \in {Pre!SOL, Pre!PRE}
  <2> DEFINE r == Pre!getResultAndReset(h, Pre!Nl)
  <2>1. Pre!onNewline(h) = Pre!Enter(r, Pre!SOL)
    BY <1>1, States DEF Pre!onNewline
  <2>2. /\ PreState(r.handler) /\ Empty(r.handler) /\ r.handler.preWSToken = <<>>
        /\ r.handler.any = h.any /\ r.handler.preCollectCurrentLine = h.preCollectCurrentLine
    BY <1>0, Resets
  <2>3. h.any /\ h.preCollectCurrentLine = <<>>
    BY <1>0, <1>1, States DEF PreState, InSol, InPreState
  <2>4. IsResult(r)
    BY BothAreResults
  <2> HIDE DEF r
  <2> QED
    BY <2>1, <2>2, <2>3, <2>4, StartsLine, Zenon
<1>2. CASE h.state = Pre!PRE_COLLECT
  <2> DEFINE c == Pre!resetPreCollectCurrentLine(h)
             g == [c EXCEPT !.lastNlTk = <<Pre!Nl>>, !.state = Pre!MULTILINE_PRE]
  <2>1. Pre!onNewline(h) = Pre!Result(g, <<>>)
    BY <1>2, States DEF Pre!onNewline
  <2>2. /\ PreState(c) /\ c.state = h.state /\ c.any = h.any /\ c.preCollectCurrentLine = <<>>
        /\ c.lastNlTk = h.lastNlTk /\ c.solTransparentTokens = h.solTransparentTokens
        /\ h.preCollectCurrentLine # <<>> \/ h.tokens # <<>> => c.tokens # <<>>
    BY <1>0, CollectsLine
  <2>3. h.any /\ h.solTransparentTokens = <<>> /\ (h.preCollectCurrentLine # <<>> \/ h.tokens # <<>>)
    BY <1>0, <1>2, States, Zenon DEF PreState, InCollect
  <2> HIDE DEF c
  <2>4. <<Pre!Nl>> \in Seq(Kinds)
    BY DEF Kinds
  <2>5. g \in PreFields /\ g.any = c.any
    BY <2>2, <2>4 DEF PreState, PreFields, PreStates
  <2>6. /\ g.state = Pre!MULTILINE_PRE /\ g.lastNlTk = <<Pre!Nl>> /\ g.tokens = c.tokens
        /\ g.preCollectCurrentLine = <<>> /\ g.solTransparentTokens = <<>>
        /\ g.preWSToken = c.preWSToken /\ g.multiLinePreWSToken = c.multiLinePreWSToken
    BY <2>2, <2>3 DEF PreState, PreFields
  <2>7. Pre!Result(g, <<>>).handler = g
    BY ONLY ResultOf
  <2> HIDE DEF g
  <2>8. <<>> \in SolTokens
    BY DEF SolTokens
  <2>9. PreState(g) /\ InMultiline(g)
    BY <2>2, <2>3, <2>5, <2>6, <2>8, States, Zenon DEF PreState, InMultiline
  <2> QED
    BY <2>1, <2>7, <2>9, Zenon DEF PreOK
<1>3. CASE h.state = Pre!MULTILINE_PRE
  <2> DEFINE c == [h EXCEPT !.preWSToken = <<>>, !.multiLinePreWSToken = <<>>]
             r == Pre!processPre(c, <<Pre!Nl>>)
  <2>1. Pre!onNewline(h) = Pre!Enter(r, Pre!SOL)
    BY <1>3, States DEF Pre!onNewline
  <2>2. c \in PreFields /\ c.any = h.any
    BY <1>0, NoTokens DEF PreState, PreFields
  <2>3. /\ c.state = h.state /\ c.preCollectCurrentLine = h.preCollectCurrentLine
        /\ c.preWSToken = <<>> /\ c.multiLinePreWSToken = <<>>
    BY <1>0 DEF PreState, PreFields
  <2>4. h.any /\ h.preCollectCurrentLine = <<>>
    BY <1>0, <1>3, States DEF PreState, InMultiline
  <2> HIDE DEF c
  <2>5. PreState(c)
    BY <1>0, <2>2, <2>3, Zenon DEF PreState
  <2>6. /\ PreState(r.handler) /\ Empty(r.handler) /\ r.handler.preWSToken = c.preWSToken
        /\ r.handler.any = c.any /\ r.handler.preCollectCurrentLine = c.preCollectCurrentLine
    BY <2>5, Processes
  <2>7. IsResult(r)
    BY BothAreResults
  <2> HIDE DEF r
  <2> QED
    BY <2>1, <2>2, <2>3, <2>4, <2>6, <2>7, StartsLine, Zenon
<1>4. CASE h.state = Pre!IGNORE
  <2>1. Pre!onNewline(h) = Pre!Result(Pre!reset(h, TRUE), <<Pre!Nl>>)
    BY <1>4, States DEF Pre!onNewline
  <2>2. Pre!reset(h, TRUE) = Pre!NewHandler /\ PreOK(Pre!NewHandler)
    <3>1. TRUE \in BOOLEAN /\ (h.any \/ TRUE)
      OBVIOUS
    <3> QED
      BY <3>1, <1>0, NewPre, Zenon
  <2> QED
    BY <2>1, <2>2, ResultOf, Zenon
<1> QED
  BY <1>0, <1>1, <1>2, <1>3, <1>4, Zenon DEF PreStates

LEMMA EndKeeps ==
    ASSUME NEW h, PreOK(h), h.any
    PROVE  Pre!AnyEOF(h).handler = Pre!NewHandler
<1>0. PreState(h) /\ h \in PreFields /\ h.state \in PreStates /\ h.state # Pre!IGNORE
  BY Cases, Zenon DEF PreState
<1>1. CASE h.state \in {Pre!SOL, Pre!PRE}
  <2> DEFINE r == Pre!getResultAndReset(h, Pre!EOFTk)
  <2>1. Pre!AnyEOF(h) = Pre!Result(Pre!reset(r.handler, FALSE), r.out)
    BY <1>1 DEF Pre!AnyEOF
  <2>2. PreState(r.handler) /\ r.handler.any = h.any
    BY <1>0, Resets
  <2>3. Pre!reset(r.handler, FALSE) = Pre!NewHandler
    <3>1. FALSE \in BOOLEAN /\ (r.handler.any \/ FALSE)
      BY <2>2, Zenon
    <3> QED
      BY <3>1, <2>2, NewPre, Zenon
  <2> QED
    BY <2>1, <2>3, ResultOf, Zenon
<1>2. CASE ~(h.state \in {Pre!SOL, Pre!PRE})
  <2> DEFINE c == [h EXCEPT !.preWSToken = <<>>, !.multiLinePreWSToken = <<>>]
             d == Pre!resetPreCollectCurrentLine(c)
             r == Pre!processPre(d, <<Pre!EOFTk>>)
  <2>1. Pre!AnyEOF(h) = Pre!Result(Pre!reset(r.handler, FALSE), r.out)
    BY <1>2 DEF Pre!AnyEOF
  <2>2. c \in PreFields /\ c.any = h.any
    BY <1>0, NoTokens DEF PreState, PreFields
  <2>3. /\ c.state = h.state /\ c.preWSToken = <<>> /\ c.multiLinePreWSToken = <<>>
    BY <1>0 DEF PreState, PreFields
  <2> HIDE DEF c
  <2>4. PreState(c)
    BY <1>0, <2>2, <2>3, Zenon DEF PreState
  <2>5. PreState(d) /\ d.any = c.any
    BY <2>4, CollectsLine
  <2> HIDE DEF d
  <2>6. PreState(r.handler) /\ r.handler.any = d.any
    BY <2>5, Processes
  <2> HIDE DEF r
  <2>7. Pre!reset(r.handler, FALSE) = Pre!NewHandler
    <3>1. FALSE \in BOOLEAN /\ (r.handler.any \/ FALSE)
      BY <2>2, <2>5, <2>6, Zenon
    <3> QED
      BY <3>1, <2>6, NewPre, Zenon
  <2> QED
    BY <2>1, <2>7, ResultOf, Zenon
<1> QED
  BY <1>1, <1>2

LEMMA KindsDiffer ==
    /\ Pre!Space # Pre!EOFTk /\ Pre!Sol # Pre!EOFTk /\ Pre!Sol # Pre!Space
    /\ Pre!BlockTag # Pre!Sol /\ Pre!BlockTag # Pre!Space /\ Pre!BlockTag # Pre!EOFTk
    /\ Pre!Text # Pre!EOFTk /\ Pre!Text # Pre!Nl /\ Pre!Space # Pre!Nl /\ Pre!Sol # Pre!Nl /\ Pre!EOFTk # Pre!Nl
    /\ ~Pre!isSolTransparent(Pre!Nl)
    /\ {Pre!Nl, Pre!Space, Pre!Text, Pre!Sol, Pre!Rule, Pre!BlockTag, Pre!Inline, Pre!EOFTk} = Kinds
  BY DEF Pre!Space, Pre!EOFTk, Pre!Sol, Pre!BlockTag, Pre!Text, Pre!Nl, Pre!isSolTransparent, Kinds

LEMMA SolKeeps ==
    ASSUME NEW h, PreOK(h), h.state = Pre!SOL, NEW token \in Kinds, token # Pre!EOFTk
    PROVE  PreOK(Pre!AnyInSOL(h, token).handler)
<1>0. PreState(h) /\ h \in PreFields /\ InSol(h) /\ h.any
  BY Cases, States, Zenon DEF PreState
<1>1. CASE token = Pre!Space
  <2> DEFINE g == [h EXCEPT !.tokens = <<>>, !.preWSToken = <<Pre!Space>>, !.state = Pre!PRE]
  <2>1. Pre!AnyInSOL(h, token) = Pre!Result(g, h.tokens)
    BY <1>1, KindsDiffer DEF Pre!AnyInSOL
  <2>2. <<Pre!Space>> \in Seq(Kinds) /\ <<>> \in SolTokens
    BY DEF Kinds, SolTokens
  <2>3. g \in PreFields /\ g.any = h.any
    BY <1>0, <2>2, NoTokens DEF PreFields, PreStates
  <2>4. /\ g.state = Pre!PRE /\ g.tokens = <<>> /\ g.preWSToken = <<Pre!Space>>
        /\ g.lastNlTk = h.lastNlTk /\ g.preCollectCurrentLine = h.preCollectCurrentLine
        /\ g.multiLinePreWSToken = h.multiLinePreWSToken
        /\ g.solTransparentTokens = h.solTransparentTokens
    BY <1>0 DEF PreFields
  <2>5. Pre!Result(g, h.tokens).handler = g
    BY ONLY ResultOf
  <2> HIDE DEF g
  <2>6. PreState(g) /\ InPreState(g)
    BY <1>0, <2>2, <2>3, <2>4, States, Zenon DEF PreState, InSol, InPreState
  <2> QED
    BY <2>1, <2>5, <2>6, Zenon DEF PreOK
<1>2. CASE token = Pre!Sol
  <2> DEFINE g == [h EXCEPT !.tokens = Append(h.tokens, token)]
  <2>1. Pre!AnyInSOL(h, token) = Pre!Result(g, <<>>)
    BY <1>2, KindsDiffer, <1>0 DEF Pre!AnyInSOL, PreFields
  <2>2. Append(h.tokens, token) \in Seq(Kinds)
    BY <1>0 DEF PreFields
  <2>3. g \in PreFields /\ g.any = h.any
    BY <1>0, <2>2 DEF PreFields
  <2>4. /\ g.state = h.state /\ g.preWSToken = h.preWSToken
        /\ g.lastNlTk = h.lastNlTk /\ g.preCollectCurrentLine = h.preCollectCurrentLine
        /\ g.multiLinePreWSToken = h.multiLinePreWSToken
        /\ g.solTransparentTokens = h.solTransparentTokens
    BY <1>0 DEF PreFields
  <2>5. Pre!Result(g, <<>>).handler = g
    BY ONLY ResultOf
  <2> HIDE DEF g
  <2>6. PreState(g) /\ InSol(g)
    BY <1>0, <2>3, <2>4, States, Zenon DEF PreState, InSol
  <2> QED
    BY <2>1, <2>5, <2>6, Zenon DEF PreOK
<1>3. CASE token # Pre!Space /\ token # Pre!Sol
  <2> DEFINE r == Pre!getResultAndReset(h, token)
  <2>1. Pre!AnyInSOL(h, token) = Pre!moveToIgnoreState(r)
    BY <1>3 DEF Pre!AnyInSOL
  <2>2. /\ PreState(r.handler) /\ Empty(r.handler)
        /\ r.handler.preCollectCurrentLine = h.preCollectCurrentLine
    BY <1>0, Resets
  <2>3. IsResult(r) /\ h.preCollectCurrentLine = <<>>
    BY BothAreResults, <1>0 DEF InSol
  <2> HIDE DEF r
  <2> QED
    BY <2>1, <2>2, <2>3, LeavesLine, Zenon
<1> QED
  BY <1>1, <1>2, <1>3

LEMMA PreKeeps ==
    ASSUME NEW h, PreOK(h), h.state = Pre!PRE, NEW token \in Kinds
    PROVE  PreOK(Pre!AnyInPre(h, token).handler)
<1>0. PreState(h) /\ h \in PreFields /\ InPreState(h) /\ h.any
  BY Cases, States, Zenon DEF PreState
<1>1. CASE Pre!isSolTransparent(token)
  <2> DEFINE g == [h EXCEPT !.solTransparentTokens = Append(h.solTransparentTokens, token)]
  <2>0. token # Pre!BlockTag
    BY <1>1, KindsDiffer DEF Pre!isSolTransparent
  <2>1. Pre!AnyInPre(h, token) = Pre!Result(g, <<>>)
    BY <1>1, <2>0, <1>0 DEF Pre!AnyInPre, PreFields
  <2>2. /\ Append(h.solTransparentTokens, token) \in Seq(Kinds)
        /\ Append(h.solTransparentTokens, token) \in SolTokens
    BY <1>0, <1>1 DEF PreFields, InPreState, SolTokens, Pre!isSolTransparent
  <2>3. g \in PreFields /\ g.any = h.any
    BY <1>0, <2>2 DEF PreFields
  <2>4. /\ g.state = h.state /\ g.preWSToken = h.preWSToken /\ g.tokens = h.tokens
        /\ g.lastNlTk = h.lastNlTk /\ g.preCollectCurrentLine = h.preCollectCurrentLine
        /\ g.multiLinePreWSToken = h.multiLinePreWSToken
        /\ g.solTransparentTokens = Append(h.solTransparentTokens, token)
    BY <1>0 DEF PreFields
  <2>5. Pre!Result(g, <<>>).handler = g
    BY ONLY ResultOf
  <2> HIDE DEF g
  <2>6. PreState(g) /\ InPreState(g)
    BY <1>0, <2>2, <2>3, <2>4, Zenon DEF PreState, InPreState
  <2> QED
    BY <2>1, <2>5, <2>6, Zenon DEF PreOK
<1>2. CASE token = Pre!BlockTag
  <2> DEFINE r == Pre!getResultAndReset(h, token)
  <2>1. Pre!AnyInPre(h, token) = Pre!moveToIgnoreState(r)
    BY <1>2, KindsDiffer DEF Pre!AnyInPre, Pre!isSolTransparent
  <2>2. /\ PreState(r.handler) /\ Empty(r.handler)
        /\ r.handler.preCollectCurrentLine = h.preCollectCurrentLine
    BY <1>0, Resets
  <2>3. IsResult(r) /\ h.preCollectCurrentLine = <<>>
    BY BothAreResults, <1>0 DEF InPreState
  <2> HIDE DEF r
  <2> QED
    BY <2>1, <2>2, <2>3, LeavesLine, Zenon
<1>3. CASE ~Pre!isSolTransparent(token) /\ token # Pre!BlockTag
  <2> DEFINE g == [h EXCEPT !.preCollectCurrentLine = Append(h.solTransparentTokens, token),
                            !.solTransparentTokens = <<>>, !.state = Pre!PRE_COLLECT]
  <2>1. Pre!AnyInPre(h, token) = Pre!Result(g, <<>>)
    BY <1>3 DEF Pre!AnyInPre
  <2>2. /\ Append(h.solTransparentTokens, token) \in Seq(Kinds)
        /\ Append(h.solTransparentTokens, token) # <<>>
    <3>1. h.solTransparentTokens \in Seq(Kinds)
      BY <1>0 DEF PreFields
    <3> QED
      BY ONLY <3>1, token \in Kinds
  <2>3. g \in PreFields /\ g.any = h.any
    BY <1>0, <2>2, NoTokens DEF PreFields, PreStates
  <2>4. /\ g.state = Pre!PRE_COLLECT /\ g.preWSToken = h.preWSToken /\ g.tokens = h.tokens
        /\ g.lastNlTk = h.lastNlTk /\ g.preCollectCurrentLine # <<>>
        /\ g.multiLinePreWSToken = h.multiLinePreWSToken
        /\ g.solTransparentTokens = <<>>
    BY <1>0, <2>2 DEF PreFields
  <2>5. Pre!Result(g, <<>>).handler = g
    BY ONLY ResultOf
  <2> HIDE DEF g
  <2>6. PreState(g) /\ InCollect(g)
    BY <1>0, <2>3, <2>4, States, Zenon DEF PreState, InPreState, InCollect
  <2> QED
    BY <2>1, <2>5, <2>6, Zenon DEF PreOK
<1> QED
  BY <1>1, <1>2, <1>3

\* Where the line a block tag ends begins: at a newline, as the code asserts.
LEMMA LineStartIsNewline ==
    ASSUME NEW tokens \in Seq(Kinds), LineBegun(tokens)
    PROVE  /\ Pre!LineStart(tokens) \in 1..Len(tokens)
           /\ tokens[Pre!LineStart(tokens)] = Pre!Nl
<1> DEFINE P(i) == /\ i = 1 \/ ~Pre!isSolTransparent(tokens[i])
                   /\ \A j \in (i + 1)..Len(tokens) : Pre!isSolTransparent(tokens[j])
<1>1. PICK k \in 1..Len(tokens) :
         tokens[k] = Pre!Nl /\ \A j \in (k + 1)..Len(tokens) : Pre!isSolTransparent(tokens[j])
  BY Zenon DEF LineBegun
<1>2. P(k)
  BY <1>1, KindsDiffer
<1>3. ASSUME NEW i \in 1..Len(tokens), P(i)
      PROVE  i = k
  <2>1. ~(i < k)
    BY <1>1, <1>3, KindsDiffer
  <2>2. ~(k < i)
    BY <1>1, <1>3
  <2> QED
    BY <2>1, <2>2
<1>4. Pre!LineStart(tokens) = CHOOSE i \in 1..Len(tokens) : P(i)
  BY Zenon DEF Pre!LineStart
<1> HIDE DEF P
<1> QED
  BY <1>1, <1>2, <1>3, <1>4

LEMMA CollectKeeps ==
    ASSUME NEW h, PreOK(h), h.state = Pre!PRE_COLLECT, NEW token \in Kinds
    PROVE  PreOK(Pre!AnyInPreCollect(h, token).handler)
<1>0. PreState(h) /\ h \in PreFields /\ InCollect(h) /\ h.any
  BY Cases, States, Zenon DEF PreState
<1>1. CASE ~Pre!isBlockTag(token)
  <2> DEFINE g == [h EXCEPT !.preCollectCurrentLine = Append(h.preCollectCurrentLine, token)]
  <2>1. Pre!AnyInPreCollect(h, token) = Pre!Result(g, <<>>)
    BY <1>1, <1>0 DEF Pre!AnyInPreCollect, PreFields
  <2>2. /\ Append(h.preCollectCurrentLine, token) \in Seq(Kinds)
        /\ Append(h.preCollectCurrentLine, token) # <<>>
    <3>1. h.preCollectCurrentLine \in Seq(Kinds)
      BY <1>0 DEF PreFields
    <3> QED
      BY ONLY <3>1, token \in Kinds
  <2>3. g \in PreFields /\ g.any = h.any
    BY <1>0, <2>2 DEF PreFields
  <2>4. /\ g.state = h.state /\ g.preWSToken = h.preWSToken /\ g.tokens = h.tokens
        /\ g.lastNlTk = h.lastNlTk /\ g.preCollectCurrentLine # <<>>
        /\ g.multiLinePreWSToken = h.multiLinePreWSToken
        /\ g.solTransparentTokens = h.solTransparentTokens
    BY <1>0, <2>2 DEF PreFields
  <2>5. Pre!Result(g, <<>>).handler = g
    BY ONLY ResultOf
  <2> HIDE DEF g
  <2>6. PreState(g) /\ InCollect(g)
    BY <1>0, <2>3, <2>4, Zenon DEF PreState, InCollect
  <2> QED
    BY <2>1, <2>5, <2>6, Zenon DEF PreOK
<1>2. CASE Pre!isBlockTag(token)
  <2> DEFINE i      == Pre!LineStart(h.tokens)
             bare   == [h EXCEPT !.multiLinePreWSToken = <<>>]
             before == [h EXCEPT !.multiLinePreWSToken = <<>>, !.tokens = SubSeq(h.tokens, 1, i - 1),
                                 !.lastNlTk = <<h.tokens[i]>>]
             r      == Pre!processPre(before, <<>>)
             lines  == IF h.tokens = <<>> THEN Pre!Result(bare, <<>>)
                       ELSE Pre!Result(r.handler, r.out \o SubSeq(h.tokens, i + 1, Len(h.tokens)))
             ws     == IF h.preWSToken # <<>> THEN h.preWSToken ELSE h.multiLinePreWSToken
             c      == [lines.handler EXCEPT !.preWSToken = <<>>]
             d      == Pre!resetPreCollectCurrentLine(c)
             ended   == Pre!getResultAndReset(d, token)
             all    == Pre!Result(ended.handler, lines.out \o ws \o ended.out)
  <2>1. Pre!AnyInPreCollect(h, token) = Pre!moveToIgnoreState(all)
    <3>1. before = [h EXCEPT !.multiLinePreWSToken = <<>>, !.tokens = SubSeq(@, 1, i - 1),
                                 !.lastNlTk = <<h.tokens[i]>>]
      BY <1>0 DEF PreFields
    <3>2. Pre!encounteredBlockWhileCollecting(h, token) = all
      BY ONLY <3>1, Zenon DEF Pre!encounteredBlockWhileCollecting
    <3> QED
      BY <1>2, <3>2, Zenon DEF Pre!AnyInPreCollect
  <2>2. PreState(lines.handler)
    <3>1. CASE h.tokens = <<>>
      <4>1. lines.handler = bare
        BY ONLY <3>1, ResultOf, Zenon
      <4>2. bare \in PreFields /\ bare.any = h.any
        BY <1>0, NoTokens DEF PreFields
      <4>3. /\ bare.state = h.state /\ bare.multiLinePreWSToken = <<>>
            /\ bare.preWSToken = h.preWSToken
        BY <1>0 DEF PreFields
      <4> HIDE DEF bare, lines
      <4>4. PreState(bare)
        BY <1>0, <4>2, <4>3, Zenon DEF PreState
      <4> QED
        BY <4>1, <4>4, Zenon
    <3>2. CASE h.tokens # <<>>
      <4>1. lines.handler = r.handler
        BY ONLY <3>2, ResultOf, Zenon
      <4>2. h.tokens \in Seq(Kinds) /\ LineBegun(h.tokens)
        BY <1>0, <3>2 DEF PreFields, InCollect
      <4>3. i \in 1..Len(h.tokens) /\ h.tokens[i] = Pre!Nl
        BY <4>2, LineStartIsNewline
      <4> HIDE DEF i
      <4>4. SubSeq(h.tokens, 1, i - 1) \in Seq(Kinds)
        BY ONLY <4>2, <4>3
      <4>5. <<h.tokens[i]>> \in Seq(Kinds)
        BY ONLY <4>2, <4>3
      <4>6. before \in PreFields /\ before.any = h.any
        BY <1>0, <4>4, <4>5, NoTokens DEF PreFields
      <4>7. /\ before.state = h.state /\ before.multiLinePreWSToken = <<>>
            /\ before.preWSToken = h.preWSToken
        BY <1>0 DEF PreFields
      <4> HIDE DEF before, lines
      <4>8. PreState(before)
        BY <1>0, <4>6, <4>7, Zenon DEF PreState
      <4> QED
        BY <4>1, <4>8, Processes
    <3> QED
      BY <3>1, <3>2
  <2> HIDE DEF lines
  <2>3. c \in PreFields /\ c.any = lines.handler.any
    BY <2>2, NoTokens DEF PreFields, PreState
  <2>4. /\ c.state = lines.handler.state /\ c.preWSToken = <<>>
        /\ c.multiLinePreWSToken = lines.handler.multiLinePreWSToken
    BY <2>2 DEF PreFields, PreState
  <2> HIDE DEF c
  <2>5. PreState(c)
    BY <2>2, <2>3, <2>4, Zenon DEF PreState
  <2>6. PreState(d) /\ d.preCollectCurrentLine = <<>>
    BY <2>5, CollectsLine
  <2> HIDE DEF d
  <2>7. /\ PreState(ended.handler) /\ Empty(ended.handler)
        /\ ended.handler.preCollectCurrentLine = d.preCollectCurrentLine
    BY <2>6, Resets
  <2> HIDE DEF ended
  <2>8. IsResult(all) /\ all.handler = ended.handler
    BY ResultOf, Zenon DEF IsResult
  <2> HIDE DEF all
  <2> QED
    BY <2>1, <2>6, <2>7, <2>8, LeavesLine, Zenon
<1> QED
  BY <1>1, <1>2

LEMMA Joined ==
    ASSUME NEW S, NEW a \in Seq(S), NEW b \in Seq(S), NEW x \in S
    PROVE  LET s == a \o <<x>> \o b
               k == Len(a) + 1
           IN  /\ s \in Seq(S) /\ k \in 1..Len(s) /\ s[k] = x
               /\ \A j \in (k + 1)..Len(s) : s[j] = b[j - k] /\ j - k \in 1..Len(b)
<1> DEFINE ax == a \o <<x>>
<1>1. ax \in Seq(S) /\ Len(ax) = Len(a) + 1 /\ ax[Len(a) + 1] = x
  OBVIOUS
<1>2. Len(a) \in Nat /\ Len(b) \in Nat
  OBVIOUS
<1> HIDE DEF ax
<1>3. /\ ax \o b \in Seq(S) /\ Len(ax \o b) = Len(ax) + Len(b)
      /\ \A j \in 1..(Len(ax) + Len(b)) :
            (ax \o b)[j] = IF j <= Len(ax) THEN ax[j] ELSE b[j - Len(ax)]
  BY ONLY <1>1, <1>2, b \in Seq(S)
<1>4. /\ ax \o b \in Seq(S) /\ Len(a) + 1 \in 1..Len(ax \o b) /\ (ax \o b)[Len(a) + 1] = x
      /\ \A j \in (Len(a) + 2)..Len(ax \o b) :
            (ax \o b)[j] = b[j - (Len(a) + 1)] /\ j - (Len(a) + 1) \in 1..Len(b)
  BY ONLY <1>1, <1>2, <1>3
<1> QED
  BY ONLY <1>2, <1>4 DEF ax

LEMMA MultilineKeeps ==
    ASSUME NEW h, PreOK(h), h.state = Pre!MULTILINE_PRE, NEW token \in Kinds
    PROVE  PreOK(Pre!AnyInMultiline(h, token).handler)
<1>0. PreState(h) /\ h \in PreFields /\ InMultiline(h) /\ h.any
  BY Cases, States, Zenon DEF PreState
<1>1. CASE token = Pre!Space
  <2> DEFINE held == h.tokens \o h.lastNlTk \o h.solTransparentTokens
             g == [h EXCEPT !.tokens = held, !.lastNlTk = <<>>,
                            !.solTransparentTokens = <<>>, !.preWSToken = <<>>,
                            !.multiLinePreWSToken = <<Pre!Space>>, !.state = Pre!PRE_COLLECT]
  <2>1. Pre!AnyInMultiline(h, token) = Pre!Result(g, <<>>)
    BY <1>1, KindsDiffer, <1>0 DEF Pre!AnyInMultiline, PreFields
  <2>2. <<Pre!Space>> \in Seq(Kinds)
    BY DEF Kinds
  <2>3. held \in Seq(Kinds) /\ LineBegun(held) /\ held # <<>>
    <3>1. /\ h.tokens \in Seq(Kinds) /\ h.lastNlTk = <<Pre!Nl>>
          /\ h.solTransparentTokens \in SolTokens /\ h.solTransparentTokens \in Seq(Kinds)
          /\ Pre!Nl \in Kinds
      BY <1>0, KindsDiffer, Zenon DEF PreFields, InMultiline
    <3> DEFINE k == Len(h.tokens) + 1
    <3>2. held = h.tokens \o <<Pre!Nl>> \o h.solTransparentTokens
      BY <3>1, Zenon
    <3> HIDE DEF held
    <3>3. /\ held \in Seq(Kinds) /\ k \in 1..Len(held) /\ held[k] = Pre!Nl
          /\ \A j \in (k + 1)..Len(held) :
                held[j] = h.solTransparentTokens[j - k] /\ j - k \in 1..Len(h.solTransparentTokens)
      <4>1. LET t == h.tokens \o <<Pre!Nl>> \o h.solTransparentTokens
                m == Len(h.tokens) + 1
            IN  /\ t \in Seq(Kinds) /\ m \in 1..Len(t) /\ t[m] = Pre!Nl
                /\ \A j \in (m + 1)..Len(t) :
                      t[j] = h.solTransparentTokens[j - m] /\ j - m \in 1..Len(h.solTransparentTokens)
        BY ONLY <3>1, Joined
      <4> QED
        BY ONLY <4>1, <3>2, Zenon
    <3>4. \A j \in 1..Len(h.solTransparentTokens) : Pre!isSolTransparent(h.solTransparentTokens[j])
      BY ONLY <3>1 DEF SolTokens, Pre!isSolTransparent
    <3>5. \A j \in (k + 1)..Len(held) : Pre!isSolTransparent(held[j])
      BY ONLY <3>3, <3>4
    <3> HIDE DEF k
    <3> QED
      BY <3>3, <3>5 DEF LineBegun
  <2> HIDE DEF held
  <2>4. g \in PreFields /\ g.any = h.any
    BY <1>0, <2>2, <2>3, NoTokens DEF PreFields, PreStates
  <2>5. /\ g.state = Pre!PRE_COLLECT /\ g.preWSToken = <<>> /\ g.tokens = held
        /\ g.lastNlTk = <<>> /\ g.multiLinePreWSToken = <<Pre!Space>>
        /\ g.solTransparentTokens = <<>>
    BY <1>0 DEF PreFields
  <2>6. Pre!Result(g, <<>>).handler = g
    BY ONLY ResultOf
  <2>7. <<Pre!Space>> # <<>>
    OBVIOUS
  <2> HIDE DEF g
  <2>8. PreState(g) /\ InCollect(g)
    BY <1>0, <2>3, <2>4, <2>5, <2>7, States, Zenon DEF PreState, InCollect
  <2> QED
    BY <2>1, <2>6, <2>8, Zenon DEF PreOK
<1>2. CASE token = Pre!Sol
  <2> DEFINE g == [h EXCEPT !.solTransparentTokens = Append(h.solTransparentTokens, token)]
  <2>1. Pre!AnyInMultiline(h, token) = Pre!Result(g, <<>>)
    BY <1>2, KindsDiffer, <1>0 DEF Pre!AnyInMultiline, PreFields
  <2>2. /\ Append(h.solTransparentTokens, token) \in Seq(Kinds)
        /\ Append(h.solTransparentTokens, token) \in SolTokens
    BY <1>0, <1>2 DEF PreFields, InMultiline, SolTokens
  <2>3. g \in PreFields /\ g.any = h.any
    BY <1>0, <2>2 DEF PreFields
  <2>4. /\ g.state = h.state /\ g.preWSToken = h.preWSToken /\ g.tokens = h.tokens
        /\ g.lastNlTk = h.lastNlTk /\ g.preCollectCurrentLine = h.preCollectCurrentLine
        /\ g.multiLinePreWSToken = h.multiLinePreWSToken
        /\ g.solTransparentTokens = Append(h.solTransparentTokens, token)
    BY <1>0 DEF PreFields
  <2>5. Pre!Result(g, <<>>).handler = g
    BY ONLY ResultOf
  <2> HIDE DEF g
  <2>6. PreState(g) /\ InMultiline(g)
    BY <1>0, <2>2, <2>3, <2>4, Zenon DEF PreState, InMultiline
  <2> QED
    BY <2>1, <2>5, <2>6, Zenon DEF PreOK
<1>3. CASE token # Pre!Space /\ token # Pre!Sol
  <2> DEFINE r == Pre!processPre(h, <<token>>)
  <2>1. Pre!AnyInMultiline(h, token) = Pre!moveToIgnoreState(r)
    BY <1>3 DEF Pre!AnyInMultiline
  <2>2. /\ PreState(r.handler) /\ Empty(r.handler)
        /\ r.handler.preCollectCurrentLine = h.preCollectCurrentLine
    BY <1>0, Processes
  <2>3. IsResult(r) /\ h.preCollectCurrentLine = <<>>
    BY BothAreResults, <1>0 DEF InMultiline
  <2> HIDE DEF r
  <2> QED
    BY <2>1, <2>2, <2>3, LeavesLine, Zenon
<1> QED
  BY <1>1, <1>2, <1>3

LEMMA AnyKeeps ==
    ASSUME NEW h, PreOK(h), h.any, NEW token \in Kinds
    PROVE  /\ PreOK(Pre!onAny(h, token).handler)
           /\ token = Pre!EOFTk => Pre!onAny(h, token).handler = Pre!NewHandler
<1>0. PreState(h) /\ h.state \in PreStates /\ h.state # Pre!IGNORE
  BY Cases, Zenon DEF PreState
<1>1. CASE token = Pre!EOFTk
  <2>1. Pre!onAny(h, token) = Pre!AnyEOF(h)
    BY <1>0, <1>1 DEF Pre!onAny
  <2>2. PreOK(Pre!NewHandler)
    BY <1>0, NewPre, h.any, TRUE \in BOOLEAN
  <2> QED
    BY <2>1, <2>2, EndKeeps, Zenon
<1>2. CASE token # Pre!EOFTk /\ h.state = Pre!SOL
  <2>1. Pre!onAny(h, token) = Pre!AnyInSOL(h, token)
    BY <1>0, <1>2, States DEF Pre!onAny
  <2> QED
    BY <2>1, <1>2, SolKeeps, Zenon
<1>3. CASE token # Pre!EOFTk /\ h.state = Pre!PRE
  <2>1. Pre!onAny(h, token) = Pre!AnyInPre(h, token)
    BY <1>0, <1>3, States DEF Pre!onAny
  <2> QED
    BY <2>1, <1>3, PreKeeps, Zenon
<1>4. CASE token # Pre!EOFTk /\ h.state = Pre!PRE_COLLECT
  <2>1. Pre!onAny(h, token) = Pre!AnyInPreCollect(h, token)
    BY <1>0, <1>4, States DEF Pre!onAny
  <2> QED
    BY <2>1, <1>4, CollectKeeps, Zenon
<1>5. CASE token # Pre!EOFTk /\ h.state = Pre!MULTILINE_PRE
  <2>1. Pre!onAny(h, token) = Pre!AnyInMultiline(h, token)
    BY <1>0, <1>5, States DEF Pre!onAny
  <2> QED
    BY <2>1, <1>5, MultilineKeeps, Zenon
<1> QED
  BY <1>0, <1>1, <1>2, <1>3, <1>4, <1>5, Zenon DEF PreStates

LEMMA PreGives ==
    ASSUME PreInv, NEW token \in Kinds, Pre!Give(token)
    PROVE  /\ called' = FALSE /\ PreOK(handler')
           /\ token = Pre!EOFTk => handler' = Pre!NewHandler
<1>0. PreOK(handler) /\ PreState(handler) /\ (handler.any <=> handler.state # Pre!IGNORE)
  BY Cases, Zenon DEF PreState, PreInv
<1>1. called' = FALSE
  <2>1. called' = (\/ token # Pre!Nl /\ handler.any /\ handler.state = Pre!IGNORE
                   \/ token = Pre!EOFTk /\ ~handler.any /\ handler.state # Pre!IGNORE)
    BY Zenon DEF Pre!Give
  <2> QED
    BY <2>1, <1>0, Zenon
<1>2. CASE token = Pre!Nl
  <2>1. handler' = Pre!onNewline(handler).handler
    BY <1>2, KindsDiffer DEF Pre!Give
  <2> QED
    BY <2>1, <1>0, <1>1, <1>2, NewlineKeeps, KindsDiffer, Zenon
<1>3. CASE token # Pre!Nl /\ handler.any
  <2>1. handler' = Pre!onAny(handler, token).handler
    BY <1>3, KindsDiffer DEF Pre!Give
  <2> QED
    BY <2>1, <1>0, <1>1, <1>3, AnyKeeps, Zenon
<1>4. CASE token = Pre!EOFTk /\ ~handler.any
  <2>1. handler' = Pre!onEnd(handler).handler
    BY <1>4, KindsDiffer DEF Pre!Give
  <2>2. handler' = Pre!reset(handler, handler.state = Pre!IGNORE)
    BY <2>1, ResultOf, Zenon DEF Pre!onEnd
  <2>3. handler.state = Pre!IGNORE
    BY <1>0, <1>4, Zenon
  <2>4. (handler.state = Pre!IGNORE) \in BOOLEAN /\ (handler.any \/ (handler.state = Pre!IGNORE))
    BY <2>3, Zenon
  <2> QED
    BY <2>2, <2>4, <1>0, <1>1, NewPre, Zenon
<1>5. CASE token # Pre!Nl /\ ~handler.any /\ token # Pre!EOFTk
  <2>1. handler' = Pre!Result(handler, <<token>>).handler
    BY <1>5, KindsDiffer DEF Pre!Give
  <2> QED
    BY <2>1, <1>0, <1>1, <1>5, ResultOf, Zenon
<1> QED
  BY <1>2, <1>3, <1>4, <1>5

LEMMA PreNext ==
    ASSUME PreInv, Pre!Next
    PROVE  PreInv'
<1>1. CASE Pre!GiveToken
  <2>1. PICK token \in {Pre!Nl, Pre!Space, Pre!Text, Pre!Sol, Pre!Rule, Pre!BlockTag, Pre!Inline} :
           input' = <<token>> /\ Pre!Give(token)
    BY <1>1, Zenon DEF Pre!GiveToken
  <2>2. token \in Kinds /\ token # Pre!EOFTk
    BY <2>1 DEF Kinds, Pre!Nl, Pre!Space, Pre!Text, Pre!Sol, Pre!Rule, Pre!BlockTag, Pre!Inline, Pre!EOFTk
  <2>3. input' # <<Pre!EOFTk>>
    BY <2>1, <2>2
  <2> QED
    BY <2>1, <2>2, <2>3, PreGives DEF PreInv
<1>2. CASE Pre!GiveIndented
  <2> DEFINE r == Pre!onAny(handler, Pre!Space)
  <2>1. PICK rest \in {Pre!Text, Pre!Sol, Pre!Space} :
           input' = <<Pre!Space, rest>> /\ handler' = Pre!onAny(r.handler, rest).handler
    BY <1>2, Zenon DEF Pre!GiveIndented
  <2>2. handler.any /\ called' = FALSE /\ handler.state \in {Pre!SOL, Pre!MULTILINE_PRE}
    BY <1>2, Zenon DEF Pre!GiveIndented
  <2>3. Pre!Space \in Kinds /\ rest \in Kinds
    BY Zenon DEF Kinds
  <2>4. PreOK(handler) /\ PreOK(r.handler)
    BY <2>2, <2>3, AnyKeeps, Zenon DEF PreInv
  <2>5. r.handler.any
    <3>1. CASE handler.state = Pre!SOL
      <4>1. r = Pre!AnyInSOL(handler, Pre!Space)
        BY <3>1, States, KindsDiffer DEF Pre!onAny
      <4>2. r.handler = [handler EXCEPT !.tokens = <<>>, !.preWSToken = <<Pre!Space>>, !.state = Pre!PRE]
        BY <4>1, KindsDiffer, ResultOf DEF Pre!AnyInSOL
      <4> QED
        BY <4>2, <2>2, <2>4, Cases DEF PreFields
    <3>2. CASE handler.state = Pre!MULTILINE_PRE
      <4>1. r = Pre!AnyInMultiline(handler, Pre!Space)
        BY <3>2, States, KindsDiffer DEF Pre!onAny
      <4>2. r.handler.any = handler.any
        <5>1. handler \in PreFields
          BY <2>4, Cases
        <5> DEFINE g == [handler EXCEPT !.tokens = @ \o handler.lastNlTk \o handler.solTransparentTokens,
                                        !.lastNlTk = <<>>, !.solTransparentTokens = <<>>,
                                        !.preWSToken = <<>>, !.multiLinePreWSToken = <<Pre!Space>>,
                                        !.state = Pre!PRE_COLLECT]
        <5>2. r = Pre!Result(g, <<>>)
          BY <4>1, KindsDiffer DEF Pre!AnyInMultiline
        <5>3. g.any = handler.any
          BY <5>1 DEF PreFields
        <5> HIDE DEF g
        <5> QED
          BY ONLY <5>2, <5>3, ResultOf, Zenon
      <4> QED
        BY <4>2, <2>2
    <3> QED
      BY <2>2, <3>1, <3>2
  <2>6. PreOK(handler')
    BY <2>1, <2>3, <2>4, <2>5, AnyKeeps, Zenon
  <2>7. input' # <<Pre!EOFTk>>
    BY <2>1
  <2> QED
    BY <2>2, <2>6, <2>7, Zenon DEF PreInv
<1>3. CASE Pre!GiveEnd
  <2>1. input' = <<Pre!EOFTk>> /\ Pre!Give(Pre!EOFTk) /\ Pre!EOFTk \in Kinds
    BY <1>3, Zenon DEF Pre!GiveEnd, Kinds
  <2> QED
    BY <2>1, PreGives DEF PreInv
<1> QED
  BY <1>1, <1>2, <1>3 DEF Pre!Next

LEMMA PreBegins ==
    ASSUME Pre!Init
    PROVE  PreInv
<1>1. PreState(Pre!NewHandler) /\ InSol(Pre!NewHandler)
  BY DEF PreState, PreFields, PreStates, InSol, Pre!NewHandler, Pre!SOL, Pre!IGNORE, Kinds
<1>2. handler = Pre!NewHandler /\ called = FALSE
  BY DEF Pre!Init
<1> QED
  BY <1>1, <1>2, Zenon DEF PreInv, PreOK

LEMMA PreHolds ==
    ASSUME PreInv
    PROVE  Pre!CannotGetHere /\ Pre!EndLeavesNothing
<1>1. PreState(handler) /\ (handler.any <=> handler.state # Pre!IGNORE)
  BY Cases, Zenon DEF PreState, PreInv
<1>2. handler.state = Pre!PRE_COLLECT /\ handler.tokens # <<>> =>
         handler.tokens[Pre!LineStart(handler.tokens)] = Pre!Nl
  <2> SUFFICES ASSUME handler.state = Pre!PRE_COLLECT, handler.tokens # <<>>
               PROVE  handler.tokens[Pre!LineStart(handler.tokens)] = Pre!Nl
    BY Zenon
  <2>1. InCollect(handler) /\ handler \in PreFields
    BY Cases, Zenon DEF PreInv
  <2>2. LineBegun(handler.tokens) /\ handler.tokens \in Seq(Kinds)
    BY <2>1 DEF InCollect, PreFields
  <2> QED
    BY <2>2, LineStartIsNewline, Zenon
<1>3. Pre!EndLeavesNothing
  BY Zenon DEF PreInv, Pre!EndLeavesNothing
<1> QED
  BY <1>1, <1>2, <1>3, Zenon DEF Pre!CannotGetHere, PreInv

-----------------------------------------------------------------------------
(* ParagraphWrapper *)

ParaFields == {"inPre", "hasOpenPTag", "inBlockElem", "tokenBuffer", "nlWsTokens", "newLineCount",
               "currLine", "onNewLine"}
LineFields == {"tokens", "hasWrappableTokens", "openMatch", "closeMatch"}

\* Newlines are not seen while an indented block is open, and are not pending once
\* the line has a token but a blank.
ParaBase(h) ==
    /\ ParaFields \subseteq DOMAIN h /\ LineFields \subseteq DOMAIN h.currLine
    /\ h.onNewLine <=> ~h.inPre
ParaOK(h) ==
    /\ ParaBase(h)
    /\ h.newLineCount \in Nat
    /\ h.newLineCount > 0 => h.currLine.tokens \in Seq({Paragraph!Blank})

ParaInv ==
    /\ ParaOK(handler)
    /\ input = <<Paragraph!EOFTk>> => handler = Paragraph!NewHandler

\* g is h but for the paragraph that is open and for what is held.
Keeps(h, g) ==
    /\ DOMAIN g = DOMAIN h
    /\ g.inPre = h.inPre /\ g.onNewLine = h.onNewLine /\ g.currLine = h.currLine

Kept(h, r) == "handler" \in DOMAIN r /\ Keeps(h, r.handler)

LEMMA ParaResultOf ==
    \A h, out : /\ Paragraph!Result(h, out).handler = h /\ Paragraph!Result(h, out).out = out
                /\ "handler" \in DOMAIN Paragraph!Result(h, out)
  BY DEF Paragraph!Result

LEMMA KeepsAlso ==
    ASSUME NEW h, NEW g, NEW k, Keeps(h, g), Keeps(g, k)
    PROVE  Keeps(h, k)
  BY Zenon DEF Keeps

LEMMA KeepsSelf == \A h : Keeps(h, h)
  BY Zenon DEF Keeps

LEMMA BuffersKept ==
    ASSUME NEW h, ParaFields \subseteq DOMAIN h, NEW a
    PROVE  /\ Keeps(h, [h EXCEPT !.hasOpenPTag = a])
           /\ Keeps(h, [h EXCEPT !.nlWsTokens = a])
           /\ Keeps(h, [h EXCEPT !.tokenBuffer = a])
           /\ Keeps(h, [h EXCEPT !.newLineCount = a])
  BY DEF ParaFields, Keeps

LEMMA ClosesKept ==
    ASSUME NEW h, ParaFields \subseteq DOMAIN h, NEW out
    PROVE  Kept(h, Paragraph!closeOpenPTag(h, out)) /\ Kept(h, Paragraph!openPTag(h, out))
<1>1. Keeps(h, [h EXCEPT !.hasOpenPTag = TRUE]) /\ Keeps(h, [h EXCEPT !.hasOpenPTag = FALSE]) /\ Keeps(h, h)
  BY BuffersKept, KeepsSelf
<1>2. Kept(h, Paragraph!closeOpenPTag(h, out))
  BY ONLY <1>1, ParaResultOf DEF Paragraph!closeOpenPTag, Kept
<1>3. Kept(h, Paragraph!openPTag(h, out))
  BY ONLY <1>1, ParaResultOf DEF Paragraph!openPTag, Kept
<1> QED
  BY <1>2, <1>3

LEMMA ClosesCount ==
    ASSUME NEW h, ParaFields \subseteq DOMAIN h, NEW out
    PROVE  /\ Paragraph!closeOpenPTag(h, out).handler.newLineCount = h.newLineCount
           /\ Paragraph!openPTag(h, out).handler.newLineCount = h.newLineCount
<1>1. /\ [h EXCEPT !.hasOpenPTag = TRUE].newLineCount = h.newLineCount
      /\ [h EXCEPT !.hasOpenPTag = FALSE].newLineCount = h.newLineCount
  BY DEF ParaFields
<1>2. Paragraph!closeOpenPTag(h, out).handler.newLineCount = h.newLineCount
  BY ONLY <1>1, ParaResultOf DEF Paragraph!closeOpenPTag
<1>3. Paragraph!openPTag(h, out).handler.newLineCount = h.newLineCount
  BY ONLY <1>1, ParaResultOf DEF Paragraph!openPTag
<1> QED
  BY <1>2, <1>3

LEMMA PassNlKept ==
    ASSUME NEW h, NEW r, ParaFields \subseteq DOMAIN h, Kept(h, r), NEW then
    PROVE  Kept(h, Paragraph!PassNl(r, then))
<1> DEFINE rest == Paragraph!UpToNl(r.handler.nlWsTokens).rest
<1>1. ParaFields \subseteq DOMAIN r.handler
  BY DEF Kept, Keeps
<1>2. Keeps(r.handler, [r.handler EXCEPT !.nlWsTokens = rest])
  BY <1>1, BuffersKept
<1>3. /\ Paragraph!PassNl(r, then).handler = [r.handler EXCEPT !.nlWsTokens = rest]
      /\ "handler" \in DOMAIN Paragraph!PassNl(r, then)
  BY ONLY ParaResultOf DEF Paragraph!PassNl
<1> QED
  BY <1>2, <1>3, KeepsAlso, Zenon DEF Kept

LEMMA EmptyLineKept ==
    ASSUME NEW h, NEW r, ParaFields \subseteq DOMAIN h, Kept(h, r), NEW nl
    PROVE  Kept(h, Paragraph!EmptyLine(r, nl))
<1> DEFINE starts == nl.left % 2 = nl.of % 2
           tags   == IF starts
                     THEN (IF r.handler.hasOpenPTag THEN <<Paragraph!EndP>> ELSE <<>>)
                            \o (IF nl.left > 1 THEN <<Paragraph!P>> ELSE <<>>)
                     ELSE <<Paragraph!Br>>
           passed == Paragraph!PassNl(r, tags)
<1>1. Paragraph!EmptyLine(r, nl) =
         IF starts THEN [passed EXCEPT !.handler.hasOpenPTag = nl.left > 1] ELSE passed
  BY Zenon DEF Paragraph!EmptyLine
<1>2. Kept(h, passed)
  <2> HIDE DEF tags
  <2> QED
    BY PassNlKept
<1> HIDE DEF passed, starts
<1>3. Kept(h, [passed EXCEPT !.handler.hasOpenPTag = nl.left > 1])
  <2> DEFINE a == nl.left > 1
  <2> HIDE DEF a
  <2>1. ParaFields \subseteq DOMAIN passed.handler
    BY <1>2 DEF Kept, Keeps
  <2>2. Keeps(passed.handler, [passed.handler EXCEPT !.hasOpenPTag = a])
    BY <2>1, BuffersKept
  <2>3. Keeps(h, [passed.handler EXCEPT !.hasOpenPTag = a])
    BY <1>2, <2>2, KeepsAlso, Zenon DEF Kept
  <2>4. /\ [passed EXCEPT !.handler.hasOpenPTag = a].handler = [passed.handler EXCEPT !.hasOpenPTag = a]
        /\ "handler" \in DOMAIN [passed EXCEPT !.handler.hasOpenPTag = a]
    BY <1>2 DEF Kept
  <2>5. Kept(h, [passed EXCEPT !.handler.hasOpenPTag = a])
    BY <2>3, <2>4, Zenon DEF Kept
  <2> QED
    BY <2>5 DEF a
<1> QED
  BY <1>1, <1>2, <1>3, Zenon

Lines == INSTANCE SequenceFolds WITH op <- Paragraph!EmptyLine

LEMMA LinesAreFolded ==
    ASSUME NEW base, NEW s
    PROVE  Lines!FoldLeft(Paragraph!EmptyLine, base, s) = Paragraph!FoldLeft(Paragraph!EmptyLine, base, s)
  BY Zenon DEF Lines!FoldLeft, Lines!MapThenFoldSet, Lines!Max, Paragraph!FoldLeft,
               Paragraph!MapThenFoldSet, Paragraph!Max

LEMMA EmptyLinesKept ==
    ASSUME NEW h, ParaFields \subseteq DOMAIN h, h.newLineCount \in Nat, h.newLineCount >= 1
    PROVE  Kept(h, Paragraph!EmptyLines(h))
<1> DEFINE n    == h.newLineCount - 1
           base == Paragraph!PassNl(Paragraph!closeOpenPTag(h, h.tokenBuffer), <<>>)
           nls  == [j \in 1..n |-> [left |-> n + 1 - j, of |-> n]]
<1>0. n \in Nat
  OBVIOUS
<1>1. Paragraph!EmptyLines(h) = Lines!FoldLeft(Paragraph!EmptyLine, base, nls)
  <2>1. Paragraph!EmptyLines(h) = Paragraph!FoldLeft(Paragraph!EmptyLine, base, nls)
    BY Zenon DEF Paragraph!EmptyLines
  <2> HIDE DEF base, nls
  <2> QED
    BY <2>1, LinesAreFolded, Zenon
<1>2. Kept(h, base)
  <2>1. Kept(h, Paragraph!closeOpenPTag(h, h.tokenBuffer))
    BY ClosesKept
  <2> QED
    BY <2>1, PassNlKept
<1> HIDE DEF base, n
<1>3. nls \in Seq({nls[j] : j \in 1..n}) /\ Len(nls) = n
  <2> DEFINE T == {nls[j] : j \in 1..n}
  <2>1. DOMAIN nls = 1..n /\ nls \in [1..n -> T]
    OBVIOUS
  <2> HIDE DEF nls, T
  <2>2. nls \in Seq(T) /\ Len(nls) = n
    BY ONLY <1>0, <2>1
  <2> QED
    BY <2>2 DEF T
<1> HIDE DEF nls
<1>4. PICK f : Lines!Steps(f, base, nls)
  BY <1>3, Lines!FoldSteps
<1>5. /\ f[0] = base
      /\ \A j \in 1..n : f[j] = Paragraph!EmptyLine(f[j - 1], nls[j])
      /\ f[n] = Lines!FoldLeft(Paragraph!EmptyLine, base, nls)
  BY <1>3, <1>4 DEF Lines!Steps
<1> DEFINE R == {j \in 0..n : Kept(h, f[j])}
<1>6. 0 \in R
  BY <1>0, <1>2, <1>5
<1>7. ASSUME NEW j \in R, j < n PROVE j + 1 \in R
  <2>1. j + 1 \in 1..n /\ j + 1 \in 0..n /\ (j + 1) - 1 = j /\ Kept(h, f[j])
    BY <1>0, <1>7
  <2>2. f[j + 1] = Paragraph!EmptyLine(f[j], nls[j + 1])
    BY <1>5, <2>1
  <2> QED
    BY <2>1, <2>2, EmptyLineKept
<1>8. R = 0..n
  <2>1. R \in SUBSET (0..n)
    OBVIOUS
  <2> HIDE DEF R
  <2> QED
    BY <1>0, <1>6, <1>7, <2>1, Lines!UpToByStep
<1>9. Kept(h, f[n])
  BY <1>0, <1>8
<1> QED
  BY <1>1, <1>5, <1>9, Zenon

LEMMA BuffersReset ==
    ASSUME NEW h, ParaFields \subseteq DOMAIN h
    PROVE  Keeps(h, Paragraph!resetBuffers(h)) /\ Paragraph!resetBuffers(h).newLineCount = 0
  BY DEF ParaFields, Keeps, Paragraph!resetBuffers

LEMMA PendingKept ==
    ASSUME NEW h, ParaBase(h), h.newLineCount \in Nat
    PROVE  /\ Kept(h, Paragraph!processPendingNLs(h))
           /\ Paragraph!processPendingNLs(h).handler.newLineCount = 0
<1> DEFINE a == Paragraph!PassEmptyLines(h)
           b == Paragraph!CloseBeforeBlock(a)
<1>0. ParaFields \subseteq DOMAIN h /\ h.newLineCount \in Nat
  BY Zenon DEF ParaBase
<1>1. Kept(h, a)
  <2>1. CASE h.newLineCount >= 2 /\ ~h.inBlockElem
    <3> DEFINE e == Paragraph!EmptyLines(h)
               g == [e.handler EXCEPT !.newLineCount = 0]
    <3>1. Kept(h, e)
      BY <1>0, <2>1, EmptyLinesKept
    <3>2. a = [e EXCEPT !.handler.newLineCount = 0]
      BY <2>1, Zenon DEF Paragraph!PassEmptyLines
    <3> HIDE DEF e
    <3>3. Keeps(e.handler, g)
      <4>1. ParaFields \subseteq DOMAIN e.handler
        BY <1>0, <3>1 DEF Kept, Keeps
      <4> QED
        BY <4>1, BuffersKept
    <3>4. Keeps(h, g)
      BY <3>1, <3>3, KeepsAlso, Zenon DEF Kept
    <3>5. a.handler = g /\ "handler" \in DOMAIN a
      BY <3>1, <3>2 DEF Kept
    <3> QED
      BY <3>4, <3>5, Zenon DEF Kept
  <2>2. CASE ~(h.newLineCount >= 2 /\ ~h.inBlockElem)
    <3>1. a = Paragraph!Result(h, h.tokenBuffer)
      BY <2>2, Zenon DEF Paragraph!PassEmptyLines
    <3> QED
      BY <3>1, ParaResultOf, KeepsSelf, Zenon DEF Kept
  <2> QED
    BY <2>1, <2>2
<1> HIDE DEF a
<1>2. Kept(h, b)
  <2>1. ParaFields \subseteq DOMAIN a.handler
    BY <1>0, <1>1 DEF Kept, Keeps
  <2> DEFINE c == Paragraph!closeOpenPTag(a.handler, a.out)
  <2>2. Kept(h, c)
    BY <1>1, <2>1, ClosesKept, KeepsAlso, Zenon DEF Kept
  <2>3. Kept(h, Paragraph!PassNl(c, <<>>))
    BY <1>0, <2>2, PassNlKept
  <2>4. b = a \/ b = Paragraph!PassNl(c, <<>>) \/ b = c
    <3>1. CASE ~Paragraph!Matched(a.handler.currLine)
      BY <3>1 DEF Paragraph!CloseBeforeBlock
    <3>2. CASE Paragraph!Matched(a.handler.currLine) /\ a.handler.newLineCount = 1
      BY <3>2 DEF Paragraph!CloseBeforeBlock
    <3>3. CASE Paragraph!Matched(a.handler.currLine) /\ a.handler.newLineCount # 1
      BY <3>3 DEF Paragraph!CloseBeforeBlock
    <3> QED
      BY <3>1, <3>2, <3>3
  <2> QED
    BY <1>1, <2>2, <2>3, <2>4, Zenon
<1> HIDE DEF b
<1>3. Paragraph!processPendingNLs(h) =
         Paragraph!Result(Paragraph!resetBuffers(b.handler), b.out \o b.handler.nlWsTokens)
  BY Zenon DEF Paragraph!processPendingNLs, Paragraph!PassHeld, a, b
<1>4. ParaFields \subseteq DOMAIN b.handler
  BY <1>0, <1>2 DEF Kept, Keeps
<1>5. /\ Keeps(b.handler, Paragraph!resetBuffers(b.handler))
      /\ Paragraph!resetBuffers(b.handler).newLineCount = 0
  BY <1>4, BuffersReset
<1>6. Keeps(h, Paragraph!resetBuffers(b.handler))
  BY <1>2, <1>5, KeepsAlso, Zenon DEF Kept
<1> HIDE DEF b
<1>7. /\ Paragraph!processPendingNLs(h).handler = Paragraph!resetBuffers(b.handler)
      /\ "handler" \in DOMAIN Paragraph!processPendingNLs(h)
  BY ONLY <1>3, ParaResultOf
<1> QED
  BY <1>5, <1>6, <1>7, Zenon DEF Kept

LEMMA BaseKept ==
    ASSUME NEW h, NEW g, ParaBase(h), Keeps(h, g)
    PROVE  ParaBase(g)
  BY Zenon DEF ParaBase, Keeps

LEMMA Pushes ==
    ASSUME NEW h, ParaBase(h), NEW token
    PROVE  LET g == Paragraph!Push(h, token)
           IN  /\ ParaBase(g) /\ g.newLineCount = h.newLineCount
               /\ g.currLine.tokens = Append(h.currLine.tokens, token)
<1>1. ParaFields \subseteq DOMAIN h /\ LineFields \subseteq DOMAIN h.currLine
  BY Zenon DEF ParaBase
<1> DEFINE g == Paragraph!Push(h, token)
<1>2. /\ DOMAIN g = DOMAIN h /\ DOMAIN g.currLine = DOMAIN h.currLine
      /\ g.newLineCount = h.newLineCount
      /\ g.currLine.tokens = Append(h.currLine.tokens, token)
      /\ g.inPre = h.inPre /\ g.onNewLine = h.onNewLine
  BY <1>1 DEF Paragraph!Push, ParaFields, LineFields
<1> HIDE DEF g
<1>3. ParaBase(g)
  BY <1>2, Zenon DEF ParaBase
<1> QED
  BY <1>2, <1>3, Zenon DEF g

LEMMA LineReset ==
    ASSUME NEW h, ParaBase(h)
    PROVE  LET g == Paragraph!resetCurrLine(h)
           IN  /\ ParaBase(g) /\ g.newLineCount = h.newLineCount /\ g.currLine.tokens = <<>>
               /\ g.nlWsTokens = h.nlWsTokens
<1>1. ParaFields \subseteq DOMAIN h
  BY Zenon DEF ParaBase
<1> DEFINE g == Paragraph!resetCurrLine(h)
<1>2. /\ DOMAIN g = DOMAIN h /\ g.currLine = Paragraph!NewLine
      /\ g.newLineCount = h.newLineCount /\ g.inPre = h.inPre /\ g.onNewLine = h.onNewLine
      /\ g.nlWsTokens = h.nlWsTokens
  BY <1>1 DEF Paragraph!resetCurrLine, ParaFields
<1>3. LineFields \subseteq DOMAIN Paragraph!NewLine /\ Paragraph!NewLine.tokens = <<>>
  BY DEF LineFields, Paragraph!NewLine
<1> HIDE DEF g
<1>4. ParaBase(g)
  BY <1>2, <1>3, Zenon DEF ParaBase
<1> QED
  BY <1>2, <1>3, <1>4, Zenon DEF g

LEMMA NothingPending ==
    ASSUME NEW g, ParaBase(g), g.newLineCount = 0
    PROVE  ParaOK(g)
  BY DEF ParaOK

LEMMA BuffersProcessed ==
    ASSUME NEW h, ParaOK(h), NEW token
    PROVE  /\ ParaOK(Paragraph!processBuffers(h, token, TRUE).handler)
           /\ ParaOK(Paragraph!processBuffers(h, token, FALSE).handler)
<1> DEFINE q == Paragraph!processPendingNLs(h)
           r == Paragraph!PushInto(q, token)
<1>1. ParaBase(q.handler) /\ q.handler.newLineCount = 0
  BY PendingKept, BaseKept, Zenon DEF Kept, ParaOK
<1> HIDE DEF q
<1>2. r = Paragraph!Result(Paragraph!Push(q.handler, token), q.out)
  BY Zenon DEF Paragraph!PushInto
<1>3. ParaBase(r.handler) /\ r.handler.newLineCount = 0
  BY <1>1, <1>2, Pushes, ParaResultOf
<1> HIDE DEF r
<1>4. ParaBase(Paragraph!resetCurrLine(r.handler)) /\ Paragraph!resetCurrLine(r.handler).newLineCount = 0
  BY <1>3, LineReset
<1>5. Paragraph!processBuffers(h, token, TRUE).handler = Paragraph!resetCurrLine(r.handler)
  BY ParaResultOf, Zenon DEF Paragraph!processBuffers, r, q
<1>6. Paragraph!processBuffers(h, token, FALSE).handler = r.handler
  BY Zenon DEF Paragraph!processBuffers, r, q
<1> QED
  BY <1>3, <1>4, <1>5, <1>6, NothingPending, Zenon

LEMMA OnePending ==
    ASSUME NEW h, ParaOK(h), NEW g, DOMAIN g = DOMAIN h, g.inPre = h.inPre, g.onNewLine = h.onNewLine,
           DOMAIN g.currLine = DOMAIN h.currLine, g.newLineCount = h.newLineCount,
           g.currLine.tokens = h.currLine.tokens
    PROVE  ParaOK(g)
  BY Zenon DEF ParaOK, ParaBase

LEMMA LineEnds ==
    ASSUME NEW h, ParaOK(h), NEW token
    PROVE  /\ ParaOK(Paragraph!onNewLineOrEOF(h, token).handler)
           /\ token = Paragraph!EOFTk => Paragraph!onNewLineOrEOF(h, token).handler = Paragraph!NewHandler
<1> DEFINE wrapped == CASE Paragraph!Matched(h.currLine) -> Paragraph!closeOpenPTag(h, h.currLine.tokens)
                     [] ~Paragraph!Matched(h.currLine) /\ ~h.inBlockElem /\ h.currLine.hasWrappableTokens ->
                          Paragraph!openPTag(h, h.currLine.tokens)
                     [] OTHER -> Paragraph!Result(h, h.currLine.tokens)
           buffered == [wrapped.handler EXCEPT !.tokenBuffer = @ \o wrapped.out]
           held == wrapped.handler.tokenBuffer \o wrapped.out
           closed == Paragraph!closeOpenPTag(buffered, buffered.tokenBuffer)
           last   == [closed.handler EXCEPT !.tokenBuffer = closed.out, !.nlWsTokens = Append(@, token)]
           r      == Paragraph!processPendingNLs(last)
           next   == [Paragraph!resetCurrLine(buffered) EXCEPT !.newLineCount = @ + 1,
                                                              !.nlWsTokens = Append(@, token)]
<1>1. Paragraph!onNewLineOrEOF(h, token) =
         IF token = Paragraph!EOFTk THEN Paragraph!Result(Paragraph!reset(r.handler), r.out)
         ELSE Paragraph!Result(next, <<>>)
  BY Zenon DEF Paragraph!onNewLineOrEOF
<1>2. /\ ParaFields \subseteq DOMAIN h /\ ParaBase(h) /\ h.newLineCount \in Nat
  BY Zenon DEF ParaOK, ParaBase
<1>3. Kept(h, wrapped)
  <2>1. Kept(h, Paragraph!closeOpenPTag(h, h.currLine.tokens)) /\ Kept(h, Paragraph!openPTag(h, h.currLine.tokens))
    BY <1>2, ClosesKept
  <2>2. Kept(h, Paragraph!Result(h, h.currLine.tokens))
    BY ParaResultOf, KeepsSelf, Zenon DEF Kept
  <2>3. \/ wrapped = Paragraph!closeOpenPTag(h, h.currLine.tokens)
        \/ wrapped = Paragraph!openPTag(h, h.currLine.tokens)
        \/ wrapped = Paragraph!Result(h, h.currLine.tokens)
    <3>1. CASE Paragraph!Matched(h.currLine)
      BY <3>1
    <3>2. CASE ~Paragraph!Matched(h.currLine) /\ ~h.inBlockElem /\ h.currLine.hasWrappableTokens
      BY <3>2
    <3>3. CASE ~Paragraph!Matched(h.currLine) /\ ~(~h.inBlockElem /\ h.currLine.hasWrappableTokens)
      BY <3>3
    <3> QED
      BY <3>1, <3>2, <3>3
  <2> QED
    BY <2>1, <2>2, <2>3, Zenon
<1>10. wrapped.handler.newLineCount = h.newLineCount
  <2>1. /\ Paragraph!closeOpenPTag(h, h.currLine.tokens).handler.newLineCount = h.newLineCount
        /\ Paragraph!openPTag(h, h.currLine.tokens).handler.newLineCount = h.newLineCount
        /\ Paragraph!Result(h, h.currLine.tokens).handler.newLineCount = h.newLineCount
    BY <1>2, ClosesCount, ParaResultOf
  <2>2. \/ wrapped = Paragraph!closeOpenPTag(h, h.currLine.tokens)
        \/ wrapped = Paragraph!openPTag(h, h.currLine.tokens)
        \/ wrapped = Paragraph!Result(h, h.currLine.tokens)
    <3>1. CASE Paragraph!Matched(h.currLine)
      BY <3>1
    <3>2. CASE ~Paragraph!Matched(h.currLine) /\ ~h.inBlockElem /\ h.currLine.hasWrappableTokens
      BY <3>2
    <3>3. CASE ~Paragraph!Matched(h.currLine) /\ ~(~h.inBlockElem /\ h.currLine.hasWrappableTokens)
      BY <3>3
    <3> QED
      BY <3>1, <3>2, <3>3
  <2> QED
    BY <2>1, <2>2, Zenon
<1> HIDE DEF wrapped
<1>7. buffered.newLineCount \in Nat
  <2>1. ParaFields \subseteq DOMAIN wrapped.handler
    BY <1>2, <1>3 DEF Kept, Keeps
  <2>2. buffered.newLineCount = wrapped.handler.newLineCount
    BY <2>1 DEF ParaFields
  <2> QED
    BY <2>2, <1>2, <1>10, Zenon
<1>4. Keeps(h, buffered)
  <2>1. ParaFields \subseteq DOMAIN wrapped.handler
    BY <1>2, <1>3 DEF Kept, Keeps
  <2>2. buffered = [wrapped.handler EXCEPT !.tokenBuffer = held]
    BY <2>1 DEF ParaFields
  <2> HIDE DEF held, buffered
  <2>3. Keeps(wrapped.handler, [wrapped.handler EXCEPT !.tokenBuffer = held])
    BY <2>1, BuffersKept
  <2> QED
    BY <2>2, <2>3, <1>3, KeepsAlso, Zenon DEF Kept
<1> HIDE DEF buffered, held
<1>5. ParaBase(buffered) /\ ParaFields \subseteq DOMAIN buffered
  BY <1>2, <1>4, BaseKept, Zenon DEF ParaBase
<1>6. ParaBase(Paragraph!NewHandler) /\ ParaOK(Paragraph!NewHandler)
  BY DEF ParaBase, ParaOK, ParaFields, LineFields, Paragraph!NewHandler, Paragraph!NewLine
<1>8. CASE token = Paragraph!EOFTk
  <2>1. Kept(buffered, closed)
    BY <1>5, ClosesKept
  <2>8. closed.handler.newLineCount = buffered.newLineCount
    BY <1>5, ClosesCount
  <2> HIDE DEF closed
  <2>2. Keeps(closed.handler, last)
    <3> DEFINE a == [closed.handler EXCEPT !.tokenBuffer = closed.out]
               x == Append(a.nlWsTokens, token)
    <3>1. ParaFields \subseteq DOMAIN closed.handler /\ ParaFields \subseteq DOMAIN a
      BY <1>5, <2>1 DEF Kept, Keeps
    <3>2. Keeps(closed.handler, a)
      BY <3>1, BuffersKept
    <3>3. last = [a EXCEPT !.nlWsTokens = x]
      BY <3>1 DEF ParaFields
    <3> HIDE DEF x, a, last
    <3>4. Keeps(a, [a EXCEPT !.nlWsTokens = x])
      BY <3>1, BuffersKept
    <3> QED
      BY <3>2, <3>3, <3>4, KeepsAlso, Zenon
  <2>3. last.newLineCount = closed.handler.newLineCount
    BY <1>5, <2>1 DEF Kept, Keeps, ParaFields
  <2> HIDE DEF last
  <2>4. ParaBase(last)
    BY <1>5, <2>1, <2>2, BaseKept, KeepsAlso, Zenon DEF Kept
  <2>5. last.newLineCount \in Nat
    BY <2>3, <1>7, <2>8, Zenon
  <2>6. Kept(last, r)
    BY <2>4, <2>5, PendingKept
  <2> HIDE DEF r
  <2>7. Paragraph!reset(r.handler) = Paragraph!NewHandler
    <3>1. r.handler.onNewLine \/ r.handler.inPre
      BY <2>4, <2>6, BaseKept, Zenon DEF Kept, ParaBase
    <3>2. (r.handler.onNewLine \/ r.handler.inPre) = TRUE
      BY ONLY <3>1, Zenon
    <3>3. Paragraph!reset(r.handler) = [Paragraph!NewHandler EXCEPT !.onNewLine = TRUE]
      BY ONLY <3>2, Zenon DEF Paragraph!reset
    <3>4. /\ Paragraph!NewHandler.onNewLine = TRUE /\ "onNewLine" \in DOMAIN Paragraph!NewHandler
          /\ Paragraph!NewHandler = [y \in DOMAIN Paragraph!NewHandler |-> Paragraph!NewHandler[y]]
      BY DEF Paragraph!NewHandler
    <3>5. [Paragraph!NewHandler EXCEPT !.onNewLine = TRUE] = Paragraph!NewHandler
      BY ONLY <3>4, SameField, Zenon
    <3> QED
      BY <3>3, <3>5, Zenon
  <2> QED
    BY <1>1, <1>6, <1>8, <2>7, ParaResultOf, Zenon
<1>9. CASE token # Paragraph!EOFTk
  <2> DEFINE g == Paragraph!resetCurrLine(buffered)
  <2>1. /\ ParaBase(g) /\ g.newLineCount = buffered.newLineCount /\ g.currLine.tokens = <<>>
    BY <1>5, LineReset
  <2> HIDE DEF g
  <2>2. ParaFields \subseteq DOMAIN g
    BY <2>1, Zenon DEF ParaBase
  <2>3. /\ DOMAIN next = DOMAIN g /\ next.currLine = g.currLine /\ next.inPre = g.inPre
        /\ next.onNewLine = g.onNewLine /\ next.newLineCount = g.newLineCount + 1
    BY <2>2 DEF ParaFields, g
  <2>4. Paragraph!Result(next, <<>>).handler = next
    BY ONLY ParaResultOf
  <2> HIDE DEF next
  <2>5. next.newLineCount \in Nat
    BY <1>7, <2>1, <2>3
  <2>6. <<>> \in Seq({Paragraph!Blank})
    OBVIOUS
  <2>7. ParaOK(next)
    BY <2>1, <2>3, <2>5, <2>6, Zenon DEF ParaOK, ParaBase
  <2> QED
    BY <1>1, <1>9, <2>4, <2>7, Zenon
<1> QED
  BY <1>9, <1>8

LEMMA PrePushed ==
    ASSUME NEW h, ParaOK(h)
    PROVE  ParaOK(Paragraph!AnyPre(h).handler)
<1>1. CASE h.inBlockElem
  <2> DEFINE g == Paragraph!Push(h, Paragraph!Blank)
  <2>1. /\ ParaBase(g) /\ g.newLineCount = h.newLineCount
        /\ g.currLine.tokens = Append(h.currLine.tokens, Paragraph!Blank)
    BY Pushes DEF ParaOK
  <2> HIDE DEF g
  <2>2. h.currLine.tokens \in Seq({Paragraph!Blank}) =>
           Append(h.currLine.tokens, Paragraph!Blank) \in Seq({Paragraph!Blank})
    OBVIOUS
  <2>3. ParaOK(g)
    BY <2>1, <2>2, Zenon DEF ParaOK
  <2>4. Paragraph!AnyPre(h).handler = g
    BY <1>1, ParaResultOf, Zenon DEF Paragraph!AnyPre, g
  <2> QED
    BY <2>3, <2>4, Zenon
<1>2. CASE ~h.inBlockElem
  <2> DEFINE g == [h EXCEPT !.onNewLine = FALSE, !.inPre = TRUE, !.currLine.openMatch = TRUE]
  <2>1. ParaFields \subseteq DOMAIN h /\ LineFields \subseteq DOMAIN h.currLine
    BY Zenon DEF ParaOK, ParaBase
  <2>2. /\ DOMAIN g = DOMAIN h /\ g.newLineCount = h.newLineCount
        /\ g.currLine = [h.currLine EXCEPT !.openMatch = TRUE]
    BY <2>1 DEF ParaFields
  <2>3. g.onNewLine = FALSE /\ g.inPre = TRUE
    BY <2>1 DEF ParaFields
  <2>4. /\ DOMAIN [h.currLine EXCEPT !.openMatch = TRUE] = DOMAIN h.currLine
        /\ [h.currLine EXCEPT !.openMatch = TRUE].tokens = h.currLine.tokens
    BY <2>1 DEF LineFields
  <2> HIDE DEF g
  <2>5. ParaOK(g)
    BY <2>1, <2>2, <2>3, <2>4, Zenon DEF ParaOK, ParaBase
  <2>6. Paragraph!AnyPre(h) = Paragraph!processBuffers(g, Paragraph!PreTag, TRUE)
    BY <1>2, Zenon DEF Paragraph!AnyPre, g
  <2> QED
    BY <2>5, <2>6, BuffersProcessed, Zenon
<1> QED
  BY <1>1, <1>2

LEMMA PreEnded ==
    ASSUME NEW h, ParaOK(h)
    PROVE  ParaOK(Paragraph!AnyEndPre(h).handler)
<1>1. CASE h.inBlockElem /\ ~h.inPre
  BY <1>1, ParaResultOf, Zenon DEF Paragraph!AnyEndPre
<1>2. CASE ~(h.inBlockElem /\ ~h.inPre)
  <2> DEFINE on == h.onNewLine \/ h.inPre
             g == [h EXCEPT !.onNewLine = on, !.inPre = FALSE, !.currLine.closeMatch = TRUE]
  <2>1. ParaFields \subseteq DOMAIN h /\ LineFields \subseteq DOMAIN h.currLine
    BY Zenon DEF ParaOK, ParaBase
  <2>5. on
    BY Zenon DEF ParaOK, ParaBase
  <2>6. Paragraph!AnyEndPre(h).handler = g
    <3>1. g = [h EXCEPT !.onNewLine = @ \/ h.inPre, !.inPre = FALSE, !.currLine.closeMatch = TRUE]
      BY <2>1 DEF ParaFields
    <3> HIDE DEF g
    <3> QED
      BY <1>2, <3>1, ParaResultOf, Zenon DEF Paragraph!AnyEndPre
  <2> HIDE DEF on
  <2>2. /\ DOMAIN g = DOMAIN h /\ g.newLineCount = h.newLineCount
        /\ g.currLine = [h.currLine EXCEPT !.closeMatch = TRUE]
    BY <2>1 DEF ParaFields
  <2>3. g.onNewLine = on /\ g.inPre = FALSE
    BY <2>1 DEF ParaFields
  <2>4. /\ DOMAIN [h.currLine EXCEPT !.closeMatch = TRUE] = DOMAIN h.currLine
        /\ [h.currLine EXCEPT !.closeMatch = TRUE].tokens = h.currLine.tokens
    BY <2>1 DEF LineFields
  <2> HIDE DEF g
  <2>7. ParaOK(g)
    BY <2>1, <2>2, <2>3, <2>4, <2>5, Zenon DEF ParaOK, ParaBase
  <2> QED
    BY <2>6, <2>7, Zenon
<1> QED
  BY <1>1, <1>2

LEMMA BuffersGone ==
    ASSUME NEW h, ParaBase(h)
    PROVE  ParaOK(Paragraph!resetBuffers(h))
<1>1. Keeps(h, Paragraph!resetBuffers(h)) /\ Paragraph!resetBuffers(h).newLineCount = 0
  BY BuffersReset DEF ParaBase
<1> QED
  BY <1>1, BaseKept, NothingPending, Zenon

LEMMA SpacePushed ==
    ASSUME NEW h, ParaOK(h), NEW token
    PROVE  ParaOK(Paragraph!AnySpace(h, token).handler)
<1>1. CASE h.newLineCount = 0
  <2>1. ParaBase(Paragraph!Push(h, token))
    BY Pushes DEF ParaOK
  <2>2. Paragraph!AnySpace(h, token).handler = Paragraph!resetBuffers(Paragraph!Push(h, token))
    BY <1>1, ParaResultOf, Zenon DEF Paragraph!AnySpace, Paragraph!flushBuffers
  <2> QED
    BY <2>1, <2>2, BuffersGone, Zenon
<1>2. CASE h.newLineCount # 0
  <2> DEFINE x == Append(h.nlWsTokens, token)
             g == [h EXCEPT !.nlWsTokens = x]
  <2>1. ParaFields \subseteq DOMAIN h
    BY Zenon DEF ParaOK, ParaBase
  <2>2. Paragraph!AnySpace(h, token).handler = g
    <3>1. g = [h EXCEPT !.nlWsTokens = Append(@, token)]
      BY <2>1 DEF ParaFields
    <3> HIDE DEF g
    <3> QED
      BY <1>2, <3>1, ParaResultOf, Zenon DEF Paragraph!AnySpace
  <2> HIDE DEF x
  <2>3. /\ DOMAIN g = DOMAIN h /\ g.inPre = h.inPre /\ g.onNewLine = h.onNewLine
        /\ g.currLine = h.currLine /\ g.newLineCount = h.newLineCount
    BY <2>1 DEF ParaFields
  <2> HIDE DEF g
  <2>4. ParaOK(g)
    BY <2>3, OnePending, Zenon
  <2> QED
    BY <2>2, <2>4, Zenon
<1> QED
  BY <1>1, <1>2

LEMMA SolPushed ==
    ASSUME NEW h, ParaOK(h), NEW token
    PROVE  ParaOK(Paragraph!AnySol(h, token).handler)
<1> DEFINE a == Paragraph!flushBuffers(Paragraph!Push(h, token))
           b == Paragraph!Result(Paragraph!Push(Paragraph!resetCurrLine(
                    [h EXCEPT !.tokenBuffer = @ \o h.nlWsTokens \o h.currLine.tokens,
                              !.newLineCount = 0, !.nlWsTokens = <<>>]), token), <<>>)
           c == Paragraph!processBuffers(h, token, FALSE)
           n == h.newLineCount
           r == Paragraph!AnySol(h, token)
<1>4. r = CASE n = 0 -> a [] n = 1 -> b [] n > 1 -> c
  BY Zenon DEF Paragraph!AnySol
<1>0. n \in Nat /\ ParaBase(h) /\ ParaFields \subseteq DOMAIN h
  BY Zenon DEF ParaOK, ParaBase
<1> HIDE DEF a, b, c, r, n
<1>5. (n = 0 => r = a) /\ (n = 1 => r = b) /\ (n > 1 => r = c) /\ n \in Nat
  BY ONLY <1>0, <1>4
<1> USE DEF n
<1>1. CASE h.newLineCount = 0
  <2>1. ParaBase(Paragraph!Push(h, token))
    BY Pushes DEF ParaOK
  <2>2. Paragraph!AnySol(h, token).handler = Paragraph!resetBuffers(Paragraph!Push(h, token))
    BY <1>1, <1>5, ParaResultOf, Zenon DEF a, r, Paragraph!flushBuffers
  <2> QED
    BY <2>1, <2>2, BuffersGone, Zenon
<1>2. CASE h.newLineCount = 1
  <2> DEFINE x == h.tokenBuffer \o h.nlWsTokens \o h.currLine.tokens
             g == [h EXCEPT !.tokenBuffer = x, !.newLineCount = 0, !.nlWsTokens = <<>>]
  <2>1. g = [h EXCEPT !.tokenBuffer = @ \o h.nlWsTokens \o h.currLine.tokens,
                      !.newLineCount = 0, !.nlWsTokens = <<>>]
    BY <1>0 DEF ParaFields
  <2> HIDE DEF x
  <2>4. /\ DOMAIN g = DOMAIN h /\ g.inPre = h.inPre /\ g.onNewLine = h.onNewLine
        /\ g.currLine = h.currLine /\ g.newLineCount = 0
    BY <1>0 DEF ParaFields
  <2> HIDE DEF g
  <2>3. Paragraph!AnySol(h, token) = Paragraph!Result(Paragraph!Push(Paragraph!resetCurrLine(g), token), <<>>)
    BY <1>2, <1>5, <2>1, Zenon DEF r, b
  <2>5. ParaBase(g)
    BY <1>0, <2>4, BaseKept, Zenon DEF Keeps
  <2> DEFINE k == Paragraph!resetCurrLine(g)
             m == Paragraph!Push(k, token)
  <2>6. ParaBase(k) /\ k.newLineCount = 0
    BY <2>4, <2>5, LineReset
  <2> HIDE DEF k
  <2>7. ParaBase(m) /\ m.newLineCount = 0
    BY <2>6, Pushes
  <2> HIDE DEF m
  <2>8. Paragraph!AnySol(h, token).handler = m
    BY <2>3, ParaResultOf, Zenon DEF k, m
  <2> QED
    BY <2>7, <2>8, NothingPending, Zenon
<1>3. CASE h.newLineCount > 1
  <2>2. Paragraph!AnySol(h, token) = Paragraph!processBuffers(h, token, FALSE)
    BY <1>3, <1>5, Zenon DEF r, c
  <2> QED
    BY <2>2, BuffersProcessed, Zenon
<1> QED
  BY <1>0, <1>1, <1>2, <1>3

LEMMA OtherPushed ==
    ASSUME NEW h, ParaOK(h), NEW token
    PROVE  ParaOK(Paragraph!AnyOther(h, token).handler)
<1> DEFINE o == h.currLine.openMatch \/ token = Paragraph!Opens
           c == h.currLine.closeMatch \/ token = Paragraph!Closes
           wrapped == [h.currLine EXCEPT !.openMatch = o, !.closeMatch = c, !.hasWrappableTokens = TRUE]
           g == [h EXCEPT !.currLine = wrapped]
<1>0. ParaFields \subseteq DOMAIN h /\ LineFields \subseteq DOMAIN h.currLine
  BY Zenon DEF ParaOK, ParaBase
<1>1. g = [h EXCEPT !.currLine.openMatch = @ \/ token = Paragraph!Opens,
                    !.currLine.closeMatch = @ \/ token = Paragraph!Closes,
                    !.currLine.hasWrappableTokens = TRUE]
  BY <1>0 DEF ParaFields, LineFields
<1> HIDE DEF o, c
<1>2. DOMAIN wrapped = DOMAIN h.currLine /\ wrapped.tokens = h.currLine.tokens
  BY <1>0 DEF LineFields
<1> HIDE DEF wrapped
<1>3. /\ DOMAIN g = DOMAIN h /\ g.inPre = h.inPre /\ g.onNewLine = h.onNewLine
      /\ g.currLine = wrapped /\ g.newLineCount = h.newLineCount
  BY <1>0 DEF ParaFields
<1> HIDE DEF g
<1>4. ParaOK(g)
  BY <1>2, <1>3, OnePending, Zenon
<1>5. Paragraph!AnyOther(h, token) = Paragraph!processBuffers(g, token, FALSE)
  BY <1>1, Zenon DEF Paragraph!AnyOther
<1> QED
  BY <1>4, <1>5, BuffersProcessed, Zenon

\* What the stage gives.
Given == {"word", "ws", "sol", Paragraph!TplStart, Paragraph!TplEnd, Paragraph!Opens, Paragraph!Closes,
          Paragraph!NlTk, Paragraph!PreTag, Paragraph!EndPre, Paragraph!EOFTk}

LEMMA AnyGiven ==
    ASSUME NEW h, ParaOK(h), NEW token \in Given, token # Paragraph!EOFTk
    PROVE  ParaOK(Paragraph!onAny(h, token).handler)
<1> DEFINE a == Paragraph!AnyPre(h)
           b == Paragraph!AnyEndPre(h)
           c == Paragraph!Result(h, <<token>>)
           d == Paragraph!AnySpace(h, token)
           e == Paragraph!AnySol(h, token)
           f == Paragraph!AnyOther(h, token)
<1>1. /\ ParaOK(a.handler) /\ ParaOK(b.handler) /\ ParaOK(c.handler) /\ ParaOK(d.handler)
      /\ ParaOK(e.handler) /\ ParaOK(f.handler)
  BY PrePushed, PreEnded, SpacePushed, SolPushed, OtherPushed, ParaResultOf, Zenon
<1>2. Paragraph!onAny(h, token) \in {a, b, c, d, e, f}
  <2>1. Paragraph!onAny(h, token) =
          CASE token = Paragraph!PreTag -> a
            [] token = Paragraph!EndPre -> b
            [] token \notin {Paragraph!PreTag, Paragraph!EndPre} /\ h.inPre -> c
            [] token = "ws" /\ ~h.inPre -> d
            [] token \in {"sol", Paragraph!TplStart, Paragraph!TplEnd} /\ ~h.inPre -> e
            [] token \in {"word", Paragraph!Opens, Paragraph!Closes, Paragraph!NlTk} /\ ~h.inPre -> f
    BY Zenon DEF Paragraph!onAny
  <2> DEFINE r == Paragraph!onAny(h, token)
             in == h.inPre
  <2> HIDE DEF a, b, c, d, e, f, r, in
  <2>2. r = CASE token = "<pre>" -> a
            [] token = "</pre>" -> b
            [] token \notin {"<pre>", "</pre>"} /\ in -> c
            [] token = "ws" /\ ~in -> d
            [] token \in {"sol", "mw:Transclusion", "mw:Transclusion/End"} /\ ~in -> e
            [] token \in {"word", "<block>", "</block>", "nl"} /\ ~in -> f
    BY <2>1, Zenon DEF Paragraph!PreTag, Paragraph!EndPre, Paragraph!TplStart, Paragraph!TplEnd,
       Paragraph!Opens, Paragraph!Closes, Paragraph!NlTk, r, in
  <2>3. token \in {"word", "ws", "sol", "mw:Transclusion", "mw:Transclusion/End", "<block>", "</block>",
                   "nl", "<pre>", "</pre>"}
    BY DEF Given, Paragraph!PreTag, Paragraph!EndPre, Paragraph!TplStart, Paragraph!TplEnd,
       Paragraph!Opens, Paragraph!Closes, Paragraph!NlTk, Paragraph!EOFTk
  <2>4. r \in {a, b, c, d, e, f}
    BY ONLY <2>2, <2>3
  <2> QED
    BY <2>4 DEF r
<1> HIDE DEF a, b, c, d, e, f
<1> QED
  BY <1>1, <1>2

LEMMA ParaHandled ==
    ASSUME NEW h, ParaOK(h), NEW token \in Given
    PROVE  LET g == Paragraph!Handle(h, token).handler
           IN  ParaOK(g) /\ (token = Paragraph!EOFTk => g = Paragraph!NewHandler)
<1>1. CASE token = Paragraph!EOFTk \/ (token = Paragraph!NlTk /\ h.onNewLine)
  <2>1. Paragraph!Handle(h, token) = Paragraph!onNewLineOrEOF(h, token)
    BY <1>1, Zenon DEF Paragraph!Handle
  <2> QED
    BY <2>1, LineEnds, Zenon
<1>2. CASE ~(token = Paragraph!EOFTk \/ (token = Paragraph!NlTk /\ h.onNewLine))
  <2>1. Paragraph!Handle(h, token) = Paragraph!onAny(h, token)
    BY <1>2, Zenon DEF Paragraph!Handle
  <2> QED
    BY <1>2, <2>1, AnyGiven, Zenon
<1> QED
  BY <1>1, <1>2

LEMMA ParaGiven ==
    ASSUME ParaInv, NEW token \in Given, NEW place, NEW tpl, Paragraph!Give(token, place, tpl)
    PROVE  ParaInv'
<1>1. handler' = Paragraph!Handle(handler, token).handler /\ input' = <<token>>
  BY Zenon DEF Paragraph!Give
<1>2. ParaOK(handler') /\ (token = Paragraph!EOFTk => handler' = Paragraph!NewHandler)
  BY <1>1, ParaHandled, Zenon DEF ParaInv
<1>3. input' = <<Paragraph!EOFTk>> => token = Paragraph!EOFTk
  BY <1>1
<1>4. ParaOK(handler)'
  BY <1>2, Zenon DEF ParaOK, ParaBase
<1>5. (input = <<Paragraph!EOFTk>> => handler = Paragraph!NewHandler)'
  BY <1>2, <1>3, Zenon DEF Paragraph!EOFTk, Paragraph!NewHandler, Paragraph!NewLine
<1> QED
  BY <1>4, <1>5, Zenon DEF ParaInv

LEMMA ParaBegins ==
    ASSUME Paragraph!Init
    PROVE  ParaInv
<1>1. ParaOK(Paragraph!NewHandler)
  BY DEF ParaBase, ParaOK, ParaFields, LineFields, Paragraph!NewHandler, Paragraph!NewLine
<1> QED
  BY <1>1, Zenon DEF Paragraph!Init, ParaInv

LEMMA ParaNext ==
    ASSUME ParaInv, Paragraph!Next
    PROVE  ParaInv'
<1>1. \E token \in Given : \E place, tpl : Paragraph!Give(token, place, tpl)
  BY Zenon DEF Given, Paragraph!Next, Paragraph!GiveWord, Paragraph!GiveTransparent, Paragraph!GiveTemplateMark,
     Paragraph!GiveBlock, Paragraph!GiveNewline, Paragraph!GivePre, Paragraph!GiveEndPre, Paragraph!GiveEnd
<1> QED
  BY <1>1, ParaGiven, Zenon

LEMMA ParaHolds ==
    ASSUME ParaInv
    PROVE  Paragraph!NoFailedAssertion /\ Paragraph!EndLeavesNothing
<1>1. Paragraph!EndLeavesNothing
  BY Zenon DEF ParaInv, Paragraph!EndLeavesNothing
<1>2. Paragraph!NoFailedAssertion
  <2> SUFFICES ASSUME handler.newLineCount > 0
               PROVE  Paragraph!ToSet(handler.currLine.tokens) \subseteq {Paragraph!Blank}
    BY Zenon DEF Paragraph!NoFailedAssertion
  <2> DEFINE s == handler.currLine.tokens
  <2>1. s \in Seq({Paragraph!Blank})
    BY Zenon DEF ParaInv, ParaOK
  <2> HIDE DEF s
  <2>2. \A i \in DOMAIN s : s[i] \in {Paragraph!Blank}
    BY <2>1
  <2>3. Paragraph!ToSet(s) \subseteq {Paragraph!Blank}
    BY <2>2, Zenon DEF Paragraph!ToSet
  <2> QED
    BY <2>3 DEF s
<1> QED
  BY <1>1, <1>2

-----------------------------------------------------------------------------
(* QuoteTransformer *)

Names == {"b", "i"}

ConvFields == {"chunks", "state", "lastboth", "last", "missing", "misplaced"}

Bare(c) == ConvFields \subseteq DOMAIN c /\ DOMAIN c.last = Names

\* n is the last tag of its name in tags, at k.
LastAt(tags, n, k) ==
    /\ k \in 1..Len(tags) /\ tags[k].name = n
    /\ \A j \in 1..Len(tags) : j > k => tags[j].name # n

Lacks(tags, n) == \A j \in 1..Len(tags) : tags[j].name # n

LEMMA MaxIs ==
    ASSUME NEW S \in SUBSET Nat, NEW k \in S, \A j \in S : j <= k
    PROVE  Quotes!Max(S) = k
<1>1. \A y \in S : k >= y
  OBVIOUS
<1>2. Quotes!Max(S) \in S /\ \A y \in S : Quotes!Max(S) >= y
  BY <1>1, Zenon DEF Quotes!Max
<1> DEFINE m == Quotes!Max(S)
<1>3. m \in Nat /\ k \in Nat /\ k >= m /\ m >= k
  BY <1>1, <1>2, Zenon
<1> HIDE DEF m
<1>4. m = k
  BY ONLY <1>3
<1> QED
  BY <1>4 DEF m

\* What quoteToTag does.
Tagged(r, c, i, tags, bogus) ==
    /\ DOMAIN r = DOMAIN c /\ DOMAIN r.last = Names
    /\ r.state = c.state /\ r.lastboth = c.lastboth
    /\ r.chunks = [c.chunks EXCEPT ![i] = tags]
    /\ \A n \in Names : Lacks(tags, n) => r.last[n] = c.last[n]
    /\ \A n \in Names, k \in Nat : LastAt(tags, n, k) => r.last[n] = (tags[k].type = "TagTk")
    /\ r.missing = (c.missing \/ (bogus /\ ~c.last[tags[1].name]))

LEMMA Tags ==
    ASSUME NEW c, Bare(c), NEW i, NEW tags, Len(tags) \in Nat, NEW bogus \in BOOLEAN
    PROVE  Tagged(Quotes!quoteToTag(c, i, tags, bogus), c, i, tags, bogus)
<1> DEFINE r == Quotes!quoteToTag(c, i, tags, bogus)
           of(n) == {j \in 1..Len(tags) : tags[j].name = n}
           new == [n \in Names |-> IF of(n) = {} THEN c.last[n] ELSE tags[Quotes!Max(of(n))].type = "TagTk"]
           mis == c.misplaced \/ Quotes!MapThenSumSet(LAMBDA j : Quotes!Width(tags[j].name),
                                                       {j \in 1..Len(tags) : bogus => j = 2})
                                      # Quotes!QuoteAt(c.chunks, i)
           gone == (c.missing \/ (bogus /\ ~c.last[tags[1].name]))
           chs == [c.chunks EXCEPT ![i] = tags]
<1>1. r = [c EXCEPT !.chunks = chs, !.last = new, !.missing = gone, !.misplaced = mis]
  BY DEF Quotes!quoteToTag, Bare, ConvFields, Names
<1> HIDE DEF r, new, mis, gone, chs
<1>2. /\ DOMAIN r = DOMAIN c /\ r.state = c.state /\ r.lastboth = c.lastboth
      /\ r.chunks = chs /\ r.last = new /\ r.missing = gone
  BY <1>1 DEF Bare, ConvFields
<1>3. \A n \in Names : Lacks(tags, n) => new[n] = c.last[n]
  BY DEF new, Lacks
<1>4. \A n \in Names, k \in Nat : LastAt(tags, n, k) => new[n] = (tags[k].type = "TagTk")
  <2> SUFFICES ASSUME NEW n \in Names, NEW k \in Nat, LastAt(tags, n, k)
               PROVE  new[n] = (tags[k].type = "TagTk")
    OBVIOUS
  <2>1. k \in of(n) /\ of(n) \in SUBSET Nat /\ \A j \in of(n) : j <= k
    BY DEF LastAt
  <2>2. Quotes!Max(of(n)) = k /\ of(n) # {}
    <3> HIDE DEF of
    <3> QED
      BY <2>1, MaxIs
  <2>3. new[n] = IF of(n) = {} THEN c.last[n] ELSE tags[Quotes!Max(of(n))].type = "TagTk"
    BY Zenon DEF new
  <2> HIDE DEF of
  <2> QED
    BY <2>2, <2>3, Zenon
<1>5. DOMAIN new = Names
  BY DEF new
<1> QED
  BY <1>2, <1>3, <1>4, <1>5, Zenon DEF Tagged, r, chs, gone

\* The tags of every step of the machine.
LEMMA TagNames ==
    \A x \in Names :
        /\ Quotes!Other(x) \in Names /\ Quotes!Other(x) # x /\ Quotes!Other(Quotes!Other(x)) = x
        /\ Quotes!TagTk(x).name = x /\ Quotes!TagTk(x).type = "TagTk"
        /\ Quotes!EndTagTk(x).name = x /\ Quotes!EndTagTk(x).type # "TagTk"
        /\ \A n \in Names : n = x \/ n = Quotes!Other(x)
  BY DEF Names, Quotes!Other, Quotes!TagTk, Quotes!EndTagTk

\* For one tag, for two and for the three of an overlap.
Same(r, c) == Bare(r) /\ r.state = c.state /\ r.lastboth = c.lastboth /\ ~r.missing
GivesOne(r, c, i, t, x) ==
    /\ Same(r, c) /\ r.chunks = [c.chunks EXCEPT ![i] = <<t>>]
    /\ r.last[Quotes!Other(x)] = c.last[Quotes!Other(x)] /\ r.last[x] = (t.type = "TagTk")
GivesTwo(r, c, i, t, u, x) ==
    /\ Same(r, c) /\ r.chunks = [c.chunks EXCEPT ![i] = <<t, u>>]
    /\ r.last[Quotes!Other(x)] = (t.type = "TagTk") /\ r.last[x] = (u.type = "TagTk")

GivesThree(r, c, i, tags, y) ==
    Same(r, c) /\ r.chunks = [c.chunks EXCEPT ![i] = tags] /\ r.last[y]

\* One tag.
LEMMA OneTag ==
    ASSUME NEW c, Bare(c), ~c.missing, NEW i, NEW x \in Names, NEW t, t.name = x
    PROVE  GivesOne(Quotes!quoteToTag(c, i, <<t>>, FALSE), c, i, t, x)
<1> DEFINE y == Quotes!Other(x)
           tags == <<t>>
           r == Quotes!quoteToTag(c, i, tags, FALSE)
<1>1. Len(tags) \in Nat /\ Len(tags) = 1 /\ tags[1] = t /\ 1 \in Nat
  OBVIOUS
<1>2. x # y /\ y \in Names
  BY TagNames
<1> HIDE DEF tags
<1>3. LastAt(tags, x, 1) /\ Lacks(tags, y)
  BY <1>1, <1>2 DEF LastAt, Lacks
<1>4. Tagged(r, c, i, tags, FALSE)
  BY <1>1, Tags, FALSE \in BOOLEAN, TRUE \in BOOLEAN, Zenon
<1> HIDE DEF r
<1>5. ~r.missing
  BY <1>4, Zenon DEF Tagged
<1>6. r.last[y] = c.last[y] /\ r.last[x] = (t.type = "TagTk")
  BY <1>1, <1>2, <1>3, <1>4, Zenon DEF Tagged
<1>7. Bare(r)
  BY <1>4, Zenon DEF Tagged, Bare
<1> QED
  BY <1>4, <1>5, <1>6, <1>7, Zenon DEF Same, GivesOne, GivesTwo, GivesThree, Tagged, r, tags

\* Two tags of different names.
LEMMA TwoTags ==
    ASSUME NEW c, Bare(c), ~c.missing, NEW i, NEW x \in Names, NEW t, t.name = Quotes!Other(x),
           NEW u, u.name = x
    PROVE  GivesTwo(Quotes!quoteToTag(c, i, <<t, u>>, FALSE), c, i, t, u, x)
<1> DEFINE y == Quotes!Other(x)
           tags == <<t, u>>
           r == Quotes!quoteToTag(c, i, tags, FALSE)
<1>1. Len(tags) \in Nat /\ Len(tags) = 2 /\ tags[1] = t /\ tags[2] = u /\ 1 \in Nat /\ 2 \in Nat
  OBVIOUS
<1>2. x # y /\ y \in Names
  BY TagNames
<1> HIDE DEF tags
<1>3. LastAt(tags, x, 2) /\ LastAt(tags, y, 1)
  BY <1>1, <1>2 DEF LastAt
<1>4. Tagged(r, c, i, tags, FALSE)
  BY <1>1, Tags, FALSE \in BOOLEAN, TRUE \in BOOLEAN, Zenon
<1> HIDE DEF r
<1>5. ~r.missing
  BY <1>4, Zenon DEF Tagged
<1>6. r.last[y] = (t.type = "TagTk") /\ r.last[x] = (u.type = "TagTk")
  BY <1>1, <1>2, <1>3, <1>4, Zenon DEF Tagged
<1>7. Bare(r)
  BY <1>4, Zenon DEF Tagged, Bare
<1> QED
  BY <1>4, <1>5, <1>6, <1>7, Zenon DEF Same, GivesOne, GivesTwo, GivesThree, Tagged, r, tags

\* The tags of an overlap: the inner element is closed and opened again.
LEMMA ThreeTags ==
    ASSUME NEW c, Bare(c), ~c.missing, NEW i, NEW x \in Names, NEW y \in Names, x # y, c.last[y]
    PROVE  GivesThree(Quotes!quoteToTag(c, i, <<Quotes!EndTagTk(y), Quotes!EndTagTk(x), Quotes!TagTk(y)>>, TRUE),
                      c, i, <<Quotes!EndTagTk(y), Quotes!EndTagTk(x), Quotes!TagTk(y)>>, y)
<1> DEFINE tags == <<Quotes!EndTagTk(y), Quotes!EndTagTk(x), Quotes!TagTk(y)>>
           r == Quotes!quoteToTag(c, i, tags, TRUE)
<1>1. /\ Len(tags) \in Nat /\ Len(tags) = 3 /\ tags[1] = Quotes!EndTagTk(y)
      /\ tags[3] = Quotes!TagTk(y) /\ 3 \in Nat
  OBVIOUS
<1>2. x # y /\ y \in Names /\ tags[1].name = y /\ tags[3].name = y /\ tags[3].type = "TagTk"
  BY <1>1, TagNames
<1> HIDE DEF tags
<1>3. LastAt(tags, y, 3)
  BY <1>1, <1>2 DEF LastAt
<1>4. Tagged(r, c, i, tags, TRUE)
  BY <1>1, Tags, FALSE \in BOOLEAN, TRUE \in BOOLEAN, Zenon
<1> HIDE DEF r
<1>5. ~r.missing
  BY <1>2, <1>4, Zenon DEF Tagged
<1>6. r.last[y]
  BY <1>1, <1>2, <1>3, <1>4, Zenon DEF Tagged
<1>7. Bare(r)
  BY <1>4, Zenon DEF Tagged, Bare
<1> QED
  BY <1>4, <1>5, <1>6, <1>7, Zenon DEF Same, GivesOne, GivesTwo, GivesThree, Tagged, r, tags

\* A record whose state is set.
LEMMA StateSet ==
    ASSUME NEW q, Bare(q), NEW s
    PROVE  LET r == [q EXCEPT !.state = s]
           IN  /\ Bare(r) /\ r.state = s /\ r.missing = q.missing /\ r.last = q.last
               /\ r.chunks = q.chunks /\ r.lastboth = q.lastboth
  BY DEF Bare, ConvFields

MachineStates == {<<>>, <<"b">>, <<"i">>, <<"b", "i">>, <<"i", "b">>, <<"both">>}

OpenIn(s, n) == s \in {<<n>>, <<Quotes!Other(n), n>>, <<n, Quotes!Other(n)>>}

\* The tags that are open are those last seen of their names.
Sound(c) ==
    /\ Bare(c) /\ ~c.missing /\ c.state \in MachineStates
    /\ \A n \in Names : OpenIn(c.state, n) => c.last[n]

\* The chunks after the k-th quote are as they were.
RestOf(chs, cs, k) ==
    DOMAIN chs = DOMAIN cs /\ \A j \in DOMAIN cs : j > 2 * k => chs[j] = cs[j]

ConvOK(c, cs, k) ==
    /\ Sound(c) /\ RestOf(c.chunks, cs, k)
    /\ c.state = <<"both">> => c.lastboth \in Nat /\ c.lastboth <= 2 * k

LEMMA RestKept ==
    ASSUME NEW cs, DOMAIN cs \subseteq Nat, NEW chs, NEW k \in Nat, RestOf(chs, cs, k), NEW n \in Nat, k <= n,
           NEW i \in Nat, i <= 2 * n, NEW t
    PROVE  RestOf([chs EXCEPT ![i] = t], cs, n)
  BY DEF RestOf

LEMMA RestNext ==
    ASSUME NEW cs, DOMAIN cs \subseteq Nat, NEW chs, NEW k \in Nat, RestOf(chs, cs, k), NEW t
    PROVE  RestOf([chs EXCEPT ![2 * (k + 1)] = t], cs, k + 1)
  BY DEF RestOf

LEMMA RestBoth ==
    ASSUME NEW cs, DOMAIN cs \subseteq Nat, NEW chs, NEW k \in Nat, RestOf(chs, cs, k),
           NEW l \in Nat, l <= 2 * k, NEW t
    PROVE  RestOf([chs EXCEPT ![l] = t], cs, k)
  BY DEF RestOf

LEMMA StatesOf ==
    ASSUME NEW x \in Names, NEW y, y = Quotes!Other(x)
    PROVE  /\ MachineStates = {<<>>, <<x>>, <<y>>, <<x, y>>, <<y, x>>, <<"both">>}
           /\ x # y /\ x # "both" /\ y # "both"
           /\ \A s : OpenIn(s, x) <=> s \in {<<x>>, <<y, x>>, <<x, y>>}
           /\ \A s : OpenIn(s, y) <=> s \in {<<y>>, <<y, x>>, <<x, y>>}
<1>1. CASE x = "b"
  <2>1. y = "i" /\ Quotes!Other("i") = "b" /\ Quotes!Other("b") = "i"
    BY <1>1 DEF Quotes!Other
  <2> QED
    BY <1>1, <2>1 DEF MachineStates, OpenIn
<1>2. CASE x = "i"
  <2>1. y = "b" /\ Quotes!Other("i") = "b" /\ Quotes!Other("b") = "i"
    BY <1>2 DEF Quotes!Other
  <2> QED
    BY <1>2, <2>1 DEF MachineStates, OpenIn
<1> QED
  BY <1>1, <1>2 DEF Names

LEMMA SeqsDiffer ==
    ASSUME NEW x, NEW y, x # y, x # "both", y # "both"
    PROVE  /\ <<x>> # <<"both">> /\ <<y>> # <<"both">> /\ <<x, y>> # <<"both">> /\ <<y, x>> # <<"both">>
           /\ <<>> # <<"both">> /\ <<x>> # <<y>> /\ <<x>> # <<x, y>> /\ <<x>> # <<y, x>> /\ <<x>> # <<>>
           /\ <<y>> # <<x, y>> /\ <<y>> # <<y, x>> /\ <<y>> # <<>> /\ <<x, y>> # <<y, x>>
           /\ <<x, y>> # <<>> /\ <<y, x>> # <<>>
           /\ Quotes!Front(<<x>>) = <<>> /\ Quotes!Front(<<y, x>>) = <<y>>
           /\ Append(<<>>, x) = <<x>> /\ Append(<<y>>, x) = <<y, x>>
<1>1. /\ <<x>> # <<"both">> /\ <<y>> # <<"both">> /\ <<x, y>> # <<"both">> /\ <<y, x>> # <<"both">>
      /\ <<>> # <<"both">> /\ <<x>> # <<y>> /\ <<x>> # <<x, y>> /\ <<x>> # <<y, x>> /\ <<x>> # <<>>
      /\ <<y>> # <<x, y>> /\ <<y>> # <<y, x>> /\ <<y>> # <<>> /\ <<x, y>> # <<y, x>>
      /\ <<x, y>> # <<>> /\ <<y, x>> # <<>>
  OBVIOUS
<1>2. Append(<<>>, x) = <<x>>
  OBVIOUS
<1> DEFINE S == {x, y}
<1>0. <<y>> \in Seq(S) /\ <<y, x>> \in Seq(S) /\ x \in S
  OBVIOUS
<1>3. Append(<<y>>, x) = <<y, x>>
  <2>1. Append(<<y>>, x) \in Seq(S) /\ Len(Append(<<y>>, x)) = 2
    BY <1>0
  <2>2. Append(<<y>>, x)[1] = y /\ Append(<<y>>, x)[2] = x
    OBVIOUS
  <2>3. \A j \in 1..2 : Append(<<y>>, x)[j] = <<y, x>>[j]
    BY <2>2
  <2>4. Len(<<y, x>>) = 2
    OBVIOUS
  <2> QED
    BY ONLY <1>0, <2>1, <2>3, <2>4, SeqEqual
<1>4. Quotes!Front(<<x>>) = <<>>
  <2>1. Len(<<x>>) - 1 = 0 /\ SubSeq(<<x>>, 1, 0) = <<>>
    OBVIOUS
  <2> QED
    BY <2>1, Zenon DEF Quotes!Front
<1>5. Quotes!Front(<<y, x>>) = <<y>>
  <2>1. Len(<<y, x>>) - 1 = 1
    OBVIOUS
  <2>2. SubSeq(<<y, x>>, 1, 1) = <<y>>
    <3>1. SubSeq(<<y, x>>, 1, 1) \in Seq(S) /\ Len(SubSeq(<<y, x>>, 1, 1)) = 1
          /\ SubSeq(<<y, x>>, 1, 1)[1] = y
      BY <1>0, SubSeqProperties
    <3>2. Len(<<y>>) = 1 /\ <<y>>[1] = y /\ \A j \in 1..1 : j = 1
      OBVIOUS
    <3> HIDE DEF S
    <3> QED
      BY ONLY <1>0, <3>1, <3>2, SeqEqual
  <2> QED
    BY <2>1, <2>2, Zenon DEF Quotes!Front
<1> QED
  BY <1>1, <1>2, <1>3, <1>4, <1>5

\* What a step of the machine gives: the state s, and the rest of the chunks as it was.
Gives(r, c, s) == Bare(r) /\ ~r.missing /\ r.state = s

LEMMA OneKeeps ==
    ASSUME NEW cs, DOMAIN cs \subseteq Nat, NEW k \in Nat, NEW c, ConvOK(c, cs, k), NEW x \in Names
    PROVE  ConvOK(Quotes!One(c, 2 * (k + 1), x), cs, k + 1)
<1> DEFINE y == Quotes!Other(x)
           i == 2 * (k + 1)
<1>0. /\ Sound(c) /\ Bare(c) /\ ~c.missing /\ RestOf(c.chunks, cs, k) /\ i \in Nat /\ k + 1 \in Nat /\ k <= k + 1
      /\ i <= 2 * (k + 1) /\ FALSE \in BOOLEAN /\ TRUE \in BOOLEAN /\ y \in Names /\ ~FALSE
  BY TagNames DEF ConvOK, Sound
<1>s. /\ MachineStates = {<<>>, <<x>>, <<y>>, <<x, y>>, <<y, x>>, <<"both">>}
      /\ x # y /\ x # "both" /\ y # "both"
      /\ \A s : OpenIn(s, x) <=> s \in {<<x>>, <<y, x>>, <<x, y>>}
      /\ \A s : OpenIn(s, y) <=> s \in {<<y>>, <<y, x>>, <<x, y>>}
  BY StatesOf
<1>d. /\ <<x>> # <<"both">> /\ <<y>> # <<"both">> /\ <<x, y>> # <<"both">> /\ <<y, x>> # <<"both">>
      /\ <<>> # <<"both">> /\ <<x>> # <<y>> /\ <<x>> # <<x, y>> /\ <<x>> # <<y, x>> /\ <<x>> # <<>>
      /\ <<y>> # <<x, y>> /\ <<y>> # <<y, x>> /\ <<y>> # <<>> /\ <<x, y>> # <<y, x>>
      /\ <<x, y>> # <<>> /\ <<y, x>> # <<>>
      /\ Quotes!Front(<<x>>) = <<>> /\ Quotes!Front(<<y, x>>) = <<y>>
      /\ Append(<<>>, x) = <<x>> /\ Append(<<y>>, x) = <<y, x>>
  BY <1>s, SeqsDiffer
<1>n. \A n \in Names : n = x \/ n = y
  BY TagNames
<1>t. /\ Quotes!TagTk(x).name = x /\ Quotes!TagTk(x).type = "TagTk"
      /\ Quotes!TagTk(y).name = y /\ Quotes!TagTk(y).type = "TagTk"
      /\ Quotes!EndTagTk(x).name = x /\ Quotes!EndTagTk(x).type # "TagTk"
  BY <1>0, TagNames
<1>o. Quotes!One(c, i, x) =
         CASE c.state = <<"both">> ->
               [Quotes!quoteToTag(Quotes!quoteToTag(c, c.lastboth, <<Quotes!TagTk(y), Quotes!TagTk(x)>>, FALSE),
                           i, <<Quotes!EndTagTk(x)>>, FALSE) EXCEPT !.state = <<y>>]
          [] c.state = <<x, y>> ->
               [Quotes!quoteToTag(c, i, <<Quotes!EndTagTk(y), Quotes!EndTagTk(x), Quotes!TagTk(y)>>, TRUE)
                   EXCEPT !.state = <<y>>]
          [] c.state \in {<<x>>, <<y, x>>} ->
               [Quotes!quoteToTag(c, i, <<Quotes!EndTagTk(x)>>, FALSE) EXCEPT !.state = Quotes!Front(@)]
          [] OTHER ->
               [Quotes!quoteToTag(c, i, <<Quotes!TagTk(x)>>, FALSE) EXCEPT !.state = Append(@, x)]
  BY Zenon DEF Quotes!One
<1>1. CASE c.state = <<"both">>
  <2> DEFINE p == Quotes!quoteToTag(c, c.lastboth, <<Quotes!TagTk(y), Quotes!TagTk(x)>>, FALSE)
             q == Quotes!quoteToTag(p, i, <<Quotes!EndTagTk(x)>>, FALSE)
             r == [q EXCEPT !.state = <<y>>]
  <2>1. Quotes!One(c, i, x) = r
    BY <1>o, <1>1, <1>d
  <2>2. c.lastboth \in Nat /\ c.lastboth <= 2 * k
    BY <1>1 DEF ConvOK
  <2>3. GivesTwo(p, c, c.lastboth, Quotes!TagTk(y), Quotes!TagTk(x), x)
    BY <1>0, <1>t, TwoTags, Zenon
  <2> HIDE DEF p
  <2>4. Bare(p) /\ ~p.missing /\ p.last[y]
    BY <1>t, <2>3, Zenon DEF GivesTwo, Same
  <2>10. RestOf(p.chunks, cs, k)
    <3>1. RestOf([c.chunks EXCEPT ![c.lastboth] = <<Quotes!TagTk(y), Quotes!TagTk(x)>>], cs, k)
      BY <1>0, <2>2, RestBoth
    <3>2. p.chunks = [c.chunks EXCEPT ![c.lastboth] = <<Quotes!TagTk(y), Quotes!TagTk(x)>>]
      BY <1>0, <2>2, <2>3, Zenon DEF GivesTwo
    <3> QED
      BY <3>1, <3>2, Zenon
  <2>11. GivesOne(q, p, i, Quotes!EndTagTk(x), x)
    BY <1>0, <1>t, <2>4, OneTag, Zenon
  <2> HIDE DEF q
  <2>5. Bare(q) /\ ~q.missing /\ q.last[y]
    BY <1>t, <2>4, <2>11, Zenon DEF GivesOne, Same
  <2>6. RestOf(q.chunks, cs, k + 1)
    <3>1. RestOf([p.chunks EXCEPT ![i] = <<Quotes!EndTagTk(x)>>], cs, k + 1)
      BY <1>0, <2>10, RestNext
    <3>2. q.chunks = [p.chunks EXCEPT ![i] = <<Quotes!EndTagTk(x)>>]
      BY <1>0, <2>10, <2>11, Zenon DEF GivesOne
    <3> QED
      BY <3>1, <3>2, Zenon
  <2> HIDE DEF q
  <2>7. /\ Bare(r) /\ r.state = <<y>> /\ r.missing = q.missing /\ r.last = q.last /\ r.chunks = q.chunks
    BY <2>5, StateSet
  <2> HIDE DEF r
  <2>8. Sound(r)
    BY <2>5, <2>7, <1>s, <1>n, <1>d, Zenon DEF Sound
  <2> QED
    BY <2>1, <2>6, <2>7, <2>8, <1>d, Zenon DEF ConvOK
<1>2. CASE c.state = <<x, y>>
  <2> DEFINE tags == <<Quotes!EndTagTk(y), Quotes!EndTagTk(x), Quotes!TagTk(y)>>
             q == Quotes!quoteToTag(c, i, tags, TRUE)
             r == [q EXCEPT !.state = <<y>>]
  <2>1. Quotes!One(c, i, x) = r
    BY <1>o, <1>2, <1>d
  <2>2. c.last[y]
    BY <1>0, <1>2, <1>s, Zenon DEF Sound
  <2>4. GivesThree(q, c, i, tags, y)
    BY <1>0, <1>s, <2>2, ThreeTags, Zenon
  <2> HIDE DEF q, tags
  <2>5. Bare(q) /\ ~q.missing /\ q.last[y]
    BY <2>4, Zenon DEF GivesThree, Same
  <2>6. RestOf(q.chunks, cs, k + 1)
    <3>1. RestOf([c.chunks EXCEPT ![i] = tags], cs, k + 1)
      BY <1>0, RestNext
    <3>2. q.chunks = [c.chunks EXCEPT ![i] = tags]
      BY <1>0, <2>4, Zenon DEF GivesThree
    <3> QED
      BY <3>1, <3>2, Zenon
  <2> HIDE DEF q
  <2>7. /\ Bare(r) /\ r.state = <<y>> /\ r.missing = q.missing /\ r.last = q.last /\ r.chunks = q.chunks
    BY <2>5, StateSet
  <2> HIDE DEF r
  <2>8. Sound(r)
    BY <2>5, <2>7, <1>s, <1>n, <1>d, Zenon DEF Sound
  <2> QED
    BY <2>1, <2>6, <2>7, <2>8, <1>d, Zenon DEF ConvOK
<1>3. CASE c.state \in {<<x>>, <<y, x>>}
  <2> DEFINE q == Quotes!quoteToTag(c, i, <<Quotes!EndTagTk(x)>>, FALSE)
             r == [q EXCEPT !.state = Quotes!Front(c.state)]
  <2>4. GivesOne(q, c, i, Quotes!EndTagTk(x), x)
    BY <1>0, <1>t, OneTag, Zenon
  <2> HIDE DEF q
  <2>5. /\ Bare(q) /\ ~q.missing /\ q.last[y] = c.last[y] /\ q.state = c.state
    BY <2>4, Zenon DEF GivesOne, Same
  <2>1. Quotes!One(c, i, x) = r
    <3>1. Quotes!One(c, i, x) = [q EXCEPT !.state = Quotes!Front(q.state)]
      BY <1>o, <1>3, <1>d, <2>5 DEF Bare, ConvFields, q
    <3> QED
      BY <3>1, <2>5, Zenon
  <2>6. RestOf(q.chunks, cs, k + 1)
    <3>1. RestOf([c.chunks EXCEPT ![i] = <<Quotes!EndTagTk(x)>>], cs, k + 1)
      BY <1>0, RestNext
    <3>2. q.chunks = [c.chunks EXCEPT ![i] = <<Quotes!EndTagTk(x)>>]
      BY <1>0, <2>4, Zenon DEF GivesOne
    <3> QED
      BY <3>1, <3>2, Zenon
  <2>7. /\ Bare(r) /\ r.state = Quotes!Front(c.state) /\ r.missing = q.missing /\ r.last = q.last /\ r.chunks = q.chunks
    BY <2>5, StateSet
  <2>9. r.state = <<>> \/ (r.state = <<y>> /\ c.last[y])
    BY <1>0, <1>3, <1>s, <1>d, <2>7, Zenon DEF Sound
  <2> HIDE DEF r
  <2>8. Sound(r)
    BY <2>5, <2>7, <2>9, <1>s, <1>n, <1>d, Zenon DEF Sound
  <2> QED
    BY <2>1, <2>6, <2>7, <2>8, <2>9, <1>d, Zenon DEF ConvOK
<1>4. CASE c.state \in {<<>>, <<y>>}
  <2> DEFINE q == Quotes!quoteToTag(c, i, <<Quotes!TagTk(x)>>, FALSE)
             r == [q EXCEPT !.state = Append(c.state, x)]
  <2>4. GivesOne(q, c, i, Quotes!TagTk(x), x)
    BY <1>0, <1>t, OneTag, Zenon
  <2> HIDE DEF q
  <2>5. /\ Bare(q) /\ ~q.missing /\ q.last[y] = c.last[y] /\ q.state = c.state
        /\ q.last[x] = (Quotes!TagTk(x).type = "TagTk")
    BY <2>4, Zenon DEF GivesOne, Same
  <2>1. Quotes!One(c, i, x) = r
    <3>1. Quotes!One(c, i, x) = [q EXCEPT !.state = Append(q.state, x)]
      BY <1>o, <1>4, <1>d, <2>5 DEF Bare, ConvFields, q
    <3> QED
      BY <3>1, <2>5, Zenon
  <2>6. RestOf(q.chunks, cs, k + 1)
    <3>1. RestOf([c.chunks EXCEPT ![i] = <<Quotes!TagTk(x)>>], cs, k + 1)
      BY <1>0, RestNext
    <3>2. q.chunks = [c.chunks EXCEPT ![i] = <<Quotes!TagTk(x)>>]
      BY <1>0, <2>4, Zenon DEF GivesOne
    <3> QED
      BY <3>1, <3>2, Zenon
  <2>7. /\ Bare(r) /\ r.state = Append(c.state, x) /\ r.missing = q.missing /\ r.last = q.last /\ r.chunks = q.chunks
    BY <2>5, StateSet
  <2>9. r.state = <<x>> \/ (r.state = <<y, x>> /\ c.last[y])
    BY <1>0, <1>4, <1>s, <1>d, <2>7, Zenon DEF Sound
  <2>10. q.last[x]
    BY <2>5, <1>t, Zenon
  <2> HIDE DEF r
  <2>8. Sound(r)
    BY <2>5, <2>7, <2>9, <2>10, <1>s, <1>n, <1>d, Zenon DEF Sound
  <2> QED
    BY <2>1, <2>6, <2>7, <2>8, <2>9, <1>d, Zenon DEF ConvOK
<1> QED
  BY <1>0, <1>1, <1>2, <1>3, <1>4, <1>s, Zenon DEF Sound

LEMMA FiveKeeps ==
    ASSUME NEW cs, DOMAIN cs \subseteq Nat, NEW k \in Nat, NEW c, ConvOK(c, cs, k)
    PROVE  ConvOK(Quotes!Five(c, 2 * (k + 1)), cs, k + 1)
<1> DEFINE i == 2 * (k + 1)
<1>0. /\ Sound(c) /\ Bare(c) /\ ~c.missing /\ RestOf(c.chunks, cs, k) /\ i \in Nat /\ k + 1 \in Nat
      /\ "b" \in Names /\ "i" \in Names
  BY DEF ConvOK, Sound, Names
<1>y. Quotes!Other("i") = "b" /\ Quotes!Other("b") = "i" /\ "b" # "i"
  BY DEF Quotes!Other
<1>s. /\ MachineStates = {<<>>, <<"b">>, <<"i">>, <<"b", "i">>, <<"i", "b">>, <<"both">>}
      /\ "i" # "both" /\ "b" # "both"
      /\ \A s : OpenIn(s, "b") <=> s \in {<<"b">>, <<"i", "b">>, <<"b", "i">>}
      /\ \A s : OpenIn(s, "i") <=> s \in {<<"i">>, <<"i", "b">>, <<"b", "i">>}
  BY <1>0, <1>y, StatesOf
<1>d. /\ <<"b">> # <<"both">> /\ <<"i">> # <<"both">> /\ <<"b", "i">> # <<"both">> /\ <<"i", "b">> # <<"both">>
      /\ <<>> # <<"both">> /\ <<"b">> # <<"i">> /\ <<"b">> # <<"b", "i">> /\ <<"b">> # <<"i", "b">> /\ <<"b">> # <<>>
      /\ <<"i">> # <<"b", "i">> /\ <<"i">> # <<"i", "b">> /\ <<"i">> # <<>> /\ <<"b", "i">> # <<"i", "b">>
      /\ <<"b", "i">> # <<>> /\ <<"i", "b">> # <<>>
  BY <1>s, <1>y, SeqsDiffer
<1>n. \A n \in Names : n = "b" \/ n = "i"
  BY DEF Names
<1>t. \A n \in Names : /\ Quotes!TagTk(n).name = n /\ Quotes!TagTk(n).type = "TagTk"
                        /\ Quotes!EndTagTk(n).name = n
  BY TagNames
<1>o. Quotes!Five(c, i) =
        CASE c.state = <<>> -> [c EXCEPT !.state = <<"both">>, !.lastboth = i]
          [] c.state = <<"both">> ->
               [Quotes!quoteToTag(Quotes!quoteToTag(c, c.lastboth, <<Quotes!TagTk("i"), Quotes!TagTk("b")>>, FALSE),
                           i, <<Quotes!EndTagTk("b"), Quotes!EndTagTk("i")>>, FALSE) EXCEPT !.state = <<>>]
          [] c.state \in {<<"b">>, <<"i">>} ->
               [Quotes!quoteToTag(c, i, <<Quotes!EndTagTk(c.state[1]), Quotes!TagTk(Quotes!Other(c.state[1]))>>, FALSE)
                   EXCEPT !.state = <<Quotes!Other(c.state[1])>>]
          [] OTHER ->
               [Quotes!quoteToTag(c, i, <<Quotes!EndTagTk(c.state[2]), Quotes!EndTagTk(c.state[1])>>, FALSE)
                   EXCEPT !.state = <<>>]
  BY Zenon DEF Quotes!Five
<1>1. CASE c.state = <<>>
  <2> DEFINE r == [c EXCEPT !.state = <<"both">>, !.lastboth = i]
  <2>1. Quotes!Five(c, i) = r
    BY <1>o, <1>1, <1>d
  <2>2. /\ Bare(r) /\ r.state = <<"both">> /\ r.missing = c.missing /\ r.last = c.last
        /\ r.chunks = c.chunks /\ r.lastboth = i
    BY <1>0 DEF Bare, ConvFields
  <2>3. RestOf(c.chunks, cs, k + 1)
    BY <1>0 DEF RestOf
  <2>4. i <= 2 * (k + 1)
    OBVIOUS
  <2> HIDE DEF r
  <2>5. Sound(r)
    BY <1>0, <2>2, <1>s, <1>n, <1>d, Zenon DEF Sound
  <2> QED
    BY <1>0, <2>1, <2>2, <2>3, <2>4, <2>5, Zenon DEF ConvOK
<1>2. CASE c.state = <<"both">>
  <2> DEFINE p == Quotes!quoteToTag(c, c.lastboth, <<Quotes!TagTk("i"), Quotes!TagTk("b")>>, FALSE)
             q == Quotes!quoteToTag(p, i, <<Quotes!EndTagTk("b"), Quotes!EndTagTk("i")>>, FALSE)
             r == [q EXCEPT !.state = <<>>]
  <2>1. Quotes!Five(c, i) = r
    BY <1>o, <1>2, <1>d
  <2>2. c.lastboth \in Nat /\ c.lastboth <= 2 * k
    BY <1>2 DEF ConvOK
  <2>3. GivesTwo(p, c, c.lastboth, Quotes!TagTk("i"), Quotes!TagTk("b"), "b")
    BY <1>0, <1>t, <1>y, TwoTags, Zenon
  <2> HIDE DEF p
  <2>4. Bare(p) /\ ~p.missing
    BY <2>3, Zenon DEF GivesTwo, Same
  <2>5. RestOf(p.chunks, cs, k)
    <3>1. RestOf([c.chunks EXCEPT ![c.lastboth] = <<Quotes!TagTk("i"), Quotes!TagTk("b")>>], cs, k)
      BY <1>0, <2>2, RestBoth
    <3>2. p.chunks = [c.chunks EXCEPT ![c.lastboth] = <<Quotes!TagTk("i"), Quotes!TagTk("b")>>]
      BY <2>3, Zenon DEF GivesTwo
    <3> QED
      BY <3>1, <3>2, Zenon
  <2>6. GivesTwo(q, p, i, Quotes!EndTagTk("b"), Quotes!EndTagTk("i"), "i")
    BY <1>0, <1>t, <1>y, <2>4, TwoTags, Zenon
  <2> HIDE DEF q
  <2>7. Bare(q) /\ ~q.missing
    BY <2>6, Zenon DEF GivesTwo, Same
  <2>8. RestOf(q.chunks, cs, k + 1)
    <3>1. RestOf([p.chunks EXCEPT ![i] = <<Quotes!EndTagTk("b"), Quotes!EndTagTk("i")>>], cs, k + 1)
      BY <1>0, <2>5, RestNext
    <3>2. q.chunks = [p.chunks EXCEPT ![i] = <<Quotes!EndTagTk("b"), Quotes!EndTagTk("i")>>]
      BY <2>6, Zenon DEF GivesTwo
    <3> QED
      BY <3>1, <3>2, Zenon
  <2>9. /\ Bare(r) /\ r.state = <<>> /\ r.missing = q.missing /\ r.last = q.last /\ r.chunks = q.chunks
    BY <2>7, StateSet
  <2> HIDE DEF r
  <2>10. Sound(r)
    BY <2>7, <2>9, <1>s, <1>n, <1>d, Zenon DEF Sound
  <2> QED
    BY <2>1, <2>8, <2>9, <2>10, <1>d, Zenon DEF ConvOK
<1>3. ASSUME NEW x \in Names, c.state = <<x>>
      PROVE  ConvOK(Quotes!Five(c, i), cs, k + 1)
  <2> DEFINE y == Quotes!Other(x)
             tags == <<Quotes!EndTagTk(x), Quotes!TagTk(y)>>
             q == Quotes!quoteToTag(c, i, tags, FALSE)
             r == [q EXCEPT !.state = <<y>>]
  <2>0. c.state[1] = x /\ c.state \in {<<"b">>, <<"i">>} /\ c.state # <<>> /\ c.state # <<"both">>
    BY <1>3, <1>n, <1>d
  <2>1. Quotes!Five(c, i) = r
    BY <1>o, <2>0
  <2>2. y \in Names /\ Quotes!Other(y) = x /\ x # y
    BY TagNames
  <2>3. GivesTwo(q, c, i, Quotes!EndTagTk(x), Quotes!TagTk(y), y)
    BY <1>0, <1>t, <2>2, TwoTags, Zenon
  <2> HIDE DEF q
  <2>4. Bare(q) /\ ~q.missing /\ q.last[y]
    BY <1>t, <2>2, <2>3, Zenon DEF GivesTwo, Same
  <2>5. RestOf(q.chunks, cs, k + 1)
    <3>1. RestOf([c.chunks EXCEPT ![i] = tags], cs, k + 1)
      BY <1>0, RestNext
    <3>2. q.chunks = [c.chunks EXCEPT ![i] = tags]
      BY <2>3, Zenon DEF GivesTwo
    <3> QED
      BY <3>1, <3>2, Zenon
  <2>6. /\ Bare(r) /\ r.state = <<y>> /\ r.missing = q.missing /\ r.last = q.last /\ r.chunks = q.chunks
    BY <2>4, StateSet
  <2> HIDE DEF r
  <2>7. \A n \in Names : OpenIn(<<y>>, n) => n = y
    <3>1. CASE y = "b"
      BY <3>1, <1>s, <1>n, <1>d, Zenon
    <3>2. CASE y = "i"
      BY <3>2, <1>s, <1>n, <1>d, Zenon
    <3> QED
      BY <2>2, <3>1, <3>2, <1>n, Zenon
  <2>8. <<y>> \in MachineStates /\ <<y>> # <<"both">>
    BY <2>2, <1>n, <1>s, <1>d, Zenon
  <2> HIDE DEF y
  <2>9. Sound(r)
    BY <2>4, <2>6, <2>7, <2>8, Zenon DEF Sound
  <2> QED
    BY <2>1, <2>5, <2>6, <2>8, <2>9, Zenon DEF ConvOK
<1>4. ASSUME NEW x \in Names, NEW y \in Names, y = Quotes!Other(x), c.state = <<x, y>>
      PROVE  ConvOK(Quotes!Five(c, i), cs, k + 1)
  <2> DEFINE tags == <<Quotes!EndTagTk(y), Quotes!EndTagTk(x)>>
             q == Quotes!quoteToTag(c, i, tags, FALSE)
             r == [q EXCEPT !.state = <<>>]
  <2>0. /\ c.state[1] = x /\ c.state[2] = y /\ c.state \notin {<<"b">>, <<"i">>} /\ c.state # <<>>
        /\ c.state # <<"both">>
    BY <1>4
  <2>1. Quotes!Five(c, i) = r
    BY <1>o, <2>0
  <2>3. GivesTwo(q, c, i, Quotes!EndTagTk(y), Quotes!EndTagTk(x), x)
    BY <1>0, <1>t, <1>4, TwoTags, Zenon
  <2> HIDE DEF q
  <2>4. Bare(q) /\ ~q.missing
    BY <2>3, Zenon DEF GivesTwo, Same
  <2>5. RestOf(q.chunks, cs, k + 1)
    <3>1. RestOf([c.chunks EXCEPT ![i] = tags], cs, k + 1)
      BY <1>0, RestNext
    <3>2. q.chunks = [c.chunks EXCEPT ![i] = tags]
      BY <2>3, Zenon DEF GivesTwo
    <3> QED
      BY <3>1, <3>2, Zenon
  <2>6. /\ Bare(r) /\ r.state = <<>> /\ r.missing = q.missing /\ r.last = q.last /\ r.chunks = q.chunks
    BY <2>4, StateSet
  <2> HIDE DEF r
  <2>7. Sound(r)
    BY <2>4, <2>6, <1>s, <1>n, <1>d, Zenon DEF Sound
  <2> QED
    BY <2>1, <2>5, <2>6, <2>7, <1>d, Zenon DEF ConvOK
<1>5. c.state \in {<<>>, <<"b">>, <<"i">>, <<"b", "i">>, <<"i", "b">>, <<"both">>}
  BY <1>0, <1>s, Zenon DEF Sound
<1> QED
  BY <1>0, <1>1, <1>2, <1>3, <1>4, <1>5, <1>y, Zenon

LEMMA ConvertKeeps ==
    ASSUME NEW cs, DOMAIN cs \subseteq Nat, NEW k \in Nat, 2 * (k + 1) \in DOMAIN cs,
           Quotes!QuoteAt(cs, 2 * (k + 1)) \in {2, 3, 5}, NEW c, ConvOK(c, cs, k)
    PROVE  ConvOK(Quotes!Convert(c, 2 * (k + 1)), cs, k + 1)
<1> DEFINE i == 2 * (k + 1)
<1>1. Quotes!QuoteAt(c.chunks, i) = Quotes!QuoteAt(cs, i)
  <2>1. c.chunks[i] = cs[i]
    BY DEF ConvOK, RestOf
  <2> QED
    BY <2>1, Zenon DEF Quotes!QuoteAt
<1>2. "b" \in Names /\ "i" \in Names
  BY DEF Names
<1>3. CASE Quotes!QuoteAt(cs, i) = 2
  BY <1>1, <1>2, <1>3, OneKeeps DEF Quotes!Convert
<1>4. CASE Quotes!QuoteAt(cs, i) = 3
  BY <1>1, <1>2, <1>4, OneKeeps DEF Quotes!Convert
<1>5. CASE Quotes!QuoteAt(cs, i) = 5
  BY <1>1, <1>2, <1>5, FiveKeeps DEF Quotes!Convert
<1> QED
  BY <1>3, <1>4, <1>5

QuoteTokens ==
    [type : {"mw-quote", "String", "TagTk", "NlTk"},
     name : {"none", "apostrophe", "space", "single", "multi", "td"}, qlen : Nat]

\* The chunks of a line: a quote at every even place.
QuoteLine(cs) ==
    /\ cs \in Seq(Seq(QuoteTokens)) /\ Len(cs) % 2 = 0
    /\ \A i \in 1..Len(cs) : i % 2 = 0 => \E qlen \in {2, 3, 5} : cs[i] = <<Quotes!Quote(qlen)>>

Machine == INSTANCE SequenceFolds WITH op <- Quotes!Convert

LEMMA LineShape ==
    ASSUME NEW cs, QuoteLine(cs)
    PROVE  cs \in Seq(Seq(QuoteTokens)) /\ Len(cs) \in Nat /\ Len(cs) % 2 = 0
  BY DEF QuoteLine

LEMMA QuotesAreFolded ==
    ASSUME NEW base, NEW s
    PROVE  Machine!FoldLeft(Quotes!Convert, base, s) = Quotes!FoldLeft(Quotes!Convert, base, s)
  BY Zenon DEF Machine!FoldLeft, Machine!MapThenFoldSet, Machine!Max, Quotes!FoldLeft,
               Quotes!MapThenFoldSet, Quotes!Max

LEMMA QuoteLength ==
    ASSUME NEW cs, QuoteLine(cs), NEW i \in 1..Len(cs), i % 2 = 0
    PROVE  Quotes!QuoteAt(cs, i) \in {2, 3, 5} /\ Len(cs[i]) = 1
<1>1. PICK qlen \in {2, 3, 5} : cs[i] = <<Quotes!Quote(qlen)>>
  BY DEF QuoteLine
<1>2. Quotes!Quote(qlen).qlen = qlen
  BY DEF Quotes!Quote
<1> QED
  BY <1>1, <1>2 DEF Quotes!QuoteAt

LEMMA ConversionSound ==
    ASSUME NEW cs, QuoteLine(cs)
    PROVE  ~Quotes!convertQuotesToTags(cs).missing
<1> DEFINE m == Len(cs) \div 2
           evens == [k \in 1..m |-> 2 * k]
           base == Quotes!Conversion(cs)
           end == Machine!FoldLeft(Quotes!Convert, base, evens)
<1>0. /\ m \in Nat /\ Len(cs) \in Nat /\ 2 * m = Len(cs) /\ DOMAIN cs = 1..Len(cs)
      /\ DOMAIN cs \subseteq Nat
  BY DEF QuoteLine
<1>1. ConvOK(base, cs, 0)
  <2>1. Bare(base) /\ base.state = <<>> /\ base.chunks = cs /\ base.missing = FALSE
    BY DEF Quotes!Conversion, Bare, ConvFields, Names
  <2>2. <<>> \in MachineStates /\ <<>> # <<"both">> /\ \A n \in Names : ~OpenIn(<<>>, n)
    BY DEF MachineStates, OpenIn
  <2> HIDE DEF base
  <2> QED
    BY <2>1, <2>2, Zenon DEF ConvOK, Sound, RestOf
<1>2. Quotes!convertQuotesToTags(cs) = Quotes!CloseRemaining(end)
  <2>1. Quotes!convertQuotesToTags(cs) = Quotes!CloseRemaining(Quotes!FoldLeft(Quotes!Convert, base, evens))
    BY Zenon DEF Quotes!convertQuotesToTags
  <2> HIDE DEF base, evens
  <2> QED
    BY <2>1, QuotesAreFolded, Zenon
<1> HIDE DEF base, m
<1>3. evens \in Seq(Nat) /\ Len(evens) = m /\ \A k \in 1..m : evens[k] = 2 * k
  <2>1. evens \in [1..m -> Nat]
    BY <1>0
  <2>2. \A k \in 1..m : evens[k] = 2 * k
    OBVIOUS
  <2> HIDE DEF evens
  <2> QED
    BY <1>0, <2>1, <2>2
<1> HIDE DEF evens
<1>4. PICK f : Machine!Steps(f, base, evens)
  BY <1>3, Machine!FoldSteps
<1>5. /\ f[0] = base
      /\ \A k \in 1..m : f[k] = Quotes!Convert(f[k - 1], 2 * k)
      /\ f[m] = end
  BY <1>3, <1>4 DEF Machine!Steps
<1> HIDE DEF end
<1> DEFINE R == {k \in 0..m : ConvOK(f[k], cs, k)}
<1>6. 0 \in R
  BY <1>0, <1>1, <1>5
<1>7. ASSUME NEW k \in R, k < m PROVE k + 1 \in R
  <2>1. /\ k + 1 \in 1..m /\ k + 1 \in 0..m /\ (k + 1) - 1 = k /\ k \in Nat /\ ConvOK(f[k], cs, k)
    BY <1>0, <1>7
  <2>2. f[k + 1] = Quotes!Convert(f[k], 2 * (k + 1))
    BY <1>5, <2>1
  <2>3. 2 * (k + 1) \in 1..Len(cs) /\ (2 * (k + 1)) % 2 = 0
    BY <1>0, <2>1
  <2>4. Quotes!QuoteAt(cs, 2 * (k + 1)) \in {2, 3, 5}
    BY <2>3, QuoteLength
  <2>5. ConvOK(f[k + 1], cs, k + 1)
    BY <1>0, <2>1, <2>2, <2>3, <2>4, ConvertKeeps
  <2> QED
    BY <2>1, <2>5
<1>8. R = 0..m
  <2>1. R \in SUBSET (0..m)
    OBVIOUS
  <2> HIDE DEF R
  <2> QED
    BY <1>0, <1>6, <1>7, <2>1, Machine!UpToByStep
<1>9. Sound(end)
  <2>1. m \in R
    BY <1>0, <1>8
  <2> QED
    BY <1>5, <2>1 DEF ConvOK
<1>10. ~Quotes!CloseRemaining(end).missing
  <2> DEFINE q == Quotes!quoteToTag(end, end.lastboth, <<Quotes!TagTk("b"), Quotes!TagTk("i")>>, FALSE)
             e == [q EXCEPT !.state = <<"b", "i">>]
             d == IF end.state = <<"both">> THEN e ELSE end
             gone == d.missing \/ \E k \in 1..Len(d.state) : ~d.last[d.state[k]]
  <2>1. Quotes!CloseRemaining(end).missing = gone
    BY DEF Quotes!CloseRemaining
  <2>2. "b" \in Names /\ "i" \in Names /\ Quotes!Other("i") = "b" /\ Quotes!Other("b") = "i"
    BY DEF Names, Quotes!Other
  <2>3. \A n \in Names : /\ Quotes!TagTk(n).name = n /\ Quotes!TagTk(n).type = "TagTk"
    BY TagNames
  <2>4. Bare(end) /\ ~end.missing
    BY <1>9 DEF Sound
  <2>5. GivesTwo(q, end, end.lastboth, Quotes!TagTk("b"), Quotes!TagTk("i"), "i")
    BY <2>2, <2>3, <2>4, TwoTags, Zenon
  <2> HIDE DEF q
  <2>6. Bare(q) /\ ~q.missing /\ q.last["b"] /\ q.last["i"]
    BY <2>2, <2>3, <2>5, Zenon DEF GivesTwo, Same
  <2>7. e.state = <<"b", "i">> /\ e.missing = q.missing /\ e.last = q.last
    BY <2>6, StateSet
  <2> HIDE DEF e
  <2>8. ~d.missing
    BY <2>4, <2>6, <2>7, Zenon
  <2>9. ASSUME NEW k \in 1..Len(d.state) PROVE d.last[d.state[k]]
    <3>1. CASE end.state = <<"both">>
      <4>1. d.state = <<"b", "i">> /\ d.last = q.last
        BY <3>1, <2>7
      <4>2. d.state[k] = "b" \/ d.state[k] = "i"
        <5> HIDE DEF d
        <5> QED
          BY <4>1
      <4> HIDE DEF d
      <4> QED
        BY <4>1, <4>2, <2>6, Zenon
    <3>2. CASE end.state # <<"both">>
      <4>1. d = end /\ end.state \in MachineStates
        BY <3>2, <1>9 DEF Sound
      <4> HIDE DEF d
      <4>2. end.state[k] \in Names /\ OpenIn(end.state, end.state[k])
        BY <4>1, <3>2, <2>2 DEF MachineStates, OpenIn, Names
      <4> QED
        BY <4>1, <4>2, <1>9, Zenon DEF Sound
    <3> QED
      BY <3>1, <3>2
  <2> HIDE DEF d
  <2> QED
    BY <2>1, <2>8, <2>9, Zenon
<1> QED
  BY <1>2, <1>10, Zenon

LEMMA MinIn ==
    ASSUME NEW S \in SUBSET Nat, S # {}
    PROVE  Quotes!Min(S) \in S
<1>1. \E n \in S : \A k \in S : n <= k
  BY Machine!LeastNat
<1> QED
  BY <1>1, Zenon DEF Quotes!Min

LEMMA EvenSuccessor ==
    ASSUME NEW n \in Nat, n % 2 = 0
    PROVE  (n + 2) % 2 = 0 /\ \A j \in Nat : n < j /\ j <= n + 2 /\ j % 2 = 0 => j = n + 2
  OBVIOUS

LEMMA EvenPredecessor ==
    ASSUME NEW i \in Nat, i # 0, i % 2 = 0
    PROVE  i - 1 \in Nat /\ 1 <= i - 1 /\ (i - 1) % 2 = 1
  OBVIOUS

LEMMA TokensOf ==
    /\ Quotes!Apostrophe \in QuoteTokens
    /\ \A qlen \in Nat : Quotes!Quote(qlen) \in QuoteTokens
    /\ Quotes!EndOfLine \in QuoteTokens
    /\ \A how \in {"space", "single", "multi", "td"} : Quotes!Text(how) \in QuoteTokens
<1>1. Quotes!Apostrophe \in QuoteTokens
  BY DEF Quotes!Apostrophe, QuoteTokens
<1>2. \A qlen \in Nat : Quotes!Quote(qlen) \in QuoteTokens
  BY DEF Quotes!Quote, QuoteTokens
<1>3. Quotes!EndOfLine \in QuoteTokens
  BY DEF Quotes!EndOfLine, QuoteTokens
<1>4. \A how \in {"space", "single", "multi", "td"} : Quotes!Text(how) \in QuoteTokens
  BY DEF Quotes!Text, QuoteTokens
<1> QED
  BY <1>1, <1>2, <1>3, <1>4

LEMMA BoldConverted ==
    ASSUME NEW cs, QuoteLine(cs), NEW i \in 1..Len(cs), i % 2 = 0
    PROVE  QuoteLine(Quotes!convertBold(cs, i))
<1> DEFINE text == Append(cs[i - 1], Quotes!Apostrophe)
           quote == <<Quotes!Quote(2)>>
           ds == [cs EXCEPT ![i - 1] = text]
           es == [ds EXCEPT ![i] = quote]
<1>0. cs \in Seq(Seq(QuoteTokens)) /\ Len(cs) \in Nat /\ Len(cs) % 2 = 0
  BY LineShape, Zenon
<1>1. i \in Nat /\ i - 1 \in 1..Len(cs) /\ (i - 1) % 2 = 1 /\ i - 1 # i
  <2>1. i \in Nat /\ i # 0
    BY <1>0
  <2>2. i - 1 \in Nat /\ 1 <= i - 1 /\ (i - 1) % 2 = 1
    BY <2>1, EvenPredecessor
  <2> QED
    BY <1>0, <2>1, <2>2
<1>2. text \in Seq(QuoteTokens)
  BY <1>0, <1>1, TokensOf
<1>3. quote \in Seq(QuoteTokens)
  BY TokensOf
<1>4. Quotes!convertBold(cs, i) = es
  <2>1. i - 1 # i /\ i - 1 \in DOMAIN cs
    BY <1>0, <1>1
  <2>2. Quotes!convertBold(cs, i) = [cs EXCEPT ![i - 1] = text, ![i] = quote]
    BY <2>1 DEF Quotes!convertBold
  <2> QED
    BY <2>2, Zenon
<1> HIDE DEF text
<1>5. /\ ds \in Seq(Seq(QuoteTokens)) /\ Len(ds) = Len(cs)
      /\ \A j \in 1..Len(cs) : ds[j] = IF j = i - 1 THEN text ELSE cs[j]
  BY <1>0, <1>1, <1>2, ExceptSeq
<1> HIDE DEF ds, quote
<1>6. /\ es \in Seq(Seq(QuoteTokens)) /\ Len(es) = Len(cs)
      /\ \A j \in 1..Len(cs) : es[j] = IF j = i THEN quote ELSE ds[j]
  BY <1>3, <1>5, ExceptSeq
<1> HIDE DEF es
<1>7. ASSUME NEW j \in 1..Len(es), j % 2 = 0
      PROVE  \E qlen \in {2, 3, 5} : es[j] = <<Quotes!Quote(qlen)>>
  <2>1. CASE j = i
    BY <1>6, <2>1 DEF quote
  <2>2. CASE j # i
    <3>2. j \in 1..Len(cs)
      BY <1>5, <1>6
    <3>3. j # i - 1
      BY <1>1, <1>7
    <3>0. j \in 1..Len(cs) /\ j # i - 1
      BY <3>2, <3>3
    <3>1. es[j] = cs[j]
      BY <1>5, <1>6, <2>2, <3>0, Zenon
    <3> QED
      BY <3>0, <3>1, <1>7 DEF QuoteLine
  <2> QED
    BY <2>1, <2>2
<1>8. QuoteLine(es)
  BY <1>0, <1>6, <1>7 DEF QuoteLine
<1> QED
  BY <1>4, <1>8

LEMMA Balanced ==
    ASSUME NEW cs, QuoteLine(cs)
    PROVE  QuoteLine(Quotes!Balance(cs))
<1>0. \A how : Quotes!BoldAfter(cs, how) \in SUBSET Nat
  BY DEF Quotes!BoldAfter, Quotes!QuoteChunks
<1>1. ASSUME NEW how, Quotes!BoldAfter(cs, how) # {}
      PROVE  QuoteLine(Quotes!convertBold(cs, Quotes!Min(Quotes!BoldAfter(cs, how))))
  <2> DEFINE i == Quotes!Min(Quotes!BoldAfter(cs, how))
  <2>1. i \in Quotes!BoldAfter(cs, how)
    BY <1>0, <1>1, MinIn
  <2>2. i \in 1..Len(cs) /\ i % 2 = 0
    BY <2>1 DEF Quotes!BoldAfter, Quotes!QuoteChunks
  <2> HIDE DEF i
  <2> QED
    BY <2>2, BoldConverted DEF i
<1> QED
  BY <1>1 DEF Quotes!Balance

QuotesInv ==
    /\ isActive \in BOOLEAN /\ (isActive <=> transforms # {})
    /\ transforms \subseteq Quotes!LineEnds \cup {"any"}
    /\ QuoteLine(chunks)
    /\ currentChunk \in Seq(QuoteTokens) /\ line \in Seq(QuoteTokens)
    /\ ~result.missing

LEMMA QuoteAdded ==
    ASSUME NEW cs, QuoteLine(cs), NEW chunk \in Seq(QuoteTokens), NEW qlen \in {2, 3, 5}
    PROVE  QuoteLine(cs \o <<chunk, <<Quotes!Quote(qlen)>>>>)
<1> DEFINE pair == <<chunk, <<Quotes!Quote(qlen)>>>>
           ds == cs \o pair
<1>1. <<Quotes!Quote(qlen)>> \in Seq(QuoteTokens)
  BY TokensOf
<1>2. pair \in Seq(Seq(QuoteTokens)) /\ Len(pair) = 2 /\ pair[2] = <<Quotes!Quote(qlen)>>
  BY <1>1
<1>3. cs \in Seq(Seq(QuoteTokens)) /\ Len(cs) \in Nat /\ Len(cs) % 2 = 0
  BY LineShape, Zenon
<1>0. (Len(cs) + 2) % 2 = 0
  BY <1>3, EvenSuccessor
<1> HIDE DEF pair
<1>4. /\ ds \in Seq(Seq(QuoteTokens)) /\ Len(ds) = Len(cs) + 2
      /\ \A j \in 1..(Len(cs) + 2) : ds[j] = IF j <= Len(cs) THEN cs[j] ELSE pair[j - Len(cs)]
  <2> DEFINE T == Seq(QuoteTokens)
  <2>1. cs \in Seq(T) /\ pair \in Seq(T) /\ Len(pair) = 2 /\ Len(cs) \in Nat
    BY <1>2, <1>3
  <2> HIDE DEF T
  <2>2. /\ cs \o pair \in Seq(T) /\ Len(cs \o pair) = Len(cs) + Len(pair)
        /\ \A j \in 1..(Len(cs) + Len(pair)) :
              (cs \o pair)[j] = IF j <= Len(cs) THEN cs[j] ELSE pair[j - Len(cs)]
    BY <2>1, ConcatProperties, Zenon
  <2> QED
    BY <2>1, <2>2, Zenon DEF T, ds
<1> HIDE DEF ds
<1>5. ASSUME NEW j \in 1..Len(ds), j % 2 = 0
      PROVE  \E q \in {2, 3, 5} : ds[j] = <<Quotes!Quote(q)>>
  <2>1. CASE j <= Len(cs)
    <3>1. ds[j] = cs[j] /\ j \in 1..Len(cs)
      BY <1>3, <1>4, <2>1
    <3> QED
      BY <3>1, <1>5 DEF QuoteLine
  <2>2. CASE ~(j <= Len(cs))
    <3>4. j \in Nat /\ j <= Len(cs) + 2
      BY <1>3, <1>4
    <3> DEFINE n == Len(cs)
    <3>5. j \in Nat /\ n \in Nat /\ ~(j <= n)
      BY <1>3, <3>4, <2>2
    <3> HIDE DEF n
    <3>6. n < j
      BY ONLY <3>5
    <3>1. j \in Nat /\ n \in Nat /\ n < j /\ j <= n + 2 /\ n % 2 = 0 /\ j % 2 = 0
      BY <1>3, <3>4, <3>5, <3>6, <1>5, Zenon DEF n
    <3>3. j = n + 2
      BY ONLY <3>1, EvenSuccessor
    <3>8. j \in 1..(n + 2) /\ j - n = 2
      BY ONLY <3>1, <3>3
    <3>9. ds[j] = IF j <= n THEN cs[j] ELSE pair[j - n]
      BY <1>4, <3>8, Zenon DEF n
    <3>2. ds[j] = pair[2]
      BY <3>5, <3>8, <3>9, Zenon
    <3> QED
      BY <3>2, <1>2
  <2> QED
    BY <2>1, <2>2
<1>6. QuoteLine(ds)
  BY <1>0, <1>3, <1>4, <1>5 DEF QuoteLine
<1> QED
  BY <1>6 DEF ds, pair

LEMMA QuotesBegin ==
    ASSUME Quotes!Init
    PROVE  QuotesInv
<1>1. <<>> \in Seq(Seq(QuoteTokens)) /\ Len(<<>>) = 0 /\ 0 % 2 = 0 /\ <<>> \in Seq(QuoteTokens)
  OBVIOUS
<1>2. QuoteLine(<<>>)
  BY <1>1 DEF QuoteLine
<1>3. ~Quotes!NoResult.missing
  BY DEF Quotes!NoResult
<1> QED
  BY <1>1, <1>2, <1>3 DEF Quotes!Init, QuotesInv

LEMMA QuotesNext ==
    ASSUME QuotesInv, Quotes!Next
    PROVE  QuotesInv'
<1>1. CASE Quotes!onQuote
  <2>1. PICK qlen \in {2, 3, 5} :
          /\ line' = Append(line, Quotes!Quote(qlen))
          /\ chunks' = chunks \o <<IF isActive THEN currentChunk
                                    ELSE IF line = <<>> THEN <<Quotes!EndOfLine>> ELSE <<Quotes!Last(line)>>,
                                   <<Quotes!Quote(qlen)>>>>
    BY <1>1, Zenon DEF Quotes!onQuote
  <2> DEFINE chunk == IF isActive THEN currentChunk
                      ELSE IF line = <<>> THEN <<Quotes!EndOfLine>> ELSE <<Quotes!Last(line)>>
  <2>2. chunk \in Seq(QuoteTokens)
    <3>1. CASE isActive
      BY <3>1 DEF QuotesInv
    <3>2. CASE ~isActive /\ line = <<>>
      <4>1. <<Quotes!EndOfLine>> \in Seq(QuoteTokens)
        BY TokensOf
      <4> QED
        BY <3>2, <4>1, Zenon
    <3>3. CASE ~isActive /\ line # <<>>
      <4>1. line \in Seq(QuoteTokens)
        BY DEF QuotesInv
      <4>2. line[Len(line)] \in QuoteTokens
        BY <3>3, <4>1
      <4>3. <<Quotes!Last(line)>> \in Seq(QuoteTokens)
        BY <4>2 DEF Quotes!Last
      <4> QED
        BY <3>3, <4>3, Zenon
    <3> QED
      BY <3>1, <3>2, <3>3
  <2>3. chunks' = chunks \o <<chunk, <<Quotes!Quote(qlen)>>>>
    BY <2>1, Zenon
  <2> HIDE DEF chunk
  <2>4. QuoteLine(chunks')
    BY <2>2, <2>3, QuoteAdded DEF QuotesInv
  <2>5. line' \in Seq(QuoteTokens)
    BY <2>1, TokensOf DEF QuotesInv
  <2>6. /\ currentChunk' = <<>> /\ isActive' = TRUE /\ transforms' = Quotes!LineEnds \cup {"any"}
        /\ result' = result
    BY <1>1, Zenon DEF Quotes!onQuote
  <2> QED
    BY <2>4, <2>5, <2>6 DEF QuotesInv
<1>2. CASE Quotes!onAny
  <2>1. PICK how \in Texts :
          /\ line' = Append(line, Quotes!Text(how))
          /\ currentChunk' = IF "any" \in transforms THEN Append(currentChunk, Quotes!Text(how)) ELSE currentChunk
    BY <1>2, Zenon DEF Quotes!onAny
  <2>2. UNCHANGED <<isActive, chunks, transforms, result>>
    BY <1>2, Zenon DEF Quotes!onAny
  <2>3. Quotes!Text(how) \in QuoteTokens
    BY TokenHandlersAssumption, TokensOf
  <2>4. line' \in Seq(QuoteTokens) /\ currentChunk' \in Seq(QuoteTokens)
    BY <2>1, <2>3 DEF QuotesInv
  <2> QED
    BY <2>2, <2>4 DEF QuotesInv
<1>3. CASE Quotes!processQuotes
  <2>1. CASE Quotes!Throws(chunks)
    <3>1. /\ result' = [Quotes!NoResult EXCEPT !.threw = TRUE] /\ line' = line
          /\ UNCHANGED <<isActive, chunks, currentChunk, transforms>>
      BY <1>3, <2>1, Zenon DEF Quotes!processQuotes
    <3>2. ~result'.missing
      BY <3>1 DEF Quotes!NoResult
    <3> QED
      BY <3>1, <3>2 DEF QuotesInv
  <2>2. CASE ~Quotes!Throws(chunks)
    <3>1. /\ result' = Quotes!Converted /\ isActive' = FALSE /\ chunks' = <<>>
          /\ currentChunk' = <<>> /\ transforms' = {} /\ line' = line
      BY <1>3, <2>2, Zenon DEF Quotes!processQuotes
    <3>2. Quotes!Converted.missing = Quotes!convertQuotesToTags(Quotes!Balance(chunks)).missing
      BY DEF Quotes!Converted
    <3>3. ~Quotes!convertQuotesToTags(Quotes!Balance(chunks)).missing
      BY Balanced, ConversionSound, Zenon DEF QuotesInv
    <3>4. ~result'.missing
      BY <3>1, <3>2, <3>3, Zenon
    <3>5. <<>> \in Seq(Seq(QuoteTokens)) /\ Len(<<>>) = 0 /\ 0 % 2 = 0 /\ <<>> \in Seq(QuoteTokens)
      OBVIOUS
    <3>6. QuoteLine(<<>>)
      BY <3>5 DEF QuoteLine
    <3> QED
      BY <3>1, <3>4, <3>5, <3>6 DEF QuotesInv
  <2> QED
    BY <2>1, <2>2
<1>4. CASE Quotes!NextLine
  <2>1. line' = <<>> /\ result' = Quotes!NoResult /\ UNCHANGED <<isActive, chunks, currentChunk, transforms>>
    BY <1>4, Zenon DEF Quotes!NextLine
  <2>2. ~Quotes!NoResult.missing /\ <<>> \in Seq(QuoteTokens)
    BY DEF Quotes!NoResult
  <2> QED
    BY <2>1, <2>2 DEF QuotesInv
<1> QED
  BY <1>1, <1>2, <1>3, <1>4 DEF Quotes!Next

LEMMA QuotesHold ==
    ASSUME QuotesInv
    PROVE  Quotes!MarksOpenTags /\ Quotes!TypeOK
<1>1. Len(chunks) % 2 = 0
  BY DEF QuotesInv, QuoteLine
<1>2. \A i \in Quotes!QuoteChunks(chunks) : Len(chunks[i]) = 1 /\ Quotes!QuoteAt(chunks, i) \in {2, 3, 5}
  <2> SUFFICES ASSUME NEW i \in Quotes!QuoteChunks(chunks)
               PROVE  Len(chunks[i]) = 1 /\ Quotes!QuoteAt(chunks, i) \in {2, 3, 5}
    OBVIOUS
  <2>1. i \in 1..Len(chunks) /\ i % 2 = 0
    BY DEF Quotes!QuoteChunks
  <2> QED
    BY <2>1, QuoteLength DEF QuotesInv
<1> QED
  BY <1>1, <1>2, Zenon DEF QuotesInv, Quotes!MarksOpenTags, Quotes!TypeOK

-----------------------------------------------------------------------------
(* ListHandler: what a consumer makes of the tags *)

Structs == List!ListTags \cup {"table"}

PlainTokens ==
    {List!Text, List!NlTk, List!SolTk, List!EOFTk, List!TagTk("div"), List!TagTk("b"),
     List!EndTagTk("div"), List!EndTagTk("b")}

\* The tokens the handler returns.
ListTokens == {List!TagTk(n) : n \in Structs} \cup {List!EndTagTk(n) : n \in Structs} \cup PlainTokens

Consumer == INSTANCE SequenceFolds WITH op <- List!Consume

LEMMA ConsumedByFold ==
    ASSUME NEW base, NEW s
    PROVE  Consumer!FoldLeft(List!Consume, base, s) = List!FoldLeft(List!Consume, base, s)
  BY Zenon DEF Consumer!FoldLeft, Consumer!MapThenFoldSet, Consumer!Max, List!FoldLeft,
               List!MapThenFoldSet, List!Max

OpenTags(o) == [open |-> o, nested |-> TRUE]

\* The tokens take a consumer from the tags o open to the tags p open, and close
\* no other than the last one opened.
GivesTags(o, tokens, p) ==
    /\ o \in Seq(Structs) /\ p \in Seq(Structs) /\ tokens \in Seq(ListTokens)
    /\ List!FoldLeft(List!Consume, OpenTags(o), tokens) = OpenTags(p)

LEMMA GivesNone ==
    ASSUME NEW o \in Seq(Structs)
    PROVE  GivesTags(o, <<>>, o)
<1>1. <<>> \in Seq(ListTokens)
  OBVIOUS
<1> QED
  BY <1>1, Consumer!FoldEmpty, ConsumedByFold, Zenon DEF GivesTags

LEMMA GivesAppend ==
    ASSUME NEW o, NEW s, NEW p, GivesTags(o, s, p), NEW t \in ListTokens, NEW q \in Seq(Structs),
           List!Consume(OpenTags(p), t) = OpenTags(q)
    PROVE  GivesTags(o, Append(s, t), q)
<1>1. Append(s, t) \in Seq(ListTokens) /\ s \in Seq(ListTokens)
  BY AppendProperties, Zenon DEF GivesTags
<1>2. List!FoldLeft(List!Consume, OpenTags(o), Append(s, t))
        = List!Consume(List!FoldLeft(List!Consume, OpenTags(o), s), t)
  BY <1>1, Consumer!FoldAppend, ConsumedByFold, Zenon
<1> QED
  BY <1>1, <1>2, Zenon DEF GivesTags

LEMMA GivesConcat ==
    ASSUME NEW o, NEW s, NEW p, GivesTags(o, s, p), NEW u, NEW q, GivesTags(p, u, q)
    PROVE  GivesTags(o, s \o u, q)
<1>1. s \o u \in Seq(ListTokens) /\ s \in Seq(ListTokens) /\ u \in Seq(ListTokens)
  BY ConcatProperties, Zenon DEF GivesTags
<1>2. List!FoldLeft(List!Consume, OpenTags(o), s \o u)
        = List!FoldLeft(List!Consume, List!FoldLeft(List!Consume, OpenTags(o), s), u)
  <2> DEFINE mid == List!FoldLeft(List!Consume, OpenTags(o), s)
  <2>1. Consumer!FoldLeft(List!Consume, OpenTags(o), s \o u)
          = Consumer!FoldLeft(List!Consume, Consumer!FoldLeft(List!Consume, OpenTags(o), s), u)
    BY <1>1, Consumer!FoldConcat
  <2>2. Consumer!FoldLeft(List!Consume, OpenTags(o), s) = mid
    BY ConsumedByFold
  <2> HIDE DEF mid
  <2>3. Consumer!FoldLeft(List!Consume, mid, u) = List!FoldLeft(List!Consume, mid, u)
    BY ConsumedByFold
  <2>4. Consumer!FoldLeft(List!Consume, OpenTags(o), s \o u) = List!FoldLeft(List!Consume, OpenTags(o), s \o u)
    BY ConsumedByFold
  <2>5. List!FoldLeft(List!Consume, OpenTags(o), s \o u) = List!FoldLeft(List!Consume, mid, u)
    BY <2>1, <2>2, <2>3, <2>4, Zenon
  <2> QED
    BY <2>5, Zenon DEF mid
<1> QED
  BY <1>1, <1>2, Zenon DEF GivesTags

LEMMA ListTokenKinds ==
    /\ \A n \in Structs : /\ List!TagTk(n) \in ListTokens /\ List!EndTagTk(n) \in ListTokens
                          /\ List!TagTk(n).type = "TagTk" /\ List!TagTk(n).name = n
                          /\ List!EndTagTk(n).type = "EndTagTk" /\ List!EndTagTk(n).name = n
                          /\ List!Structural(List!TagTk(n)) /\ List!Structural(List!EndTagTk(n))
    /\ \A t \in PlainTokens : t \in ListTokens /\ ~List!Structural(t)
  BY DEF ListTokens, PlainTokens, Structs, List!TagTk, List!EndTagTk, List!Token, List!Structural,
         List!ListTags, List!Text, List!NlTk, List!SolTk, List!EOFTk

\* What is neither a list nor a table leaves the tags as they are.
LEMMA PlainGives ==
    ASSUME NEW o \in Seq(Structs), NEW s \in Seq(PlainTokens)
    PROVE  GivesTags(o, s, o)
<1> DEFINE A == {OpenTags(o)}
<1>1. s \in Seq(ListTokens)
  <2>1. PlainTokens \subseteq ListTokens
    BY ListTokenKinds, Zenon
  <2> QED
    BY <2>1, SeqMonotonic, Zenon
<1>2. ASSUME NEW a \in A, NEW i \in 1..Len(s) PROVE List!Consume(a, s[i]) \in A
  <2>1. ~List!Structural(s[i]) /\ a = OpenTags(o)
    BY ElementOfSeq, ListTokenKinds, Zenon
  <2> QED
    BY <2>1, Zenon DEF List!Consume
<1>3. OpenTags(o) \in A
  OBVIOUS
<1> HIDE DEF A
<1>4. Consumer!FoldLeft(List!Consume, OpenTags(o), s) \in A
  BY <1>2, <1>3, Consumer!FoldStays
<1> QED
  BY <1>1, <1>4, ConsumedByFold, Zenon DEF GivesTags, A

LEMMA OpenGives ==
    ASSUME NEW o \in Seq(Structs), NEW n \in Structs
    PROVE  List!Consume(OpenTags(o), List!TagTk(n)) = OpenTags(Append(o, n))
<1>1. List!Consume(OpenTags(o), List!TagTk(n)) = [OpenTags(o) EXCEPT !.open = Append(OpenTags(o).open, n)]
  BY ListTokenKinds, Zenon DEF List!Consume
<1> QED
  BY ONLY <1>1 DEF OpenTags

LEMMA CloseGives ==
    ASSUME NEW o \in Seq(Structs), NEW n \in Structs
    PROVE  List!Consume(OpenTags(Append(o, n)), List!EndTagTk(n)) = OpenTags(o)
<1>1. /\ OpenTags(Append(o, n)).open = Append(o, n) /\ Append(o, n) # <<>>
      /\ List!Last(Append(o, n)) = n /\ List!Front(Append(o, n)) = o
  BY DEF OpenTags, List!Last, List!Front
<1>2. List!Consume(OpenTags(Append(o, n)), List!EndTagTk(n)) = [OpenTags(Append(o, n)) EXCEPT !.open = o]
  <2>1. List!EndTagTk(n).type # "TagTk"
    BY ListTokenKinds
  <2> QED
    BY <1>1, <2>1, ListTokenKinds, Zenon DEF List!Consume
<1> QED
  BY ONLY <1>2 DEF OpenTags

\* Opening the tags of names, and closing them in reverse.
LEMMA TagsOfAppend ==
    ASSUME NEW m \in Seq(Structs), NEW n \in Structs
    PROVE  /\ List!Tags(Append(m, n)) = Append(List!Tags(m), List!TagTk(n))
           /\ List!EndTags(List!Reverse(Append(m, n))) = <<List!EndTagTk(n)>> \o List!EndTags(List!Reverse(m))
<1> DEFINE T == {List!TagTk(x) : x \in Structs} \cup {List!EndTagTk(x) : x \in Structs}
           len == Len(m)
<1>0. /\ m \in [1..len -> Structs] /\ len \in Nat
      /\ Append(m, n) \in Seq(Structs) /\ Len(Append(m, n)) = len + 1
      /\ Append(m, n)[len + 1] = n /\ \A i \in 1..len : Append(m, n)[i] = m[i]
  OBVIOUS
<1>1. List!Tags(Append(m, n)) = Append(List!Tags(m), List!TagTk(n))
  <2>1. List!Tags(m) \in Seq(T) /\ Len(List!Tags(m)) = len /\ \A i \in 1..len : List!Tags(m)[i] = List!TagTk(m[i])
    BY <1>0 DEF List!Tags
  <2>2. /\ List!Tags(Append(m, n)) \in Seq(T) /\ Len(List!Tags(Append(m, n))) = len + 1
        /\ \A i \in 1..(len + 1) : List!Tags(Append(m, n))[i] = List!TagTk(Append(m, n)[i])
    BY <1>0 DEF List!Tags
  <2>3. List!TagTk(n) \in T
    OBVIOUS
  <2> HIDE DEF T, len
  <2>4. /\ Append(List!Tags(m), List!TagTk(n)) \in Seq(T) /\ Len(Append(List!Tags(m), List!TagTk(n))) = len + 1
        /\ \A i \in 1..len : Append(List!Tags(m), List!TagTk(n))[i] = List!Tags(m)[i]
        /\ Append(List!Tags(m), List!TagTk(n))[len + 1] = List!TagTk(n)
    BY ONLY <1>0, <2>1, <2>3
  <2>5. \A i \in 1..(len + 1) : List!Tags(Append(m, n))[i] = Append(List!Tags(m), List!TagTk(n))[i]
    BY ONLY <1>0, <2>1, <2>2, <2>4
  <2> QED
    BY ONLY <2>2, <2>4, <2>5, SeqEqual
<1>2. List!EndTags(List!Reverse(Append(m, n))) = <<List!EndTagTk(n)>> \o List!EndTags(List!Reverse(m))
  <2>1. /\ List!Reverse(m) = [i \in 1..len |-> m[(len - i) + 1]]
        /\ List!Reverse(Append(m, n)) = [i \in 1..(len + 1) |-> Append(m, n)[((len + 1) - i) + 1]]
    BY <1>0 DEF List!Reverse
  <2>2. /\ List!Reverse(m) \in Seq(Structs) /\ Len(List!Reverse(m)) = len
        /\ List!Reverse(Append(m, n)) \in Seq(Structs) /\ Len(List!Reverse(Append(m, n))) = len + 1
    BY <1>0, <2>1
  <2>3. /\ List!Reverse(Append(m, n))[1] = n
        /\ \A i \in 2..(len + 1) : List!Reverse(Append(m, n))[i] = List!Reverse(m)[i - 1]
    BY <1>0, <2>1
  <2> DEFINE r == List!Reverse(m)
             q == List!Reverse(Append(m, n))
  <2>4. /\ r \in Seq(Structs) /\ Len(r) = len /\ q \in Seq(Structs) /\ Len(q) = len + 1
        /\ q[1] = n /\ \A i \in 2..(len + 1) : q[i] = r[i - 1]
    BY <2>2, <2>3
  <2> HIDE DEF r, q
  <2>5. List!EndTags(r) \in Seq(T) /\ Len(List!EndTags(r)) = len /\ \A i \in 1..len : List!EndTags(r)[i] = List!EndTagTk(r[i])
    BY <1>0, <2>4 DEF List!EndTags
  <2>6. /\ List!EndTags(q) \in Seq(T) /\ Len(List!EndTags(q)) = len + 1
        /\ \A i \in 1..(len + 1) : List!EndTags(q)[i] = List!EndTagTk(q[i])
    BY <1>0, <2>4 DEF List!EndTags
  <2>7. List!EndTagTk(n) \in T
    OBVIOUS
  <2> HIDE DEF T, len
  <2>8. /\ <<List!EndTagTk(n)>> \o List!EndTags(r) \in Seq(T)
        /\ Len(<<List!EndTagTk(n)>> \o List!EndTags(r)) = len + 1
        /\ (<<List!EndTagTk(n)>> \o List!EndTags(r))[1] = List!EndTagTk(n)
        /\ \A i \in 2..(len + 1) : (<<List!EndTagTk(n)>> \o List!EndTags(r))[i] = List!EndTags(r)[i - 1]
    BY ONLY <1>0, <2>5, <2>7
  <2>9. \A i \in 1..(len + 1) : List!EndTags(q)[i] = (<<List!EndTagTk(n)>> \o List!EndTags(r))[i]
    <3> TAKE i \in 1..(len + 1)
    <3>1. CASE i = 1
      BY ONLY <1>0, <3>1, <2>4, <2>6, <2>8
    <3>2. CASE i # 1
      <4>1. i \in 2..(len + 1) /\ i - 1 \in 1..len
        BY ONLY <1>0, <3>2
      <4> QED
        BY ONLY <4>1, <2>4, <2>5, <2>6, <2>8
    <3> QED
      BY <3>1, <3>2
  <2> QED
    BY ONLY <2>6, <2>8, <2>9, SeqEqual DEF r, q
<1> QED
  BY <1>1, <1>2

LEMMA NoTags == List!Tags(<<>>) = <<>> /\ List!EndTags(List!Reverse(<<>>)) = <<>>
  BY DEF List!Tags, List!EndTags, List!Reverse

LEMMA TagsGive ==
    ASSUME NEW o \in Seq(Structs), NEW s \in Seq(Structs)
    PROVE  GivesTags(o, List!Tags(s), o \o s)
<1> DEFINE S == {m \in Seq(Structs) : GivesTags(o, List!Tags(m), o \o m)}
<1>1. <<>> \in S
  <2>1. <<>> \in Seq(Structs) /\ o \o <<>> = o
    OBVIOUS
  <2> QED
    BY <2>1, NoTags, GivesNone, Zenon
<1>2. ASSUME NEW m \in S, NEW n \in Structs PROVE Append(m, n) \in S
  <2>1. m \in Seq(Structs) /\ GivesTags(o, List!Tags(m), o \o m)
    BY <1>2, Zenon
  <2>2. /\ o \o m \in Seq(Structs) /\ Append(m, n) \in Seq(Structs)
        /\ Append(o \o m, n) \in Seq(Structs) /\ o \o Append(m, n) = Append(o \o m, n)
    BY <2>1
  <2>3. List!Consume(OpenTags(o \o m), List!TagTk(n)) = OpenTags(Append(o \o m, n))
    BY <2>2, OpenGives
  <2>4. GivesTags(o, Append(List!Tags(m), List!TagTk(n)), Append(o \o m, n))
    BY <2>1, <2>2, <2>3, GivesAppend, ListTokenKinds, Zenon
  <2> QED
    BY <2>1, <2>2, <2>4, TagsOfAppend, Zenon
<1>3. S = Seq(Structs)
  <2>1. S \in SUBSET Seq(Structs)
    OBVIOUS
  <2> HIDE DEF S
  <2> QED
    BY <1>1, <1>2, <2>1, Consumer!SeqByAppend
<1> QED
  BY <1>3, Zenon

LEMMA EndTagsGive ==
    ASSUME NEW o \in Seq(Structs), NEW s \in Seq(Structs)
    PROVE  GivesTags(o \o s, List!EndTags(List!Reverse(s)), o)
<1> DEFINE S == {m \in Seq(Structs) : GivesTags(o \o m, List!EndTags(List!Reverse(m)), o)}
<1>1. <<>> \in S
  <2>1. <<>> \in Seq(Structs) /\ o \o <<>> = o
    OBVIOUS
  <2> QED
    BY <2>1, NoTags, GivesNone, Zenon
<1>2. ASSUME NEW m \in S, NEW n \in Structs PROVE Append(m, n) \in S
  <2>1. m \in Seq(Structs) /\ GivesTags(o \o m, List!EndTags(List!Reverse(m)), o)
    BY <1>2, Zenon
  <2>2. /\ o \o m \in Seq(Structs) /\ Append(m, n) \in Seq(Structs)
        /\ Append(o \o m, n) \in Seq(Structs) /\ o \o Append(m, n) = Append(o \o m, n)
        /\ Append(<<>>, List!EndTagTk(n)) = <<List!EndTagTk(n)>>
    BY <2>1
  <2>3. List!Consume(OpenTags(Append(o \o m, n)), List!EndTagTk(n)) = OpenTags(o \o m)
    BY <2>2, CloseGives
  <2>4. GivesTags(Append(o \o m, n), Append(<<>>, List!EndTagTk(n)), o \o m)
    BY <2>2, <2>3, GivesNone, GivesAppend, ListTokenKinds, Zenon
  <2>5. GivesTags(Append(o \o m, n), <<List!EndTagTk(n)>> \o List!EndTags(List!Reverse(m)), o)
    BY <2>1, <2>2, <2>4, GivesConcat, Zenon
  <2> QED
    BY <2>1, <2>2, <2>5, TagsOfAppend, Zenon
<1>3. S = Seq(Structs)
  <2>1. S \in SUBSET Seq(Structs)
    OBVIOUS
  <2> HIDE DEF S
  <2> QED
    BY <1>1, <1>2, <2>1, Consumer!SeqByAppend
<1> QED
  BY <1>3, Zenon

\* One tag.
LEMMA TagGives ==
    ASSUME NEW o \in Seq(Structs), NEW n \in Structs
    PROVE  GivesTags(o, <<List!TagTk(n)>>, Append(o, n)) /\ GivesTags(Append(o, n), <<List!EndTagTk(n)>>, o)
<1>1. /\ Append(o, n) \in Seq(Structs)
      /\ Append(<<>>, List!EndTagTk(n)) = <<List!EndTagTk(n)>> /\ Append(<<>>, List!TagTk(n)) = <<List!TagTk(n)>>
  OBVIOUS
<1>2. GivesTags(o, <<>>, o) /\ GivesTags(Append(o, n), <<>>, Append(o, n))
  BY <1>1, GivesNone
<1>3. List!TagTk(n) \in ListTokens /\ List!EndTagTk(n) \in ListTokens
  BY ListTokenKinds
<1>4. GivesTags(o, Append(<<>>, List!TagTk(n)), Append(o, n))
  BY <1>1, <1>2, <1>3, OpenGives, GivesAppend
<1>5. GivesTags(Append(o, n), Append(<<>>, List!EndTagTk(n)), o)
  BY <1>1, <1>2, <1>3, CloseGives, GivesAppend
<1> QED
  BY <1>1, <1>4, <1>5, Zenon

-----------------------------------------------------------------------------
(* ListHandler: list items *)

Chars == {"*", "#", ";", ":"}

FrameSet ==
    [atEOL : BOOLEAN, nlTk : Seq(PlainTokens), solTokens : Seq(PlainTokens), bstack : Seq(Chars),
     endtags : Seq(List!ListTags), numOpenBlockTags : Nat, numOpenTags : Nat]

\* A frame keeps two end tags for each bullet.
FrameOK(f) == f \in FrameSet /\ Len(f.endtags) = 2 * Len(f.bstack)

OKFrames == {f \in FrameSet : FrameOK(f)}

LEMMA NewFrameOK == FrameOK(List!newListFrame)
  BY DEF FrameOK, FrameSet, List!newListFrame

LEMMA NamesOfBullets ==
    \A b \in Chars : List!listOf[b] \in List!ListTags /\ List!itemOf[b] \in List!ListTags
  BY DEF Chars, List!listOf, List!itemOf, List!ListTags

LEMMA ListNamesOf ==
    ASSUME NEW bn \in Seq(Chars)
    PROVE  List!ListNames(bn) \in Seq(List!ListTags) /\ Len(List!ListNames(bn)) = 2 * Len(bn)
<1> DEFINE n == 2 * Len(bn)
           name(i) == IF i % 2 = 1 THEN List!listOf[bn[(i + 1) \div 2]] ELSE List!itemOf[bn[i \div 2]]
<1>1. n \in Nat /\ Len(bn) \in Nat
  OBVIOUS
<1>2. ASSUME NEW i \in 1..n PROVE name(i) \in List!ListTags
  <2>1. CASE i % 2 = 1
    <3>1. (i + 1) \div 2 \in 1..Len(bn)
      BY <1>1, <2>1
    <3>2. bn[(i + 1) \div 2] \in Chars
      BY <3>1, ElementOfSeq
    <3> QED
      BY <2>1, <3>2, NamesOfBullets, Zenon
  <2>2. CASE i % 2 # 1
    <3>1. i \div 2 \in 1..Len(bn)
      BY <1>1, <2>2
    <3>2. bn[i \div 2] \in Chars
      BY <3>1, ElementOfSeq
    <3> QED
      BY <2>2, <3>2, NamesOfBullets, Zenon
  <2> QED
    BY <2>1, <2>2
<1>3. List!ListNames(bn) = [i \in 1..n |-> name(i)]
  BY Zenon DEF List!ListNames
<1> HIDE DEF n, name
<1>4. [i \in 1..n |-> name(i)] \in Seq(List!ListTags) /\ Len([i \in 1..n |-> name(i)]) = n
  BY ONLY <1>1, <1>2
<1> QED
  BY <1>3, <1>4 DEF n

LEMMA PrefixLength ==
    ASSUME NEW x \in Seq(Chars), NEW y \in Seq(Chars)
    PROVE  /\ List!commonPrefixLength(x, y) \in 0..Len(x)
           /\ List!commonPrefixLength(x, y) \in 0..Len(y)
<1> DEFINE C == List!CommonPrefixes({x, y})
           longest == List!LongestCommonPrefix({x, y})
           Lengths == {m \in Nat : \E c \in C : Len(x) - Len(c) = m}
<1>1. \A c \in C : Len(c) <= Len(x) /\ Len(c) <= Len(y) /\ Len(c) \in Nat
  <2> TAKE c \in C
  <2>1. /\ \E seq \in {x, y} : \E l \in 0..Len(seq) : c = SubSeq(seq, 1, l)
        /\ \A t \in {x, y} : Len(c) <= Len(t)
    BY DEF List!CommonPrefixes, List!Prefixes, List!IsPrefix
  <2>2. PICK seq \in {x, y} : \E l \in 0..Len(seq) : c = SubSeq(seq, 1, l)
    BY <2>1
  <2>3. seq \in Seq(Chars)
    BY <2>2
  <2>4. Len(c) \in Nat
    BY <2>2, <2>3
  <2> QED
    BY <2>1, <2>4
<1>2. <<>> \in C
  <2>1. /\ SubSeq(x, 1, 0) = <<>> /\ 0 \in 0..Len(x) /\ Len(x) \in Nat /\ Len(y) \in Nat
        /\ SubSeq(y, 1, 0) = <<>> /\ SubSeq(<<>>, 1, 0) = <<>> /\ Len(<<>>) = 0
    OBVIOUS
  <2>2. \A t \in {x, y} : List!IsPrefix(<<>>, t)
    BY <2>1 DEF List!IsPrefix
  <2>3. <<>> \in List!Prefixes(x)
    BY <2>1, Zenon DEF List!Prefixes
  <2> QED
    BY <2>2, <2>3, Zenon DEF List!CommonPrefixes
<1> HIDE DEF C
<1>3. Lengths \in SUBSET Nat /\ Lengths # {}
  <2>1. Len(x) - Len(<<>>) \in Nat
    OBVIOUS
  <2> QED
    BY <1>2, <2>1
<1>4. PICK m \in Lengths : \A k \in Lengths : m <= k
  <2> HIDE DEF Lengths
  <2> QED
    BY <1>3, Consumer!LeastNat
<1>5. PICK c \in C : Len(x) - Len(c) = m
  BY <1>4
<1>6. \A other \in C : Len(other) <= Len(c)
  <2> TAKE other \in C
  <2>1. Len(x) - Len(other) \in Lengths
    BY <1>1
  <2>2. m <= Len(x) - Len(other)
    BY <1>4, <2>1
  <2> QED
    BY <1>1, <1>5, <2>2
<1>7. longest \in C
  <2>1. longest = CHOOSE l \in C : \A other \in C : Len(other) <= Len(l)
    BY Zenon DEF List!LongestCommonPrefix, C
  <2> QED
    BY <1>6, <2>1, Zenon
<1>8. List!commonPrefixLength(x, y) = Len(longest)
  BY Zenon DEF List!commonPrefixLength
<1> HIDE DEF longest
<1> QED
  BY <1>1, <1>7, <1>8

LEMMA AreStructs ==
    /\ List!ListTags \subseteq Structs /\ "table" \in Structs
    /\ \A s \in Seq(List!ListTags) : s \in Seq(Structs)
<1>1. List!ListTags \subseteq Structs /\ "table" \in Structs
  BY DEF Structs
<1> QED
  BY <1>1, SeqMonotonic

LEMMA PopGives ==
    ASSUME NEW f, FrameOK(f), NEW o \in Seq(Structs), NEW n \in 0..Len(f.bstack)
    PROVE  /\ List!Popped(f, n) \in Seq(List!ListTags)
           /\ Len(List!Popped(f, n)) = 2 * (Len(f.bstack) - n)
           /\ GivesTags(o \o f.endtags, List!popTags(f, n), o \o List!Popped(f, n))
<1> DEFINE e == f.endtags
           len == Len(f.endtags)
           left == SubSeq(e, 1, len - 2 * n)
           top == SubSeq(e, len - 2 * n + 1, len)
<1>1. /\ e \in Seq(List!ListTags) /\ len \in Nat /\ len - 2 * n \in 0..len
      /\ len - 2 * n = 2 * (Len(f.bstack) - n) /\ len = Len(e)
  BY DEF FrameOK, FrameSet
<1>2. List!Popped(f, n) = left /\ List!popTags(f, n) = List!EndTags(List!Reverse(top))
  BY Zenon DEF List!Popped, List!popTags
<1> HIDE DEF e
<1>3. /\ left \in Seq(List!ListTags) /\ top \in Seq(List!ListTags)
      /\ Len(left) = len - 2 * n /\ left \o top = e
  <2> DEFINE k == len - 2 * n
  <2>1. k \in 0..len /\ len \in Nat /\ len = Len(e)
    BY <1>1
  <2> HIDE DEF k, len
  <2>2. /\ SubSeq(e, 1, k) \in Seq(List!ListTags) /\ SubSeq(e, k + 1, len) \in Seq(List!ListTags)
        /\ Len(SubSeq(e, 1, k)) = k
    <3>1. e \in Seq(List!ListTags)
      BY <1>1
    <3> QED
      BY ONLY <2>1, <3>1
  <2>3. SubSeq(e, 1, k) \o SubSeq(e, k + 1, len) = e
    <3>1. 1 \in 1..(Len(e) + 1) /\ k \in (1 - 1)..Len(e) /\ Len(e) \in k..Len(e)
      BY ONLY <2>1
    <3>2. SubSeq(e, 1, k) \o SubSeq(e, k + 1, Len(e)) = SubSeq(e, 1, Len(e))
      BY <1>1, <3>1, ConcatAdjacentSubSeq
    <3> QED
      BY <1>1, <2>1, <3>2, SubSeqFull
  <2> QED
    BY <2>2, <2>3 DEF k
<1> HIDE DEF left, top
<1>4. left \in Seq(Structs) /\ top \in Seq(Structs) /\ o \o left \in Seq(Structs)
  <2>1. left \in Seq(Structs) /\ top \in Seq(Structs)
    BY <1>3, AreStructs, Zenon
  <2> QED
    BY <2>1, ConcatProperties
<1>5. GivesTags((o \o left) \o top, List!EndTags(List!Reverse(top)), o \o left)
  BY <1>4, EndTagsGive
<1>6. (o \o left) \o top = o \o e
  <2>1. (o \o left) \o top = o \o (left \o top)
    BY <1>4, ConcatAssociative
  <2> QED
    BY <1>3, <2>1
<1> QED
  BY <1>1, <1>2, <1>3, <1>5, <1>6, Zenon DEF e

LEMMA HeldIsPlain ==
    ASSUME NEW f \in FrameSet
    PROVE  /\ List!Held(f) \in Seq(PlainTokens) /\ f.solTokens \in Seq(PlainTokens)
           /\ f.nlTk \in Seq(PlainTokens)
<1>1. f.solTokens \in Seq(PlainTokens) /\ f.nlTk \in Seq(PlainTokens)
  BY DEF FrameSet
<1> QED
  BY <1>1, ConcatProperties DEF List!Held

\* An item of the list opens where the lists of the frame were open.
ItemOK(f, bn, o, res) ==
    /\ res.endtags \in Seq(List!ListTags) /\ Len(res.endtags) = 2 * Len(bn)
    /\ GivesTags(o \o f.endtags, res.tokens, o \o res.endtags)

\* The last of some tags.
LEMMA LastTag ==
    ASSUME NEW T, NEW s \in Seq(T), s # <<>>
    PROVE  /\ List!Last(s) \in T /\ List!Front(s) \in Seq(T)
           /\ Append(List!Front(s), List!Last(s)) = s /\ Len(List!Front(s)) = Len(s) - 1
<1>1. PICK front \in Seq(T), x \in T : s = Append(front, x)
  BY SequenceEmptyOrAppend
<1>2. List!Last(s) = x /\ List!Front(s) = front /\ Len(s) = Len(front) + 1 /\ Len(front) \in Nat
  BY <1>1 DEF List!Last, List!Front
<1> QED
  BY <1>1, <1>2

LEMMA SameNestingOK ==
    ASSUME NEW f, FrameOK(f), NEW o \in Seq(Structs), NEW bn \in Seq(Chars), bn # <<>>,
           Len(bn) = Len(f.bstack)
    PROVE  ItemOK(f, bn, o, List!SameNesting(f, bn))
<1> DEFINE e == f.endtags
           item == List!Last(e)
           front == List!Front(e)
<1>1. e \in Seq(List!ListTags) /\ Len(e) = 2 * Len(bn) /\ e # <<>> /\ f \in FrameSet
  BY DEF FrameOK, FrameSet
<1> HIDE DEF e
<1>2. item \in List!ListTags /\ front \in Seq(List!ListTags) /\ Append(front, item) = e
  BY <1>1, LastTag
<1> HIDE DEF item, front
<1>3. /\ item \in Structs /\ front \in Seq(Structs) /\ o \o front \in Seq(Structs)
      /\ Append(o \o front, item) = o \o e /\ o \o e \in Seq(Structs)
  <2>1. item \in Structs /\ front \in Seq(Structs)
    BY <1>2, AreStructs, Zenon
  <2>2. /\ o \o front \in Seq(Structs) /\ Append(o \o front, item) = o \o Append(front, item)
        /\ Append(o \o front, item) \in Seq(Structs)
    BY <2>1
  <2> QED
    BY <1>2, <2>1, <2>2
<1>4. GivesTags(o \o e, <<List!EndTagTk(item)>>, o \o front) /\ GivesTags(o \o front, <<List!TagTk(item)>>, o \o e)
  BY <1>3, TagGives
<1>5. GivesTags(o \o front, List!Held(f), o \o front)
  BY <1>1, <1>3, HeldIsPlain, PlainGives
<1>6. GivesTags(o \o e, <<List!EndTagTk(item)>> \o List!Held(f), o \o front)
  BY <1>4, <1>5, GivesConcat
<1>7. GivesTags(o \o e, <<List!EndTagTk(item)>> \o List!Held(f) \o <<List!TagTk(item)>>, o \o e)
  BY <1>4, <1>6, GivesConcat
<1>8. /\ List!SameNesting(f, bn).endtags = e
      /\ List!SameNesting(f, bn).tokens = <<List!EndTagTk(item)>> \o List!Held(f) \o <<List!TagTk(item)>>
  BY DEF List!SameNesting, item, e
<1> QED
  BY <1>1, <1>7, <1>8, Zenon DEF ItemOK, e

\* The items of the lists that are opened.
LEMMA MoreLists ==
    ASSUME NEW bn \in Seq(Chars), NEW k \in 0..Len(bn)
    PROVE  LET more == List!ListNames(SubSeq(bn, k + 1, Len(bn)))
           IN  more \in Seq(List!ListTags) /\ Len(more) = 2 * (Len(bn) - k)
<1>1. SubSeq(bn, k + 1, Len(bn)) \in Seq(Chars) /\ Len(SubSeq(bn, k + 1, Len(bn))) = Len(bn) - k
  OBVIOUS
<1> QED
  BY <1>1, ListNamesOf

LEMMA DtDdTransitionOK ==
    ASSUME NEW f, FrameOK(f), NEW o \in Seq(Structs), NEW bn \in Seq(Chars), NEW prefix \in Nat,
           prefix < Len(f.bstack), prefix < Len(bn)
    PROVE  ItemOK(f, bn, o, List!DtDdTransition(f, bn, prefix))
<1> DEFINE levels == Len(f.bstack) - prefix - 1
           left == List!Popped(f, levels)
           item == List!Last(left)
           front == List!Front(left)
           newName == List!itemOf[bn[prefix + 1]]
           more == List!ListNames(SubSeq(bn, prefix + 2, Len(bn)))
           names == Append(front, newName) \o more
           tokens == f.solTokens \o List!popTags(f, levels) \o <<List!EndTagTk(item)>>
                       \o f.nlTk \o <<List!TagTk(newName)>> \o List!Tags(more)
<1>1. /\ f \in FrameSet /\ levels \in 0..Len(f.bstack) /\ Len(f.bstack) \in Nat /\ Len(bn) \in Nat
      /\ Len(f.bstack) - levels = prefix + 1 /\ f.endtags \in Seq(List!ListTags)
  BY DEF FrameOK, FrameSet
<1>2. /\ List!DtDdTransition(f, bn, prefix).endtags = names
      /\ List!DtDdTransition(f, bn, prefix).tokens = tokens
  BY DEF List!DtDdTransition
<1>3. left \in Seq(List!ListTags) /\ Len(left) = 2 * (prefix + 1)
      /\ GivesTags(o \o f.endtags, List!popTags(f, levels), o \o left)
  <2> HIDE DEF levels
  <2> QED
    BY <1>1, PopGives
<1>4. newName \in List!ListTags
  <2>1. prefix + 1 \in 1..Len(bn)
    BY <1>1
  <2>2. bn[prefix + 1] \in Chars
    BY <2>1, ElementOfSeq
  <2> QED
    BY <2>2, NamesOfBullets
<1>5. more \in Seq(List!ListTags) /\ Len(more) = 2 * (Len(bn) - (prefix + 1))
  <2>1. prefix + 1 \in 0..Len(bn) /\ (prefix + 1) + 1 = prefix + 2
    BY <1>1
  <2> QED
    BY <2>1, MoreLists
<1> HIDE DEF left, levels, newName, more
<1>6. /\ item \in List!ListTags /\ front \in Seq(List!ListTags)
      /\ Append(front, item) = left /\ Len(front) = 2 * (prefix + 1) - 1
  <2>1. left # <<>>
    BY <1>3
  <2> QED
    BY <1>3, <2>1, LastTag
<1> HIDE DEF item, front
<1>7. names \in Seq(List!ListTags) /\ Len(names) = 2 * Len(bn)
  <2>1. Append(front, newName) \in Seq(List!ListTags) /\ Len(Append(front, newName)) = 2 * (prefix + 1)
    BY <1>4, <1>6
  <2>2. names \in Seq(List!ListTags) /\ Len(names) = Len(Append(front, newName)) + Len(more)
    BY <1>5, <2>1, ConcatProperties
  <2> QED
    BY <1>1, <1>5, <2>1, <2>2
<1> HIDE DEF names, tokens
<1>8. /\ o \o front \in Seq(Structs) /\ Append(o \o front, item) = o \o left
      /\ Append(o \o front, newName) = o \o Append(front, newName)
      /\ o \o left \in Seq(Structs) /\ o \o f.endtags \in Seq(Structs)
      /\ Append(o \o front, newName) \in Seq(Structs)
      /\ item \in Structs /\ newName \in Structs /\ more \in Seq(Structs)
      /\ Append(o \o front, newName) \o more = o \o (Append(front, newName) \o more)
  <2>1. /\ item \in Structs /\ newName \in Structs /\ more \in Seq(Structs) /\ front \in Seq(Structs)
        /\ f.endtags \in Seq(Structs)
    BY <1>1, <1>4, <1>5, <1>6, AreStructs, Zenon
  <2>2. front \in Seq(Structs)
    BY <2>1
  <2>3. item \in Structs
    BY <2>1
  <2>4. newName \in Structs
    BY <2>1
  <2>5. /\ o \o front \in Seq(Structs) /\ Append(o \o front, item) = o \o Append(front, item)
        /\ Append(o \o front, item) \in Seq(Structs)
    BY ONLY o \in Seq(Structs), <2>2, <2>3
  <2>6. /\ Append(o \o front, newName) = o \o Append(front, newName)
        /\ Append(o \o front, newName) \in Seq(Structs) /\ Append(front, newName) \in Seq(Structs)
    BY ONLY o \in Seq(Structs), <2>2, <2>4
  <2>7. o \o f.endtags \in Seq(Structs)
    BY <2>1, ConcatProperties
  <2>8. (o \o Append(front, newName)) \o more = o \o (Append(front, newName) \o more)
    <3> DEFINE s == Append(front, newName)
    <3>1. o \in Seq(Structs) /\ s \in Seq(Structs) /\ more \in Seq(Structs)
      BY <2>1, <2>6
    <3> HIDE DEF s
    <3>2. (o \o s) \o more = o \o (s \o more)
      BY ONLY <3>1, ConcatAssociative
    <3> QED
      BY <3>2 DEF s
  <2> QED
    BY <1>6, <2>1, <2>5, <2>6, <2>7, <2>8, Zenon
<1>9. GivesTags(o \o f.endtags, f.solTokens, o \o f.endtags) /\ GivesTags(o \o front, f.nlTk, o \o front)
  BY <1>1, <1>8, HeldIsPlain, PlainGives
<1>10. GivesTags(o \o left, <<List!EndTagTk(item)>>, o \o front)
  BY <1>8, TagGives
<1>11. GivesTags(o \o front, <<List!TagTk(newName)>>, Append(o \o front, newName))
  BY <1>8, TagGives
<1>12. GivesTags(Append(o \o front, newName), List!Tags(more), o \o names)
  BY <1>8, TagsGive, Zenon DEF names
<1>13. GivesTags(o \o f.endtags, tokens, o \o names)
  <2>1. GivesTags(o \o f.endtags, f.solTokens \o List!popTags(f, levels), o \o left)
    BY <1>3, <1>9, GivesConcat
  <2>2. GivesTags(o \o f.endtags, f.solTokens \o List!popTags(f, levels) \o <<List!EndTagTk(item)>>, o \o front)
    BY <1>10, <2>1, GivesConcat
  <2>3. GivesTags(o \o f.endtags, f.solTokens \o List!popTags(f, levels) \o <<List!EndTagTk(item)>> \o f.nlTk,
              o \o front)
    BY <1>9, <2>2, GivesConcat
  <2>4. GivesTags(o \o f.endtags, f.solTokens \o List!popTags(f, levels) \o <<List!EndTagTk(item)>> \o f.nlTk
                \o <<List!TagTk(newName)>>, Append(o \o front, newName))
    BY <1>11, <2>3, GivesConcat
  <2> QED
    BY <1>12, <2>4, GivesConcat DEF tokens
<1> QED
  BY <1>2, <1>7, <1>13, Zenon DEF ItemOK

LEMMA OtherNestingOK ==
    ASSUME NEW f, FrameOK(f), NEW o \in Seq(Structs), NEW bn \in Seq(Chars), NEW prefix \in Nat,
           prefix <= Len(f.bstack), prefix <= Len(bn)
    PROVE  ItemOK(f, bn, o, List!OtherNesting(f, bn, prefix))
<1> DEFINE levels == Len(f.bstack) - prefix
           left == List!Popped(f, levels)
           again == IF prefix > 0 /\ Len(bn) = prefix
                      THEN <<List!EndTagTk(List!Last(left)), List!TagTk(List!Last(left))>> ELSE <<>>
           more == List!ListNames(SubSeq(bn, prefix + 1, Len(bn)))
           tokens == f.solTokens \o List!popTags(f, levels) \o f.nlTk \o again \o List!Tags(more)
<1>1. /\ f \in FrameSet /\ levels \in 0..Len(f.bstack) /\ Len(f.bstack) \in Nat /\ Len(bn) \in Nat
      /\ Len(f.bstack) - levels = prefix /\ f.endtags \in Seq(List!ListTags)
  BY DEF FrameOK, FrameSet
<1>2. /\ List!OtherNesting(f, bn, prefix).endtags = left \o more
      /\ List!OtherNesting(f, bn, prefix).tokens = tokens
  BY DEF List!OtherNesting
<1>3. left \in Seq(List!ListTags) /\ Len(left) = 2 * prefix
      /\ GivesTags(o \o f.endtags, List!popTags(f, levels), o \o left)
  <2> HIDE DEF levels
  <2> QED
    BY <1>1, PopGives
<1>4. more \in Seq(List!ListTags) /\ Len(more) = 2 * (Len(bn) - prefix)
  <2>1. prefix \in 0..Len(bn)
    BY <1>1
  <2> QED
    BY <2>1, MoreLists
<1> HIDE DEF left, levels, more
<1>5. left \o more \in Seq(List!ListTags) /\ Len(left \o more) = 2 * Len(bn)
  <2>1. left \o more \in Seq(List!ListTags) /\ Len(left \o more) = Len(left) + Len(more)
    BY <1>3, <1>4, ConcatProperties
  <2> QED
    BY <1>1, <1>3, <1>4, <2>1
<1>6. /\ left \in Seq(Structs) /\ more \in Seq(Structs) /\ o \o left \in Seq(Structs)
      /\ o \o f.endtags \in Seq(Structs) /\ (o \o left) \o more = o \o (left \o more)
  <2>1. left \in Seq(Structs) /\ more \in Seq(Structs) /\ f.endtags \in Seq(Structs)
    BY <1>1, <1>3, <1>4, AreStructs, Zenon
  <2> QED
    BY <2>1, ConcatProperties, ConcatAssociative
<1>7. GivesTags(o \o f.endtags, f.solTokens, o \o f.endtags) /\ GivesTags(o \o left, f.nlTk, o \o left)
  BY <1>1, <1>6, HeldIsPlain, PlainGives
<1>8. GivesTags(o \o left, again, o \o left)
  <2>1. CASE prefix > 0 /\ Len(bn) = prefix
    <3> DEFINE item == List!Last(left)
               front == List!Front(left)
    <3>1. left # <<>>
      BY <1>3, <2>1
    <3>2. item \in List!ListTags /\ front \in Seq(List!ListTags) /\ Append(front, item) = left
      BY <1>3, <3>1, LastTag
    <3> HIDE DEF item, front
    <3>3. item \in Structs /\ front \in Seq(Structs)
      BY <3>2, AreStructs, Zenon
    <3>4. /\ o \o front \in Seq(Structs) /\ Append(o \o front, item) = o \o Append(front, item)
      <4> HIDE DEF Structs
      <4>1. o \in Seq(Structs)
        OBVIOUS
      <4> QED
        BY ONLY <3>3, <4>1
    <3>5. GivesTags(o \o left, <<List!EndTagTk(item)>>, o \o front) /\ GivesTags(o \o front, <<List!TagTk(item)>>, o \o left)
      BY <3>2, <3>3, <3>4, TagGives
    <3>6. GivesTags(o \o left, <<List!EndTagTk(item)>> \o <<List!TagTk(item)>>, o \o left)
      BY <3>5, GivesConcat
    <3>7. again = <<List!EndTagTk(item)>> \o <<List!TagTk(item)>>
      BY <2>1 DEF item
    <3> QED
      BY <3>6, <3>7, Zenon
  <2>2. CASE ~(prefix > 0 /\ Len(bn) = prefix)
    BY <1>6, <2>2, GivesNone
  <2> QED
    BY <2>1, <2>2
<1> HIDE DEF again
<1>9. GivesTags(o \o left, List!Tags(more), o \o (left \o more))
  BY <1>6, TagsGive
<1>10. GivesTags(o \o f.endtags, tokens, o \o (left \o more))
  <2>1. GivesTags(o \o f.endtags, f.solTokens \o List!popTags(f, levels), o \o left)
    BY <1>3, <1>7, GivesConcat
  <2>2. GivesTags(o \o f.endtags, f.solTokens \o List!popTags(f, levels) \o f.nlTk, o \o left)
    BY <1>7, <2>1, GivesConcat
  <2>3. GivesTags(o \o f.endtags, f.solTokens \o List!popTags(f, levels) \o f.nlTk \o again, o \o left)
    BY <1>8, <2>2, GivesConcat
  <2> QED
    BY <1>9, <2>3, GivesConcat
<1> HIDE DEF tokens
<1> QED
  BY <1>2, <1>5, <1>10, Zenon DEF ItemOK

-----------------------------------------------------------------------------
(* ListHandler: what is open in each state *)

HandlerSet ==
    [currListFrame : {<<>>} \cup {<<f>> : f \in OKFrames}, listFrames : Seq(OKFrames),
     nestedTableCount : Nat, any : BOOLEAN]

HandlerOK(h) ==
    /\ h \in HandlerSet
    /\ h.any <=> h.currListFrame # <<>> \/ h.listFrames # <<>>
    /\ h.nestedTableCount > 0 => h.currListFrame = <<>> /\ h.listFrames # <<>>

TableTags(n) == [i \in 1..n |-> "table"]

\* A list, and the table in its item that pushed its frame.
AddFrame(o, f) == Append(o \o f.endtags, "table")

Pushed == INSTANCE SequenceFolds WITH op <- AddFrame

Around(n, frames) == Pushed!FoldLeft(AddFrame, TableTags(n), frames)

\* The tags that are open: n tables outside of all lists, the lists of the frames
\* on the stack with a table in each, and the current list, or the tables nested
\* in the last one.
Opens(h, n) ==
    Around(n, h.listFrames)
      \o (IF h.currListFrame # <<>> THEN List!Frame(h).endtags ELSE TableTags(h.nestedTableCount))

LEMMA TableTagsOf ==
    ASSUME NEW n \in Nat
    PROVE  /\ TableTags(n) \in Seq(Structs) /\ TableTags(0) = <<>>
           /\ TableTags(n + 1) = Append(TableTags(n), "table")
<1>1. "table" \in Structs
  BY AreStructs
<1>2. TableTags(n) \in Seq(Structs) /\ TableTags(0) = <<>>
  BY <1>1 DEF TableTags
<1>3. TableTags(n + 1) = Append(TableTags(n), "table")
  BY DEF TableTags
<1> QED
  BY <1>2, <1>3

LEMMA FrameTags ==
    ASSUME NEW f \in OKFrames
    PROVE  /\ f \in FrameSet /\ FrameOK(f) /\ f.endtags \in Seq(List!ListTags) /\ f.endtags \in Seq(Structs)
           /\ f.bstack \in Seq(Chars) /\ Len(f.bstack) \in Nat
<1>1. f \in FrameSet /\ FrameOK(f)
  BY Zenon DEF OKFrames
<1>2. f.endtags \in Seq(List!ListTags) /\ f.bstack \in Seq(Chars) /\ Len(f.bstack) \in Nat
  BY <1>1 DEF FrameSet
<1> QED
  BY <1>1, <1>2, AreStructs, Zenon

LEMMA AddFrameOK ==
    ASSUME NEW o \in Seq(Structs), NEW f \in OKFrames
    PROVE  AddFrame(o, f) \in Seq(Structs)
<1>1. f.endtags \in Seq(Structs) /\ "table" \in Structs
  BY FrameTags, AreStructs
<1> QED
  BY <1>1 DEF AddFrame

LEMMA AroundOf ==
    ASSUME NEW n \in Nat, NEW frames \in Seq(OKFrames)
    PROVE  /\ Around(n, frames) \in Seq(Structs) /\ Around(n, <<>>) = TableTags(n)
           /\ \A f \in OKFrames : Around(n, Append(frames, f)) = Append(Around(n, frames) \o f.endtags, "table")
<1>1. \A o \in Seq(Structs) : \A i \in 1..Len(frames) : AddFrame(o, frames[i]) \in Seq(Structs)
  BY ElementOfSeq, AddFrameOK
<1>2. TableTags(n) \in Seq(Structs)
  BY TableTagsOf
<1>3. Around(n, frames) \in Seq(Structs)
  BY <1>1, <1>2, Pushed!FoldStays DEF Around
<1>4. Around(n, <<>>) = TableTags(n)
  BY Pushed!FoldEmpty DEF Around
<1>5. ASSUME NEW f \in OKFrames
      PROVE  Around(n, Append(frames, f)) = Append(Around(n, frames) \o f.endtags, "table")
  <2>1. Around(n, Append(frames, f)) = AddFrame(Around(n, frames), f)
    BY Pushed!FoldAppend DEF Around
  <2> QED
    BY <2>1, Zenon DEF AddFrame
<1> QED
  BY <1>3, <1>4, <1>5

\* The fields of a handler.
LEMMA HandlerFields ==
    ASSUME NEW h, HandlerOK(h)
    PROVE  /\ h.listFrames \in Seq(OKFrames) /\ h.nestedTableCount \in Nat /\ h.any \in BOOLEAN
           /\ Len(h.listFrames) \in Nat
           /\ h.currListFrame # <<>> => /\ List!Frame(h) \in OKFrames /\ h.currListFrame = <<List!Frame(h)>>
                                        /\ h.nestedTableCount = 0 /\ h.any = TRUE
<1>1. h.listFrames \in Seq(OKFrames)
  BY DEF HandlerOK, HandlerSet
<1>2. Len(h.listFrames) \in Nat
  BY <1>1
<1> QED
  BY <1>1, <1>2 DEF HandlerOK, HandlerSet, List!Frame

LEMMA OpensOf ==
    ASSUME NEW h, HandlerOK(h), NEW n \in Nat
    PROVE  /\ Around(n, h.listFrames) \in Seq(Structs) /\ Opens(h, n) \in Seq(Structs)
           /\ h.currListFrame # <<>> => Opens(h, n) = Around(n, h.listFrames) \o List!Frame(h).endtags
           /\ h.currListFrame = <<>> => Opens(h, n) = Around(n, h.listFrames) \o TableTags(h.nestedTableCount)
           /\ h.currListFrame = <<>> /\ h.nestedTableCount = 0 => Opens(h, n) = Around(n, h.listFrames)
<1>1. Around(n, h.listFrames) \in Seq(Structs)
  BY HandlerFields, AroundOf
<1>2. CASE h.currListFrame # <<>>
  <2>1. List!Frame(h).endtags \in Seq(Structs)
    BY <1>2, HandlerFields, FrameTags
  <2>2. Opens(h, n) = Around(n, h.listFrames) \o List!Frame(h).endtags
    BY <1>2, Zenon DEF Opens
  <2> QED
    BY <1>1, <1>2, <2>1, <2>2, ConcatProperties
<1>3. CASE h.currListFrame = <<>>
  <2>1. TableTags(h.nestedTableCount) \in Seq(Structs) /\ TableTags(0) = <<>>
    BY HandlerFields, TableTagsOf
  <2>2. Opens(h, n) = Around(n, h.listFrames) \o TableTags(h.nestedTableCount)
    BY <1>3, Zenon DEF Opens
  <2>3. Opens(h, n) \in Seq(Structs)
    BY <1>1, <2>1, <2>2, ConcatProperties
  <2>4. h.nestedTableCount = 0 => Opens(h, n) = Around(n, h.listFrames)
    BY <1>1, <2>1, <2>2, ConcatEmptySeq
  <2> QED
    BY <1>1, <1>3, <2>2, <2>3, <2>4
<1> QED
  BY <1>2, <1>3

-----------------------------------------------------------------------------
(* ListHandler: its methods *)

\* Tables open in the input for h, n of them outside of all lists.
TablesOf(h, n) == n + Len(h.listFrames) + h.nestedTableCount

LEMMA TablesNumber ==
    ASSUME NEW h, HandlerOK(h), NEW n \in Nat
    PROVE  TablesOf(h, n) \in Nat
<1>1. Len(h.listFrames) \in Nat /\ h.nestedTableCount \in Nat
  BY HandlerFields
<1> QED
  BY <1>1 DEF TablesOf

\* A method that takes the handler from h to what res holds, the change of the
\* tables that are open being d.
StepOK(h, n, d, res) ==
    /\ HandlerOK(res.h)
    /\ \E m \in Nat : /\ GivesTags(Opens(h, n), res.tokens, Opens(res.h, m))
                      /\ TablesOf(res.h, m) = TablesOf(h, n) + d

LEMMA WithFrameOK ==
    ASSUME NEW h, HandlerOK(h), h.currListFrame # <<>>, NEW g \in OKFrames, NEW n \in Nat,
           g.endtags = List!Frame(h).endtags
    PROVE  /\ HandlerOK(List!WithFrame(h, g)) /\ List!Frame(List!WithFrame(h, g)) = g
           /\ List!WithFrame(h, g).currListFrame # <<>>
           /\ Opens(List!WithFrame(h, g), n) = Opens(h, n)
           /\ TablesOf(List!WithFrame(h, g), n) = TablesOf(h, n)
           /\ List!WithFrame(h, g).listFrames = h.listFrames
<1> DEFINE w == List!WithFrame(h, g)
<1>1. /\ w.currListFrame = <<g>> /\ w.listFrames = h.listFrames /\ w.any = h.any
      /\ w.nestedTableCount = h.nestedTableCount /\ w \in HandlerSet
  BY DEF List!WithFrame, HandlerOK, HandlerSet
<1> HIDE DEF w
<1>2. <<g>> # <<>> /\ List!Frame(w) = g
  BY <1>1 DEF List!Frame
<1>3. HandlerOK(w)
  BY <1>1, <1>2, HandlerFields DEF HandlerOK
<1>4. Opens(w, n) = Opens(h, n)
  BY <1>1, <1>2, Zenon DEF Opens
<1> QED
  BY <1>1, <1>2, <1>3, <1>4, Zenon DEF w, TablesOf

\* A frame that differs in its counts or in what it holds.
LEMMA FrameCounts ==
    ASSUME NEW f \in OKFrames, NEW g \in FrameSet, g.endtags = f.endtags, g.bstack = f.bstack
    PROVE  g \in OKFrames
  BY DEF OKFrames, FrameOK

LEMMA CountTagsOK ==
    ASSUME NEW f \in OKFrames, NEW t
    PROVE  /\ List!CountTags(f, t) \in OKFrames /\ List!CountTags(f, t).endtags = f.endtags
           /\ List!CountTags(f, t).atEOL = f.atEOL
<1>1. f \in FrameSet
  BY FrameTags
<1>2. CASE List!CountTags(f, t) = [f EXCEPT !.numOpenTags = f.numOpenTags + 1]
  <2>1. [f EXCEPT !.numOpenTags = f.numOpenTags + 1] \in FrameSet
    BY <1>1 DEF FrameSet
  <2>2. /\ [f EXCEPT !.numOpenTags = f.numOpenTags + 1].endtags = f.endtags
        /\ [f EXCEPT !.numOpenTags = f.numOpenTags + 1].bstack = f.bstack
        /\ [f EXCEPT !.numOpenTags = f.numOpenTags + 1].atEOL = f.atEOL
    BY <1>1 DEF FrameSet
  <2> QED
    BY <1>2, <2>1, <2>2, FrameCounts
<1>3. CASE f.numOpenTags > 0 /\ List!CountTags(f, t) = [f EXCEPT !.numOpenTags = f.numOpenTags - 1]
  <2>1. [f EXCEPT !.numOpenTags = f.numOpenTags - 1] \in FrameSet
    <3>1. f.numOpenTags \in Nat
      BY <1>1 DEF FrameSet
    <3>2. f.numOpenTags - 1 \in Nat
      BY <1>3, <3>1
    <3> QED
      BY ONLY <1>1, <3>2 DEF FrameSet
  <2>2. /\ [f EXCEPT !.numOpenTags = f.numOpenTags - 1].endtags = f.endtags
        /\ [f EXCEPT !.numOpenTags = f.numOpenTags - 1].bstack = f.bstack
        /\ [f EXCEPT !.numOpenTags = f.numOpenTags - 1].atEOL = f.atEOL
    BY <1>1 DEF FrameSet
  <2> QED
    BY <1>3, <2>1, <2>2, FrameCounts
<1>4. CASE List!CountTags(f, t) = f
  BY <1>4
<1> QED
  BY <1>2, <1>3, <1>4, Zenon DEF List!CountTags

\* The current list is closed.
LEMMA CloseListsOK ==
    ASSUME NEW h, HandlerOK(h), h.currListFrame # <<>>, NEW n \in Nat, NEW t \in ListTokens
    PROVE  LET res == List!closeLists(h, t)
           IN  /\ HandlerOK(res.h) /\ res.h.currListFrame = <<>> /\ res.h.listFrames = h.listFrames
               /\ res.h.nestedTableCount = 0 /\ h.nestedTableCount = 0
               /\ \A q : GivesTags(Around(n, h.listFrames), <<t>>, q) => GivesTags(Opens(h, n), res.tokens, q)
<1> DEFINE f == List!Frame(h)
           r == [h EXCEPT !.currListFrame = <<>>, !.any = h.any /\ h.listFrames # <<>>]
           o == Around(n, h.listFrames)
           k == Len(f.bstack)
           tokens == List!popTags(f, k) \o List!Held(f) \o <<t>>
<1>1. List!closeLists(h, t).h = r /\ List!closeLists(h, t).tokens = tokens
  BY DEF List!closeLists, List!Ret
<1>2. f \in OKFrames /\ h.nestedTableCount = 0 /\ h.any = TRUE
  BY HandlerFields
<1>3. /\ r.currListFrame = <<>> /\ r.listFrames = h.listFrames /\ r.nestedTableCount = h.nestedTableCount
      /\ r.any = (h.any /\ h.listFrames # <<>>) /\ r \in HandlerSet
  BY DEF HandlerOK, HandlerSet
<1>4. HandlerOK(r)
  <2> HIDE DEF r
  <2> QED
    BY <1>2, <1>3 DEF HandlerOK
<1>5. FrameOK(f) /\ f \in FrameSet /\ k \in Nat
  BY <1>2, FrameTags
<1>6. o \in Seq(Structs) /\ Opens(h, n) = o \o f.endtags
  BY OpensOf
<1> HIDE DEF f, o
<1>7. GivesTags(o \o f.endtags, List!popTags(f, k), o)
  <2>1. k \in 0..Len(f.bstack) /\ Len(f.bstack) - k = 0
    BY <1>5
  <2>2. /\ List!Popped(f, k) \in Seq(List!ListTags) /\ Len(List!Popped(f, k)) = 2 * (Len(f.bstack) - k)
        /\ GivesTags(o \o f.endtags, List!popTags(f, k), o \o List!Popped(f, k))
    BY <1>5, <1>6, <2>1, PopGives
  <2> HIDE DEF k
  <2>3. List!Popped(f, k) = <<>>
    BY <2>1, <2>2
  <2>4. o \o <<>> = o
    BY <1>6, ConcatEmptySeq
  <2> QED
    BY <2>2, <2>3, <2>4, Zenon
<1> HIDE DEF k
<1>8. GivesTags(o, List!Held(f), o)
  BY <1>5, <1>6, HeldIsPlain, PlainGives
<1>9. GivesTags(o \o f.endtags, List!popTags(f, k) \o List!Held(f), o)
  BY <1>7, <1>8, GivesConcat
<1>10. ASSUME NEW q, GivesTags(o, <<t>>, q) PROVE GivesTags(o \o f.endtags, tokens, q)
  BY <1>9, <1>10, GivesConcat
<1> HIDE DEF r, tokens
<1> QED
  BY <1>1, <1>2, <1>3, <1>4, <1>6, <1>10, Zenon DEF o

LEMMA PopFrameOK ==
    ASSUME NEW h, HandlerOK(h), h.currListFrame = <<>>, h.nestedTableCount = 0,
           h.any = TRUE \/ h.listFrames = <<>>, h.listFrames # <<>>, NEW n \in Nat
    PROVE  /\ HandlerOK(List!PopFrame(h))
           /\ Around(n, h.listFrames) = Append(Opens(List!PopFrame(h), n), "table")
           /\ TablesOf(List!PopFrame(h), n) = TablesOf(h, n) - 1
<1> DEFINE f == List!Last(h.listFrames)
           front == List!Front(h.listFrames)
           r == [h EXCEPT !.currListFrame = <<f>>, !.listFrames = front]
<1>1. h.listFrames \in Seq(OKFrames) /\ h.any = TRUE
  BY HandlerFields
<1>2. /\ f \in OKFrames /\ front \in Seq(OKFrames) /\ Append(front, f) = h.listFrames
      /\ Len(front) = Len(h.listFrames) - 1
  BY <1>1, LastTag
<1>3. List!PopFrame(h) = r
  BY Zenon DEF List!PopFrame
<1> HIDE DEF f, front
<1>4. /\ r.currListFrame = <<f>> /\ r.listFrames = front /\ r.any = TRUE /\ r.nestedTableCount = 0
      /\ r \in HandlerSet
  BY <1>1, <1>2 DEF HandlerOK, HandlerSet
<1> HIDE DEF r
<1>5. <<f>> # <<>> /\ List!Frame(r) = f
  BY <1>4 DEF List!Frame
<1>6. HandlerOK(r)
  BY <1>4, <1>5 DEF HandlerOK
<1>7. Around(n, h.listFrames) = Append(Around(n, front) \o f.endtags, "table")
  BY <1>2, AroundOf
<1>8. Opens(r, n) = Around(n, front) \o f.endtags
  BY <1>4, <1>5, Zenon DEF Opens
<1>9. TablesOf(r, n) = TablesOf(h, n) - 1
  BY <1>1, <1>2, <1>4 DEF TablesOf
<1> QED
  BY <1>3, <1>6, <1>7, <1>8, <1>9, Zenon

\* The tokens a page has between its bullets and its end.
GivenTokens == PlainTokens \cup {List!TagTk("table"), List!EndTagTk("table")}

TableTk == List!TagTk("table")
TableEnd == List!EndTagTk("table")

Delta(t) == IF t = TableTk THEN 1 ELSE IF t = TableEnd THEN -1 ELSE 0

LEMMA GivenKinds ==
    /\ TableTk \in ListTokens /\ TableEnd \in ListTokens /\ TableTk # TableEnd
    /\ \A t \in PlainTokens : t # TableTk /\ t # TableEnd /\ Delta(t) = 0 /\ t \in ListTokens
    /\ Delta(TableTk) = 1 /\ Delta(TableEnd) = -1
    /\ TableEnd.name = "table" /\ TableEnd.type = "EndTagTk" /\ TableTk.name = "table" /\ TableTk.type = "TagTk"
<1>1. TableTk \in ListTokens /\ TableEnd \in ListTokens
  BY ListTokenKinds, AreStructs DEF TableTk, TableEnd
<1>2. /\ TableTk # TableEnd
      /\ TableEnd.name = "table" /\ TableEnd.type = "EndTagTk" /\ TableTk.name = "table" /\ TableTk.type = "TagTk"
  BY DEF TableTk, TableEnd, List!TagTk, List!EndTagTk, List!Token
<1>3. \A t \in PlainTokens : t # TableTk /\ t # TableEnd
  <2> TAKE t \in PlainTokens
  <2>1. t.name # "table"
    BY DEF PlainTokens, List!TagTk, List!EndTagTk, List!Token, List!Text, List!NlTk, List!SolTk, List!EOFTk
  <2> QED
    BY <1>2, <2>1
<1>4. Delta(TableTk) = 1 /\ Delta(TableEnd) = -1
  BY <1>2 DEF Delta
<1>5. \A t \in PlainTokens : Delta(t) = 0 /\ t \in ListTokens
  BY <1>3, ListTokenKinds, Zenon DEF Delta
<1> QED
  BY <1>1, <1>2, <1>3, <1>4, <1>5

\* One token that is returned as it is.
LEMMA PlainToken ==
    ASSUME NEW o \in Seq(Structs), NEW t \in PlainTokens
    PROVE  GivesTags(o, <<t>>, o)
<1>1. <<t>> \in Seq(PlainTokens)
  OBVIOUS
<1> QED
  BY <1>1, PlainGives

LEMMA TableToken ==
    ASSUME NEW o \in Seq(Structs)
    PROVE  GivesTags(o, <<TableTk>>, Append(o, "table")) /\ GivesTags(Append(o, "table"), <<TableEnd>>, o)
<1>1. "table" \in Structs
  BY AreStructs
<1> QED
  BY <1>1, TagGives DEF TableTk, TableEnd

\* No list is current: the handler counts tables.
LEMMA AnyInTableOK ==
    ASSUME NEW h, HandlerOK(h), h.currListFrame = <<>>, h.any = TRUE, NEW n \in Nat, NEW t \in GivenTokens
    PROVE  StepOK(h, n, Delta(t), List!AnyInTable(h, t))
<1>1. h.listFrames \in Seq(OKFrames) /\ h.listFrames # <<>> /\ h.nestedTableCount \in Nat
  BY HandlerFields DEF HandlerOK
<1>2. /\ Around(n, h.listFrames) \in Seq(Structs) /\ Opens(h, n) \in Seq(Structs)
      /\ Opens(h, n) = Around(n, h.listFrames) \o TableTags(h.nestedTableCount)
      /\ h.nestedTableCount = 0 => Opens(h, n) = Around(n, h.listFrames)
  BY OpensOf
<1>3. List!AnyInTable(h, t).tokens = <<t>>
  BY DEF List!AnyInTable, List!Ret
<1>4. CASE t = TableEnd /\ h.nestedTableCount = 0
  <2> DEFINE r == List!PopFrame(h)
  <2>1. List!AnyInTable(h, t).h = r
    BY <1>4 DEF List!AnyInTable, List!Ret, TableEnd
  <2>2. HandlerOK(r) /\ Around(n, h.listFrames) = Append(Opens(r, n), "table") /\ TablesOf(r, n) = TablesOf(h, n) - 1
    BY <1>1, <1>4, PopFrameOK
  <2> HIDE DEF r
  <2>3. Opens(r, n) \in Seq(Structs)
    BY <2>2, OpensOf
  <2>4. GivesTags(Opens(h, n), <<t>>, Opens(r, n))
    BY <1>2, <1>4, <2>2, <2>3, TableToken, Zenon
  <2>5. TablesOf(r, n) = TablesOf(h, n) + Delta(t)
    <3>1. Delta(t) = -1 /\ TablesOf(h, n) \in Int
      BY <1>1, <1>4, GivenKinds DEF TablesOf
    <3> QED
      BY ONLY <2>2, <3>1
  <2> QED
    BY <1>3, <2>1, <2>2, <2>4, <2>5, Zenon DEF StepOK
<1>5. ASSUME NEW r, NEW k \in Nat, r = [h EXCEPT !.nestedTableCount = k]
      PROVE  /\ HandlerOK(r) /\ Opens(r, n) = Around(n, h.listFrames) \o TableTags(k)
             /\ TablesOf(r, n) = n + Len(h.listFrames) + k
  <2>1. /\ r.currListFrame = <<>> /\ r.listFrames = h.listFrames /\ r.any = h.any /\ r.nestedTableCount = k
        /\ r \in HandlerSet
    BY <1>5 DEF HandlerOK, HandlerSet
  <2>2. HandlerOK(r)
    BY <1>1, <2>1 DEF HandlerOK
  <2> QED
    BY <2>1, <2>2, Zenon DEF Opens, TablesOf
<1>6. CASE t = TableEnd /\ h.nestedTableCount # 0
  <2> DEFINE k == h.nestedTableCount - 1
             r == [h EXCEPT !.nestedTableCount = k]
  <2>1. List!AnyInTable(h, t).h = r
    BY <1>6 DEF List!AnyInTable, List!Ret, TableEnd
  <2>2. k \in Nat /\ h.nestedTableCount = k + 1
    BY <1>1, <1>6
  <2> HIDE DEF k
  <2>3. /\ HandlerOK(r) /\ Opens(r, n) = Around(n, h.listFrames) \o TableTags(k)
        /\ TablesOf(r, n) = n + Len(h.listFrames) + k
    BY <1>5, <2>2
  <2> HIDE DEF r
  <2>4. TableTags(k) \in Seq(Structs) /\ TableTags(k + 1) = Append(TableTags(k), "table") /\ "table" \in Structs
    BY <2>2, TableTagsOf, AreStructs
  <2>5. Opens(h, n) = Append(Opens(r, n), "table") /\ Opens(r, n) \in Seq(Structs)
    <3>1. Opens(h, n) = Around(n, h.listFrames) \o Append(TableTags(k), "table")
      BY <1>2, <2>2, <2>4, Zenon
    <3> DEFINE o == Around(n, h.listFrames)
               u == TableTags(k)
    <3>2. o \in Seq(Structs) /\ u \in Seq(Structs)
      BY <1>2, <2>4
    <3> HIDE DEF o, u
    <3>3. o \o u \in Seq(Structs) /\ o \o Append(u, "table") = Append(o \o u, "table")
      BY ONLY <2>4, <3>2
    <3> QED
      BY <2>3, <3>1, <3>3, Zenon DEF o, u
  <2>6. GivesTags(Opens(h, n), <<t>>, Opens(r, n))
    BY <1>6, <2>5, TableToken, Zenon
  <2>7. TablesOf(r, n) = TablesOf(h, n) + Delta(t)
    <3> DEFINE len == Len(h.listFrames)
    <3>0. len \in Nat
      BY <1>1
    <3> HIDE DEF len
    <3>1. Delta(t) = -1 /\ TablesOf(h, n) = n + len + (k + 1) /\ len \in Nat /\ TablesOf(r, n) = n + len + k
      BY <1>6, <2>2, <2>3, <3>0, GivenKinds, Zenon DEF TablesOf, len
    <3>2. n + len + k = (n + len + (k + 1)) + (-1)
      BY ONLY <2>2, <3>1, n \in Nat
    <3> QED
      BY <3>1, <3>2, Zenon
  <2> QED
    BY <1>3, <2>1, <2>3, <2>6, <2>7, Zenon DEF StepOK
<1>7. CASE t = TableTk
  <2> DEFINE k == h.nestedTableCount
             r == [h EXCEPT !.nestedTableCount = k + 1]
  <2>1. List!AnyInTable(h, t).h = r
    BY <1>7, GivenKinds DEF List!AnyInTable, List!Ret, TableTk, TableEnd
  <2>2. k \in Nat /\ k + 1 \in Nat
    BY <1>1
  <2>3. /\ HandlerOK(r) /\ Opens(r, n) = Around(n, h.listFrames) \o TableTags(k + 1)
        /\ TablesOf(r, n) = n + Len(h.listFrames) + (k + 1)
    BY <1>5, <2>2
  <2> HIDE DEF r
  <2>4. TableTags(k) \in Seq(Structs) /\ TableTags(k + 1) = Append(TableTags(k), "table") /\ "table" \in Structs
    BY <2>2, TableTagsOf, AreStructs
  <2>5. Opens(r, n) = Append(Opens(h, n), "table")
    <3> DEFINE o == Around(n, h.listFrames)
               u == TableTags(k)
    <3>1. o \in Seq(Structs) /\ u \in Seq(Structs) /\ Opens(h, n) = o \o u /\ Opens(r, n) = o \o Append(u, "table")
      BY <1>2, <2>3, <2>4
    <3> HIDE DEF o, u
    <3>2. o \o Append(u, "table") = Append(o \o u, "table")
      BY ONLY <2>4, <3>1
    <3> QED
      BY <3>1, <3>2, Zenon
  <2>6. GivesTags(Opens(h, n), <<t>>, Opens(r, n))
    BY <1>2, <1>7, <2>5, TableToken, Zenon
  <2>7. TablesOf(r, n) = TablesOf(h, n) + Delta(t)
    <3>1. Delta(t) = 1 /\ TablesOf(h, n) = n + Len(h.listFrames) + k /\ Len(h.listFrames) \in Nat
      BY <1>1, <1>7, GivenKinds DEF TablesOf
    <3> QED
      BY ONLY <2>2, <2>3, <3>1, n \in Nat
  <2> QED
    BY <1>3, <2>1, <2>3, <2>6, <2>7, Zenon DEF StepOK
<1>8. CASE t \in PlainTokens
  <2>1. List!AnyInTable(h, t).h = h
    BY <1>8, GivenKinds DEF List!AnyInTable, List!Ret, TableTk, TableEnd
  <2>2. GivesTags(Opens(h, n), <<t>>, Opens(h, n))
    BY <1>2, <1>8, PlainToken
  <2>3. TablesOf(h, n) = TablesOf(h, n) + Delta(t)
    <3>1. Delta(t) = 0 /\ TablesOf(h, n) \in Int
      BY <1>1, <1>8, GivenKinds DEF TablesOf
    <3> QED
      BY ONLY <3>1
  <2> QED
    BY <1>3, <2>1, <2>2, <2>3, Zenon DEF StepOK
<1> QED
  BY <1>4, <1>6, <1>7, <1>8, Zenon DEF GivenTokens, TableTk, TableEnd

\* The end tag of a table, or of a block.
LEMMA AnyBlockEndOK ==
    ASSUME NEW h, HandlerOK(h), h.currListFrame # <<>>, NEW n \in Nat, NEW t \in GivenTokens,
           t = TableEnd => TablesOf(h, n) > 0
    PROVE  t.name # "table" \/ t = TableEnd => StepOK(h, n, Delta(t), List!AnyBlockEnd(h, t))
<1> DEFINE res == List!closeLists(h, t)
           o == Around(n, h.listFrames)
<1>0. t \in ListTokens
  BY GivenKinds, Zenon DEF GivenTokens, TableTk, TableEnd
<1>1. /\ HandlerOK(res.h) /\ res.h.currListFrame = <<>> /\ res.h.listFrames = h.listFrames
      /\ res.h.nestedTableCount = 0 /\ h.nestedTableCount = 0
      /\ \A q : GivesTags(o, <<t>>, q) => GivesTags(Opens(h, n), res.tokens, q)
  BY <1>0, CloseListsOK
<1>2. o \in Seq(Structs) /\ Opens(res.h, n) = o /\ TablesOf(res.h, n) = TablesOf(h, n)
  <2>1. o \in Seq(Structs)
    BY OpensOf
  <2> HIDE DEF res
  <2>2. Opens(res.h, n) = Around(n, res.h.listFrames)
    BY <1>1, OpensOf
  <2> QED
    BY <1>1, <2>1, <2>2, Zenon DEF TablesOf
<1>3. h.listFrames \in Seq(OKFrames) /\ TablesOf(h, n) = n + Len(h.listFrames)
  <2>1. h.listFrames \in Seq(OKFrames)
    BY HandlerFields
  <2>2. Len(h.listFrames) \in Nat
    BY <2>1
  <2>3. n + Len(h.listFrames) + 0 = n + Len(h.listFrames)
    BY <2>2
  <2> QED
    BY <1>1, <2>1, <2>3, Zenon DEF TablesOf
<1> HIDE DEF res
<1>4. CASE t = TableEnd /\ h.listFrames # <<>>
  <2> DEFINE r == List!PopFrame(res.h)
  <2>1. List!AnyBlockEnd(h, t).h = r /\ List!AnyBlockEnd(h, t).tokens = res.tokens
    BY <1>4, GivenKinds DEF List!AnyBlockEnd, List!Ret, res
  <2>2. res.h.any = TRUE
    BY <1>1, <1>4, HandlerFields DEF HandlerOK
  <2>3. HandlerOK(r) /\ Around(n, res.h.listFrames) = Append(Opens(r, n), "table") /\ TablesOf(r, n) = TablesOf(res.h, n) - 1
    BY <1>1, <1>4, <2>2, PopFrameOK
  <2> HIDE DEF r
  <2>4. Opens(r, n) \in Seq(Structs)
    BY <2>3, OpensOf
  <2>5. GivesTags(o, <<t>>, Opens(r, n))
    BY <1>1, <1>4, <2>3, <2>4, TableToken, Zenon
  <2>6. TablesOf(r, n) = TablesOf(h, n) + Delta(t)
    <3>1. Delta(t) = -1 /\ TablesOf(h, n) \in Int
      BY <1>3, <1>4, GivenKinds
    <3> QED
      BY ONLY <1>2, <2>3, <3>1
  <2> QED
    BY <1>1, <2>1, <2>3, <2>5, <2>6, Zenon DEF StepOK
<1>5. CASE t = TableEnd /\ h.listFrames = <<>>
  <2> DEFINE r == [res.h EXCEPT !.currListFrame = <<>>]
             m == n - 1
  <2>1. List!AnyBlockEnd(h, t).h = r /\ List!AnyBlockEnd(h, t).tokens = res.tokens
    BY <1>1, <1>5, GivenKinds DEF List!AnyBlockEnd, List!Ret, List!PopFrame, res
  <2>2. r = res.h
    BY <1>1 DEF HandlerOK, HandlerSet
  <2> HIDE DEF r
  <2>3. m \in Nat /\ n = m + 1
    BY <1>3, <1>5
  <2> HIDE DEF m
  <2>4. /\ TableTags(m) \in Seq(Structs) /\ TableTags(n) = Append(TableTags(m), "table")
    BY <2>3, TableTagsOf
  <2>5. o = TableTags(n) /\ Opens(res.h, m) = TableTags(m)
    <3>1. \A k \in Nat : Around(k, <<>>) = TableTags(k)
      <4>1. <<>> \in Seq(OKFrames)
        OBVIOUS
      <4> QED
        BY <4>1, AroundOf
    <3>2. Opens(res.h, m) = Around(m, res.h.listFrames)
      BY <1>1, <2>3, OpensOf
    <3> QED
      BY <1>1, <1>5, <2>3, <3>1, <3>2
  <2>6. GivesTags(o, <<t>>, TableTags(m))
    BY <1>5, <2>4, <2>5, TableToken, Zenon
  <2>7. TablesOf(res.h, m) = TablesOf(h, n) + Delta(t)
    <3>1. Delta(t) = -1 /\ TablesOf(h, n) = n /\ TablesOf(res.h, m) = m
      BY <1>1, <1>3, <1>5, <2>3, GivenKinds DEF TablesOf
    <3> QED
      BY ONLY <2>3, <3>1
  <2> QED
    BY <1>1, <2>1, <2>2, <2>3, <2>5, <2>6, <2>7, Zenon DEF StepOK
<1>6. ASSUME t \in PlainTokens PROVE StepOK(h, n, Delta(t), List!AnyBlockEnd(h, t))
  <2>0. t.name # "table" /\ TablesOf(h, n) = TablesOf(h, n) + Delta(t)
    <3>1. TablesOf(h, n) \in Int
      BY <1>3
    <3>2. t.name # "table"
      BY <1>6 DEF PlainTokens, List!TagTk, List!EndTagTk, List!Token, List!Text, List!NlTk, List!SolTk, List!EOFTk
    <3>3. Delta(t) = 0
      BY <1>6, GivenKinds
    <3> QED
      BY <3>1, <3>2, <3>3
  <2>1. CASE List!Frame(h).numOpenBlockTags = 0
    <3>1. List!AnyBlockEnd(h, t) = res
      BY <2>0, <2>1, Zenon DEF List!AnyBlockEnd, res
    <3>2. GivesTags(o, <<t>>, o)
      BY <1>2, <1>6, PlainToken
    <3> QED
      BY <1>1, <1>2, <2>0, <3>1, <3>2, Zenon DEF StepOK
  <2>2. CASE List!Frame(h).numOpenBlockTags # 0
    <3> DEFINE f == List!Frame(h)
               k == f.numOpenBlockTags - 1
               g == [f EXCEPT !.numOpenBlockTags = k]
               w == List!WithFrame(h, g)
    <3>1. f \in OKFrames /\ f \in FrameSet
      BY HandlerFields, FrameTags
    <3>2. k \in Nat
      <4>1. f.numOpenBlockTags \in Nat
        BY <3>1 DEF FrameSet
      <4> QED
        BY <2>2, <4>1
    <3>3. List!AnyBlockEnd(h, t).h = w /\ List!AnyBlockEnd(h, t).tokens = <<t>>
      BY <2>0, <2>2 DEF List!AnyBlockEnd, List!Ret
    <3> HIDE DEF f, k
    <3>4. g \in FrameSet /\ g.endtags = f.endtags /\ g.bstack = f.bstack
      BY ONLY <3>1, <3>2 DEF FrameSet
    <3> HIDE DEF g
    <3>5. g \in OKFrames
      BY <3>1, <3>4, FrameCounts
    <3>6. HandlerOK(w) /\ Opens(w, n) = Opens(h, n) /\ TablesOf(w, n) = TablesOf(h, n)
      BY <3>4, <3>5, WithFrameOK DEF f
    <3> HIDE DEF w
    <3>7. GivesTags(Opens(h, n), <<t>>, Opens(h, n))
      BY <1>6, OpensOf, PlainToken
    <3> QED
      BY <2>0, <3>3, <3>6, <3>7, Zenon DEF StepOK
  <2> QED
    BY <2>1, <2>2
<1> QED
  BY <1>4, <1>5, <1>6, GivenKinds, Zenon DEF GivenTokens, TableTk, TableEnd

\* The first token of a line, and one within a line.
LEMMA AnyAtEOLOK ==
    ASSUME NEW h, HandlerOK(h), h.currListFrame # <<>>, NEW n \in Nat, NEW t \in GivenTokens,
           t # TableEnd, t = TableTk => h.listFrames = <<>>
    PROVE  StepOK(h, n, Delta(t), List!AnyAtEOL(h, t))
<1> DEFINE res == List!closeLists(h, t)
           o == Around(n, h.listFrames)
<1>0. t \in ListTokens /\ TablesOf(h, n) \in Int
  <2>1. TablesOf(h, n) \in Int
    BY TablesNumber
  <2>2. t \in ListTokens
    BY GivenKinds, Zenon DEF GivenTokens, TableTk, TableEnd
  <2> QED
    BY <2>1, <2>2
<1>1. /\ HandlerOK(res.h) /\ res.h.currListFrame = <<>> /\ res.h.listFrames = h.listFrames
      /\ res.h.nestedTableCount = 0 /\ h.nestedTableCount = 0
      /\ \A q : GivesTags(o, <<t>>, q) => GivesTags(Opens(h, n), res.tokens, q)
  BY <1>0, CloseListsOK
<1>2. o \in Seq(Structs)
  BY OpensOf
<1> HIDE DEF res
<1>3. \A m \in Nat : Opens(res.h, m) = Around(m, res.h.listFrames)
  BY <1>1, OpensOf
<1>4. CASE t = List!SolTk
  <2> DEFINE f == List!Frame(h)
             sol == f.solTokens \o f.nlTk \o <<t>>
             g == [f EXCEPT !.solTokens = sol, !.nlTk = <<>>]
             w == List!WithFrame(h, g)
  <2>1. List!AnyAtEOL(h, t).h = w /\ List!AnyAtEOL(h, t).tokens = <<>>
    BY <1>4 DEF List!AnyAtEOL, List!Ret
  <2>2. f \in OKFrames /\ f \in FrameSet
    BY HandlerFields, FrameTags
  <2>3. t \in PlainTokens
    BY <1>4 DEF PlainTokens
  <2>4. sol \in Seq(PlainTokens)
    <3>1. f.solTokens \in Seq(PlainTokens) /\ f.nlTk \in Seq(PlainTokens) /\ <<t>> \in Seq(PlainTokens)
      BY <2>2, <2>3, HeldIsPlain
    <3> QED
      BY <3>1, ConcatProperties
  <2> HIDE DEF f, sol
  <2>5. g \in FrameSet /\ g.endtags = f.endtags /\ g.bstack = f.bstack
    <3>1. <<>> \in Seq(PlainTokens)
      OBVIOUS
    <3> QED
      BY ONLY <2>2, <2>4, <3>1 DEF FrameSet
  <2> HIDE DEF g
  <2>6. g \in OKFrames
    BY <2>2, <2>5, FrameCounts
  <2>7. HandlerOK(w) /\ Opens(w, n) = Opens(h, n) /\ TablesOf(w, n) = TablesOf(h, n)
    BY <2>5, <2>6, WithFrameOK DEF f
  <2> HIDE DEF w
  <2>8. GivesTags(Opens(h, n), <<>>, Opens(h, n))
    BY OpensOf, GivesNone
  <2>9. TablesOf(h, n) = TablesOf(h, n) + Delta(t)
    BY <1>0, <2>3, GivenKinds
  <2> QED
    BY <2>1, <2>7, <2>8, <2>9, Zenon DEF StepOK
<1>5. CASE t \in PlainTokens /\ t # List!SolTk
  <2>1. List!AnyAtEOL(h, t) = res
    BY <1>5, Zenon DEF List!AnyAtEOL, res
  <2>2. GivesTags(o, <<t>>, o)
    BY <1>2, <1>5, PlainToken
  <2>3. Opens(res.h, n) = o /\ TablesOf(res.h, n) = TablesOf(h, n)
    BY <1>1, <1>3, Zenon DEF TablesOf
  <2>4. TablesOf(h, n) = TablesOf(h, n) + Delta(t)
    BY <1>0, <1>5, GivenKinds
  <2> QED
    BY <1>1, <2>1, <2>2, <2>3, <2>4, Zenon DEF StepOK
<1>6. CASE t = TableTk
  <2>1. List!AnyAtEOL(h, t) = res
    <3>1. t # List!SolTk
      BY <1>6, GivenKinds DEF PlainTokens
    <3> QED
      BY <3>1, Zenon DEF List!AnyAtEOL, res
  <2> DEFINE m == n + 1
  <2>2. m \in Nat /\ TableTags(n) \in Seq(Structs) /\ TableTags(m) = Append(TableTags(n), "table")
    <3>1. m \in Nat
      OBVIOUS
    <3> QED
      BY <3>1, TableTagsOf, Zenon
  <2>3. o = TableTags(n) /\ Opens(res.h, m) = TableTags(m)
    <3>1. \A k \in Nat : Around(k, <<>>) = TableTags(k)
      <4>1. <<>> \in Seq(OKFrames)
        OBVIOUS
      <4> QED
        BY <4>1, AroundOf
    <3> HIDE DEF m
    <3>2. Opens(res.h, m) = Around(m, res.h.listFrames)
      BY <1>3, <2>2
    <3> QED
      BY <1>1, <1>6, <2>2, <3>1, <3>2
  <2>4. GivesTags(o, <<t>>, TableTags(m))
    BY <1>6, <2>2, <2>3, TableToken, Zenon
  <2>5. TablesOf(res.h, m) = TablesOf(h, n) + Delta(t)
    <3>1. Delta(t) = 1 /\ Len(<<>>) = 0 /\ h.listFrames = <<>>
      BY <1>6, GivenKinds
    <3>2. TablesOf(h, n) = n + 0 + 0 /\ TablesOf(res.h, m) = m + 0 + 0
      BY <1>1, <3>1, Zenon DEF TablesOf
    <3> QED
      BY ONLY <2>2, <3>1, <3>2, n \in Nat DEF m
  <2> HIDE DEF m
  <2> QED
    BY <1>1, <2>1, <2>2, <2>3, <2>4, <2>5, Zenon DEF StepOK
<1> QED
  BY <1>4, <1>5, <1>6, Zenon DEF GivenTokens, TableTk, TableEnd

LEMMA PushFrameOK ==
    ASSUME NEW h, HandlerOK(h), h.currListFrame # <<>>, NEW n \in Nat
    PROVE  /\ HandlerOK(List!PushFrame(h)) /\ Opens(List!PushFrame(h), n) = Append(Opens(h, n), "table")
           /\ TablesOf(List!PushFrame(h), n) = TablesOf(h, n) + 1
<1> DEFINE f == List!Frame(h)
           frames == Append(h.listFrames, f)
           r == [h EXCEPT !.listFrames = frames, !.currListFrame = <<>>]
<1>1. List!PushFrame(h) = r
  BY Zenon DEF List!PushFrame
<1>2. f \in OKFrames /\ h.listFrames \in Seq(OKFrames) /\ h.any = TRUE /\ h.nestedTableCount = 0
  BY HandlerFields
<1>3. frames \in Seq(OKFrames) /\ frames # <<>> /\ Len(frames) = Len(h.listFrames) + 1
  BY <1>2, AppendProperties
<1> HIDE DEF frames, f
<1>4. /\ r.currListFrame = <<>> /\ r.listFrames = frames /\ r.any = TRUE /\ r.nestedTableCount = 0
      /\ r \in HandlerSet
  BY <1>2, <1>3 DEF HandlerOK, HandlerSet
<1> HIDE DEF r
<1>5. HandlerOK(r)
  BY <1>3, <1>4 DEF HandlerOK
<1>6. Opens(r, n) = Around(n, frames)
  BY <1>4, <1>5, OpensOf
<1>7. Around(n, frames) = Append(Around(n, h.listFrames) \o f.endtags, "table")
  BY <1>2, AroundOf DEF frames
<1>8. Opens(h, n) = Around(n, h.listFrames) \o f.endtags
  BY OpensOf DEF f
<1>9. TablesOf(r, n) = TablesOf(h, n) + 1
  <2>1. Len(h.listFrames) \in Nat
    BY <1>2
  <2> QED
    BY <1>2, <1>3, <1>4, <2>1 DEF TablesOf
<1> QED
  BY <1>1, <1>5, <1>6, <1>7, <1>8, <1>9, Zenon

LEMMA AnyInLineOK ==
    ASSUME NEW h, HandlerOK(h), h.currListFrame # <<>>, NEW n \in Nat, NEW t \in GivenTokens, t # TableEnd
    PROVE  StepOK(h, n, Delta(t), List!AnyInLine(h, t))
<1> DEFINE f == List!Frame(h)
<1>0. TablesOf(h, n) \in Int /\ f \in OKFrames /\ f \in FrameSet
  <2>1. TablesOf(h, n) \in Int
    BY TablesNumber
  <2>2. f \in OKFrames
    BY HandlerFields
  <2> QED
    BY <2>1, <2>2, FrameTags
<1>1. t \in PlainTokens => /\ GivesTags(Opens(h, n), <<t>>, Opens(h, n)) /\ GivesTags(Opens(h, n), <<>>, Opens(h, n))
                           /\ TablesOf(h, n) = TablesOf(h, n) + Delta(t)
  <2> SUFFICES ASSUME t \in PlainTokens
               PROVE  /\ GivesTags(Opens(h, n), <<t>>, Opens(h, n)) /\ GivesTags(Opens(h, n), <<>>, Opens(h, n))
                      /\ TablesOf(h, n) = TablesOf(h, n) + Delta(t)
    OBVIOUS
  <2>1. Opens(h, n) \in Seq(Structs)
    BY OpensOf
  <2>2. Delta(t) = 0
    BY GivenKinds
  <2>3. GivesTags(Opens(h, n), <<t>>, Opens(h, n)) /\ GivesTags(Opens(h, n), <<>>, Opens(h, n))
    BY <2>1, PlainToken, GivesNone
  <2> QED
    BY <1>0, <2>2, <2>3
<1>2. CASE t = List!NlTk
  <2> DEFINE g == [f EXCEPT !.atEOL = TRUE, !.nlTk = <<t>>, !.numOpenTags = 0]
             w == List!WithFrame(h, g)
  <2>1. List!AnyInLine(h, t).h = w /\ List!AnyInLine(h, t).tokens = <<>>
    <3>1. t.type # "TagTk" /\ t # List!TagTk("table")
      BY <1>2 DEF List!NlTk, List!TagTk, List!Token
    <3> QED
      BY <1>2, <3>1 DEF List!AnyInLine, List!Ret
  <2>2. t \in PlainTokens
    BY <1>2 DEF PlainTokens
  <2> HIDE DEF f
  <2>3. g \in FrameSet /\ g.endtags = f.endtags /\ g.bstack = f.bstack
    <3>1. <<t>> \in Seq(PlainTokens)
      BY <2>2
    <3> QED
      BY ONLY <1>0, <3>1 DEF FrameSet
  <2> HIDE DEF g
  <2>4. g \in OKFrames
    BY <1>0, <2>3, FrameCounts
  <2>5. HandlerOK(w) /\ Opens(w, n) = Opens(h, n) /\ TablesOf(w, n) = TablesOf(h, n)
    BY <2>3, <2>4, WithFrameOK DEF f
  <2> HIDE DEF w
  <2> QED
    BY <1>1, <2>1, <2>2, <2>5, Zenon DEF StepOK
<1>3. CASE t = TableTk
  <2>1. List!AnyInLine(h, t).h = List!PushFrame(h) /\ List!AnyInLine(h, t).tokens = <<t>>
    <3>1. t # List!NlTk /\ t = List!TagTk("table")
      BY <1>3, GivenKinds DEF PlainTokens, TableTk
    <3>2. t.name \notin List!BlockTags
      BY <1>3, GivenKinds DEF List!BlockTags
    <3> QED
      BY <3>1, <3>2 DEF List!AnyInLine, List!Ret
  <2>2. GivesTags(Opens(h, n), <<t>>, Append(Opens(h, n), "table"))
    BY <1>3, OpensOf, TableToken, Zenon
  <2>3. Delta(t) = 1
    BY <1>3, GivenKinds
  <2> QED
    BY <2>1, <2>2, <2>3, PushFrameOK, Zenon DEF StepOK
<1>4. CASE t \in PlainTokens /\ t # List!NlTk /\ t.type = "TagTk" /\ t.name \in List!BlockTags
  <2> DEFINE k == f.numOpenBlockTags + 1
             g == [f EXCEPT !.numOpenBlockTags = k]
             w == List!WithFrame(h, g)
  <2>1. List!AnyInLine(h, t).h = w /\ List!AnyInLine(h, t).tokens = <<t>>
    <3>1. t # List!TagTk("table")
      BY <1>4, GivenKinds DEF TableTk
    <3> QED
      BY <1>4, <3>1 DEF List!AnyInLine, List!Ret
  <2>2. k \in Nat
    BY <1>0 DEF FrameSet
  <2> HIDE DEF f, k
  <2>3. g \in FrameSet /\ g.endtags = f.endtags /\ g.bstack = f.bstack
    BY ONLY <1>0, <2>2 DEF FrameSet
  <2> HIDE DEF g
  <2>4. g \in OKFrames
    BY <1>0, <2>3, FrameCounts
  <2>5. HandlerOK(w) /\ Opens(w, n) = Opens(h, n) /\ TablesOf(w, n) = TablesOf(h, n)
    BY <2>3, <2>4, WithFrameOK DEF f
  <2> HIDE DEF w
  <2> QED
    BY <1>1, <1>4, <2>1, <2>5, Zenon DEF StepOK
<1>5. CASE t \in PlainTokens /\ t # List!NlTk /\ ~(t.type = "TagTk" /\ t.name \in List!BlockTags)
  <2>1. List!AnyInLine(h, t).h = h /\ List!AnyInLine(h, t).tokens = <<t>>
    <3>1. t # List!TagTk("table")
      BY <1>5, GivenKinds DEF TableTk
    <3> QED
      BY <1>5, <3>1 DEF List!AnyInLine, List!Ret
  <2> QED
    BY <1>1, <1>5, <2>1, Zenon DEF StepOK
<1> QED
  BY <1>2, <1>3, <1>4, <1>5, Zenon DEF GivenTokens, TableTk, TableEnd

\* What the handler miscounts tables for is not in the page.
Counted(h, t) == t = TableTk /\ h.listFrames # <<>> /\ h.currListFrame # <<>> => ~List!Frame(h).atEOL

LEMMA OnAnyOK ==
    ASSUME NEW h, HandlerOK(h), h.any = TRUE, NEW n \in Nat, NEW t \in GivenTokens,
           t = TableEnd => TablesOf(h, n) > 0, Counted(h, t)
    PROVE  StepOK(h, n, Delta(t), List!onAny(h, t))
<1>1. CASE h.currListFrame = <<>>
  <2>1. List!onAny(h, t) = List!AnyInTable(h, t)
    BY <1>1, Zenon DEF List!onAny
  <2> QED
    BY <1>1, <2>1, AnyInTableOK
<1>2. CASE h.currListFrame # <<>>
  <2> DEFINE g == List!CountTags(List!Frame(h), t)
             w == List!WithFrame(h, g)
  <2>1. List!onAny(h, t) = List!AnyInList(w, t)
    BY <1>2, Zenon DEF List!onAny
  <2>2. g \in OKFrames /\ g.endtags = List!Frame(h).endtags /\ g.atEOL = List!Frame(h).atEOL
    BY <1>2, HandlerFields, CountTagsOK
  <2> HIDE DEF g
  <2>3. /\ HandlerOK(w) /\ List!Frame(w) = g /\ w.currListFrame # <<>> /\ Opens(w, n) = Opens(h, n)
        /\ TablesOf(w, n) = TablesOf(h, n) /\ w.listFrames = h.listFrames
    BY <1>2, <2>2, WithFrameOK
  <2> HIDE DEF w
  <2>4. StepOK(w, n, Delta(t), List!AnyInList(w, t))
    <3>1. CASE t.type = "EndTagTk" /\ t.name \in List!BlockTags \cup {"table"}
      <4>1. List!AnyInList(w, t) = List!AnyBlockEnd(w, t)
        BY <3>1, Zenon DEF List!AnyInList
      <4>2. t.name # "table" \/ t = TableEnd
        <5>1. CASE t \in PlainTokens
          BY <5>1 DEF PlainTokens, List!TagTk, List!EndTagTk, List!Token, List!Text, List!NlTk, List!SolTk, List!EOFTk
        <5>2. t = TableTk => t.type # "EndTagTk"
          BY GivenKinds
        <5> QED
          BY <3>1, <5>1, <5>2, Zenon DEF GivenTokens, TableTk, TableEnd
      <4> QED
        BY <2>3, <4>1, <4>2, AnyBlockEndOK
    <3>2. CASE ~(t.type = "EndTagTk" /\ t.name \in List!BlockTags \cup {"table"})
      <4>1. t # TableEnd
        BY <3>2, GivenKinds
      <4>2. CASE List!Frame(w).atEOL
        <5>1. List!AnyInList(w, t) = List!AnyAtEOL(w, t)
          BY <3>2, <4>2, Zenon DEF List!AnyInList
        <5>2. t = TableTk => w.listFrames = <<>>
          BY <1>2, <2>2, <2>3, <4>2, Zenon DEF Counted
        <5> QED
          BY <2>3, <4>1, <5>1, <5>2, AnyAtEOLOK
      <4>3. CASE ~List!Frame(w).atEOL
        <5>1. List!AnyInList(w, t) = List!AnyInLine(w, t)
          BY <3>2, <4>3, Zenon DEF List!AnyInList
        <5> QED
          BY <2>3, <4>1, <5>1, AnyInLineOK
      <4> QED
        BY <4>2, <4>3
    <3> QED
      BY <3>1, <3>2
  <2> QED
    BY <2>1, <2>3, <2>4, Zenon DEF StepOK
<1> QED
  BY <1>1, <1>2

\* The item of a list: in the current frame, or a new one.
LEMMA DoListItemOK ==
    ASSUME NEW h, HandlerOK(h), h.nestedTableCount = 0, NEW n \in Nat,
           NEW f \in OKFrames, NEW bn \in Seq(Chars), bn # <<>>,
           \/ h.currListFrame # <<>> /\ f = List!Frame(h) /\ h.any = TRUE
           \/ h.currListFrame = <<>> /\ f = List!newListFrame
    PROVE  StepOK(h, n, 0, List!doListItem(h, f, bn))
<1> DEFINE bs == f.bstack
           prefix == List!commonPrefixLength(bs, bn)
           item == IF prefix = Len(bs) /\ Len(bn) = Len(bs) THEN List!SameNesting(f, bn)
                   ELSE IF /\ Len(bs) > prefix /\ Len(bn) > prefix
                           /\ List!isDtDd(bs[prefix + 1], bn[prefix + 1])
                          THEN List!DtDdTransition(f, bn, prefix)
                   ELSE List!OtherNesting(f, bn, prefix)
           o == Around(n, h.listFrames)
           g == [f EXCEPT !.bstack = bn, !.endtags = item.endtags, !.solTokens = <<>>,
                          !.nlTk = <<>>, !.atEOL = FALSE]
           r == [List!WithFrame(h, g) EXCEPT !.any = @ \/ (bs = <<>> /\ h.listFrames = <<>>)]
<1>1. List!doListItem(h, f, bn).h = r /\ List!doListItem(h, f, bn).tokens = item.tokens
  BY DEF List!doListItem, List!Ret
<1>2. FrameOK(f) /\ f \in FrameSet /\ bs \in Seq(Chars) /\ Len(bs) \in Nat /\ Len(bn) \in Nat
  BY FrameTags
<1>3. o \in Seq(Structs) /\ Opens(h, n) = o \o f.endtags
  <2>1. CASE h.currListFrame # <<>>
    BY <2>1, OpensOf
  <2>2. CASE h.currListFrame = <<>>
    <3>1. f.endtags = <<>>
      BY <2>2 DEF List!newListFrame
    <3>2. o \in Seq(Structs) /\ Opens(h, n) = o
      BY <2>2, OpensOf
    <3>3. o \o <<>> = o
      BY <3>2, ConcatEmptySeq
    <3> QED
      BY <3>1, <3>2, <3>3, Zenon
  <2> QED
    BY <2>1, <2>2
<1>4. prefix \in 0..Len(bs) /\ prefix \in 0..Len(bn)
  BY <1>2, PrefixLength
<1> HIDE DEF o, prefix
<1>5. ItemOK(f, bn, o, item)
  <2>1. CASE prefix = Len(bs) /\ Len(bn) = Len(bs)
    <3>1. ItemOK(f, bn, o, List!SameNesting(f, bn))
      BY <1>2, <1>3, <2>1, SameNestingOK
    <3> QED
      BY <2>1, <3>1, Zenon
  <2>2. CASE /\ ~(prefix = Len(bs) /\ Len(bn) = Len(bs))
             /\ Len(bs) > prefix /\ Len(bn) > prefix /\ List!isDtDd(bs[prefix + 1], bn[prefix + 1])
    <3>1. ItemOK(f, bn, o, List!DtDdTransition(f, bn, prefix))
      BY <1>2, <1>3, <1>4, <2>2, DtDdTransitionOK
    <3> QED
      BY <2>2, <3>1, Zenon
  <2>3. CASE /\ ~(prefix = Len(bs) /\ Len(bn) = Len(bs))
             /\ ~(Len(bs) > prefix /\ Len(bn) > prefix /\ List!isDtDd(bs[prefix + 1], bn[prefix + 1]))
    <3>1. ItemOK(f, bn, o, List!OtherNesting(f, bn, prefix))
      BY <1>2, <1>3, <1>4, OtherNestingOK
    <3> QED
      BY <2>3, <3>1, Zenon
  <2> QED
    BY <2>1, <2>2, <2>3, Zenon
<1> HIDE DEF item
<1>6. /\ item.endtags \in Seq(List!ListTags) /\ Len(item.endtags) = 2 * Len(bn)
      /\ GivesTags(o \o f.endtags, item.tokens, o \o item.endtags)
  BY <1>5, Zenon DEF ItemOK
<1>7. g \in OKFrames /\ g.endtags = item.endtags
  <2>1. <<>> \in Seq(PlainTokens)
    OBVIOUS
  <2>2. g \in FrameSet /\ g.endtags = item.endtags /\ g.bstack = bn
    BY ONLY <1>2, <1>6, <2>1, bn \in Seq(Chars) DEF FrameSet
  <2> HIDE DEF g
  <2> QED
    BY <1>6, <2>2, Zenon DEF OKFrames, FrameOK
<1>8. h.any \/ (bs = <<>> /\ h.listFrames = <<>>)
  <2>1. CASE h.currListFrame # <<>>
    BY <2>1
  <2>2. CASE h.currListFrame = <<>>
    <3>1. bs = <<>>
      BY <2>2 DEF List!newListFrame
    <3> QED
      BY <2>2, <3>1 DEF HandlerOK
  <2> QED
    BY <2>1, <2>2
<1> HIDE DEF bs, g
<1>9. /\ r.currListFrame = <<g>> /\ r.listFrames = h.listFrames /\ r.nestedTableCount = 0
      /\ r.any = TRUE /\ r \in HandlerSet
  BY <1>7, <1>8 DEF List!WithFrame, HandlerOK, HandlerSet
<1> HIDE DEF r
<1>10. <<g>> # <<>> /\ List!Frame(r) = g
  BY <1>9 DEF List!Frame
<1>11. HandlerOK(r)
  BY <1>9, <1>10 DEF HandlerOK
<1>12. Opens(r, n) = o \o item.endtags
  BY <1>7, <1>9, <1>10, Zenon DEF Opens, o
<1>13. TablesOf(r, n) = TablesOf(h, n) + 0
  <2>1. TablesOf(h, n) \in Nat
    BY TablesNumber
  <2>2. TablesOf(r, n) = TablesOf(h, n)
    BY <1>9, Zenon DEF TablesOf
  <2> QED
    BY <2>1, <2>2
<1> QED
  BY <1>1, <1>3, <1>6, <1>11, <1>12, <1>13, Zenon DEF StepOK

LEMMA OnListItemOK ==
    ASSUME NEW h, HandlerOK(h), h.nestedTableCount = 0, NEW n \in Nat, NEW t,
           t.bullets \in Seq(Chars), t.bullets # <<>>
    PROVE  StepOK(h, n, 0, List!onListItem(h, t))
<1>1. CASE h.currListFrame = <<>>
  <2>1. List!newListFrame \in OKFrames
    BY NewFrameOK DEF OKFrames, FrameOK
  <2>2. List!onListItem(h, t) = List!doListItem(h, List!newListFrame, t.bullets)
    BY <1>1, Zenon DEF List!onListItem
  <2> QED
    BY <1>1, <2>1, <2>2, DoListItemOK
<1>2. CASE h.currListFrame # <<>>
  <2>1. h.any = TRUE /\ List!Frame(h) \in OKFrames
    BY <1>2, HandlerFields
  <2>2. CASE List!onListItem(h, t) = List!onAny(h, List!Text)
    <3> DEFINE x == List!Text
    <3>1. x \in PlainTokens /\ x \in GivenTokens
      BY DEF PlainTokens, GivenTokens
    <3>2. Delta(x) = 0 /\ x # TableEnd /\ x # TableTk
      BY <3>1, GivenKinds
    <3> HIDE DEF x
    <3>3. Counted(h, x)
      BY <3>2 DEF Counted
    <3>4. StepOK(h, n, Delta(x), List!onAny(h, x))
      BY <2>1, <3>1, <3>2, <3>3, OnAnyOK
    <3> QED
      BY <2>2, <3>2, <3>4, Zenon DEF x
  <2>3. CASE List!onListItem(h, t) = List!doListItem(h, List!Frame(h), t.bullets)
    BY <1>2, <2>1, <2>3, DoListItemOK
  <2> QED
    BY <1>2, <2>2, <2>3, Zenon DEF List!onListItem
<1> QED
  BY <1>1, <1>2

\* Before the first list, tokens are not for the handler.
LEMMA PassesOK ==
    ASSUME NEW h, HandlerOK(h), h.any = FALSE, NEW n \in Nat, NEW t \in GivenTokens,
           t = TableEnd => TablesOf(h, n) > 0
    PROVE  StepOK(h, n, Delta(t), List!Ret(h, <<t>>))
<1>1. h.currListFrame = <<>> /\ h.listFrames = <<>> /\ h.nestedTableCount = 0
  <2>1. h.currListFrame = <<>> /\ h.listFrames = <<>>
    BY DEF HandlerOK
  <2>2. h.nestedTableCount \in Nat
    BY HandlerFields
  <2> QED
    BY <2>1, <2>2 DEF HandlerOK
<1>2. \A m \in Nat : Opens(h, m) = TableTags(m) /\ TablesOf(h, m) = m
  <2> TAKE m \in Nat
  <2>1. Opens(h, m) = Around(m, <<>>)
    BY <1>1, OpensOf
  <2>2. <<>> \in Seq(OKFrames) /\ Len(<<>>) = 0
    OBVIOUS
  <2>3. Around(m, <<>>) = TableTags(m)
    BY <2>2, AroundOf
  <2>4. TablesOf(h, m) = m + 0 + 0
    BY <1>1, <2>2, Zenon DEF TablesOf
  <2> QED
    BY <2>1, <2>3, <2>4
<1>3. List!Ret(h, <<t>>).h = h /\ List!Ret(h, <<t>>).tokens = <<t>>
  BY DEF List!Ret
<1>4. CASE t = TableTk
  <2>1. n + 1 \in Nat /\ Delta(t) = 1
    BY <1>4, GivenKinds
  <2>2. GivesTags(TableTags(n), <<t>>, TableTags(n + 1))
    BY <1>4, TableTagsOf, TableToken
  <2> QED
    BY <1>2, <1>3, <2>1, <2>2, Zenon DEF StepOK
<1>5. CASE t = TableEnd
  <2> DEFINE m == n - 1
  <2>1. m \in Nat /\ n = m + 1 /\ Delta(t) = -1
    <3>1. n > 0
      BY <1>2, <1>5
    <3> QED
      BY <1>5, <3>1, GivenKinds
  <2> HIDE DEF m
  <2>2. GivesTags(TableTags(n), <<t>>, TableTags(m))
    BY <1>5, <2>1, TableTagsOf, TableToken
  <2>3. m = n + (-1)
    BY <2>1
  <2> QED
    BY <1>2, <1>3, <2>1, <2>2, <2>3, Zenon DEF StepOK
<1>6. CASE t \in PlainTokens
  <2>1. n = n + 0 /\ Delta(t) = 0
    BY <1>6, GivenKinds
  <2>2. GivesTags(TableTags(n), <<t>>, TableTags(n))
    BY <1>6, TableTagsOf, PlainToken
  <2> QED
    BY <1>2, <1>3, <2>1, <2>2, Zenon DEF StepOK
<1> QED
  BY <1>4, <1>5, <1>6, Zenon DEF GivenTokens, TableTk, TableEnd

LEMMA NewHandlerOK ==
    /\ HandlerOK(List!NewHandler) /\ Opens(List!NewHandler, 0) = <<>> /\ TablesOf(List!NewHandler, 0) = 0
<1> DEFINE h == List!NewHandler
<1>1. h.currListFrame = <<>> /\ h.listFrames = <<>> /\ h.nestedTableCount = 0 /\ h.any = FALSE /\ h \in HandlerSet
  BY DEF List!NewHandler, HandlerSet
<1> HIDE DEF h
<1>2. HandlerOK(h)
  BY <1>1 DEF HandlerOK
<1>3. Opens(h, 0) = Around(0, <<>>)
  <2>1. 0 \in Nat
    OBVIOUS
  <2> QED
    BY <1>1, <1>2, <2>1, OpensOf, Zenon
<1>4. <<>> \in Seq(OKFrames) /\ Len(<<>>) = 0
  OBVIOUS
<1>5. Around(0, <<>>) = TableTags(0) /\ TableTags(0) = <<>>
  BY <1>4, AroundOf, TableTagsOf
<1>6. TablesOf(h, 0) = 0 + 0 + 0
  BY <1>1, <1>4, Zenon DEF TablesOf
<1> QED
  BY <1>2, <1>3, <1>5, <1>6 DEF h

\* The end of the page.
LEMMA OnEndOK ==
    ASSUME NEW h, HandlerOK(h), NEW n \in Nat
    PROVE  LET res == List!onEnd(h, List!EOFTk)
           IN  /\ res.h = List!NewHandler
               /\ \E q : GivesTags(Opens(h, n), res.tokens, q) /\ (TablesOf(h, n) = 0 => q = <<>>)
<1> DEFINE t == List!EOFTk
           h1 == IF h.currListFrame = <<>> THEN List!WithFrame(h, List!newListFrame) ELSE h
           h2 == [h1 EXCEPT !.listFrames = <<>>]
           res == List!closeLists(h2, t)
           f == List!Frame(h2)
           tokens == List!popTags(f, Len(f.bstack)) \o List!Held(f) \o <<t>>
<1>0. h \in HandlerSet
  BY DEF HandlerOK
<1>1. List!onEnd(h, t).h = [res.h EXCEPT !.nestedTableCount = 0] /\ List!onEnd(h, t).tokens = res.tokens
  BY DEF List!onEnd, List!Ret
<1>2. res.h = [h2 EXCEPT !.currListFrame = <<>>, !.any = h2.any /\ h2.listFrames # <<>>] /\ res.tokens = tokens
  BY DEF List!closeLists, List!Ret
<1>3. List!newListFrame \in OKFrames
  BY NewFrameOK DEF OKFrames, FrameOK
<1>4. /\ h2 \in [currListFrame : {<<x>> : x \in OKFrames}, listFrames : {<<>>}, nestedTableCount : Nat, any : BOOLEAN]
      /\ f = IF h.currListFrame = <<>> THEN List!newListFrame ELSE List!Frame(h)
  <2>1. CASE h.currListFrame = <<>>
    BY <1>0, <1>3, <2>1 DEF HandlerSet, List!WithFrame, List!Frame
  <2>2. CASE h.currListFrame # <<>>
    <3>1. h.currListFrame \in {<<x>> : x \in OKFrames}
      BY <1>0, <2>2 DEF HandlerSet
    <3> QED
      BY <1>0, <2>2, <3>1 DEF HandlerSet, List!Frame
  <2> QED
    BY <2>1, <2>2
<1>5. List!onEnd(h, t).h = List!NewHandler
  <2> HIDE DEF h2
  <2>1. (h2.any /\ h2.listFrames # <<>>) = FALSE
    BY <1>4
  <2>2. res.h = [h2 EXCEPT !.currListFrame = <<>>, !.any = FALSE]
    BY <1>2, <2>1, Zenon
  <2> HIDE DEF res
  <2>3. [[h2 EXCEPT !.currListFrame = <<>>, !.any = FALSE] EXCEPT !.nestedTableCount = 0] = List!NewHandler
    <3> DEFINE r == [[h2 EXCEPT !.currListFrame = <<>>, !.any = FALSE] EXCEPT !.nestedTableCount = 0]
               New == [currListFrame : {<<>>}, listFrames : {<<>>}, nestedTableCount : {0}, any : {FALSE}]
    <3>1. r \in New
      BY ONLY <1>4
    <3> HIDE DEF r
    <3>2. /\ r.currListFrame = <<>> /\ r.listFrames = <<>> /\ r.nestedTableCount = 0 /\ r.any = FALSE
          /\ r = [currListFrame |-> r.currListFrame, listFrames |-> r.listFrames,
                  nestedTableCount |-> r.nestedTableCount, any |-> r.any]
      BY ONLY <3>1
    <3> QED
      BY ONLY <3>2, Zenon DEF List!NewHandler, r
  <2> QED
    BY <1>1, <2>2, <2>3, Zenon
<1> HIDE DEF h2, res
<1>6. t \in PlainTokens /\ t \in ListTokens
  BY GivenKinds DEF PlainTokens
<1>7. CASE h.currListFrame = <<>>
  <2>1. tokens = <<t>>
    <3>1. f = List!newListFrame
      BY <1>4, <1>7
    <3>2. List!popTags(f, 0) = <<>> /\ Len(f.bstack) = 0 /\ List!Held(f) = <<>>
      BY <3>1 DEF List!newListFrame, List!popTags, List!Held, List!EndTags, List!Reverse
    <3>3. <<>> \o <<>> = <<>> /\ <<>> \o <<t>> = <<t>>
      OBVIOUS
    <3> HIDE DEF f, t
    <3> QED
      BY <3>2, <3>3, Zenon
  <2>2. Opens(h, n) \in Seq(Structs)
    BY OpensOf
  <2>3. GivesTags(Opens(h, n), tokens, Opens(h, n))
    BY <1>6, <2>1, <2>2, PlainToken, Zenon
  <2>4. TablesOf(h, n) = 0 => Opens(h, n) = <<>>
    <3> SUFFICES ASSUME TablesOf(h, n) = 0 PROVE Opens(h, n) = <<>>
      OBVIOUS
    <3>1. Len(h.listFrames) \in Nat /\ h.nestedTableCount \in Nat /\ h.listFrames \in Seq(OKFrames)
      BY HandlerFields
    <3>2. n = 0 /\ Len(h.listFrames) = 0 /\ h.nestedTableCount = 0
      BY <3>1 DEF TablesOf
    <3>3. h.listFrames = <<>>
      BY <3>1, <3>2
    <3>4. Opens(h, n) = Around(n, h.listFrames)
      BY <1>7, <3>2, OpensOf
    <3>5. Around(n, h.listFrames) = TableTags(n)
      BY <3>1, <3>3, AroundOf
    <3> QED
      BY <3>2, <3>4, <3>5, TableTagsOf
  <2> QED
    BY <1>1, <1>2, <1>5, <2>3, <2>4, Zenon
<1>8. CASE h.currListFrame # <<>>
  <2>1. f = List!Frame(h)
    BY <1>4, <1>8
  <2>2. List!closeLists(h, t).tokens = tokens
    BY <2>1 DEF List!closeLists, List!Ret
  <2> DEFINE o == Around(n, h.listFrames)
  <2>3. o \in Seq(Structs)
    BY OpensOf
  <2>4. GivesTags(o, <<t>>, o)
    BY <1>6, <2>3, PlainToken
  <2>5. GivesTags(Opens(h, n), tokens, o)
    BY <1>6, <1>8, <2>2, <2>4, CloseListsOK
  <2>6. TablesOf(h, n) = 0 => o = <<>>
    <3> SUFFICES ASSUME TablesOf(h, n) = 0 PROVE o = <<>>
      OBVIOUS
    <3>1. Len(h.listFrames) \in Nat /\ h.nestedTableCount \in Nat /\ h.listFrames \in Seq(OKFrames)
      BY HandlerFields
    <3>2. n = 0 /\ Len(h.listFrames) = 0
      BY <3>1 DEF TablesOf
    <3>3. h.listFrames = <<>>
      BY <3>1, <3>2
    <3>5. Around(n, h.listFrames) = TableTags(n)
      BY <3>1, <3>3, AroundOf
    <3> QED
      BY <3>2, <3>5, TableTagsOf
  <2> HIDE DEF o, tokens
  <2> QED
    BY <1>1, <1>2, <1>5, <2>5, <2>6, Zenon
<1> QED
  BY <1>5, <1>7, <1>8, Zenon

-----------------------------------------------------------------------------
(* ListHandler: the invariant *)

ListInv ==
    /\ HandlerOK(handler) /\ nested = TRUE /\ tables \in Nat
    /\ input = List!EOFTk => handler = List!NewHandler
    /\ ~List!Ended => \E n \in Nat : open = Opens(handler, n) /\ tables = TablesOf(handler, n)

LEMMA ListBegins ==
    ASSUME List!Init
    PROVE  ListInv
<1>1. handler = List!NewHandler /\ nested = TRUE /\ tables = 0 /\ open = <<>>
  BY Zenon DEF List!Init
<1> QED
  BY <1>1, NewHandlerOK DEF ListInv

\* What a consumer has open after the tokens.
LEMMA ConsumedBy ==
    ASSUME NEW o, NEW s, NEW q, GivesTags(o, s, q), open = o, nested = TRUE
    PROVE  List!FoldLeft(List!Consume, [open |-> open, nested |-> nested], s) = OpenTags(q)
           /\ OpenTags(q).open = q /\ OpenTags(q).nested = TRUE
<1>1. [open |-> open, nested |-> nested] = OpenTags(o)
  BY DEF OpenTags
<1> QED
  BY <1>1, Zenon DEF GivesTags, OpenTags

\* A token that is not the end of the page, and what a method makes of it.
LEMMA GiveOK ==
    ASSUME ListInv, NEW t, NEW d \in Int, List!Give(t), tables' = tables + d, t # List!EOFTk,
           tables' \in Nat,
           \A n \in Nat : tables = TablesOf(handler, n) => StepOK(handler, n, d, List!Transform(handler, t))
    PROVE  ListInv'
<1> DEFINE res == List!Transform(handler, t)
           tags == List!FoldLeft(List!Consume, [open |-> open, nested |-> nested], res.tokens)
<1>1. /\ ~List!Ended /\ handler' = res.h /\ input' = t /\ open' = tags.open /\ nested' = tags.nested
  BY Zenon DEF List!Give
<1>2. PICK n \in Nat : open = Opens(handler, n) /\ tables = TablesOf(handler, n)
  BY <1>1, Zenon DEF ListInv
<1>3. StepOK(handler, n, d, res)
  BY <1>2
<1>4. HandlerOK(res.h)
  BY <1>3, Zenon DEF StepOK
<1>5. PICK m \in Nat : GivesTags(Opens(handler, n), res.tokens, Opens(res.h, m)) /\ TablesOf(res.h, m) = TablesOf(handler, n) + d
  BY <1>3, Zenon DEF StepOK
<1>6. tags = OpenTags(Opens(res.h, m)) /\ OpenTags(Opens(res.h, m)).open = Opens(res.h, m) /\ OpenTags(Opens(res.h, m)).nested = TRUE
  BY <1>2, <1>5, ConsumedBy, Zenon DEF ListInv
<1> HIDE DEF res, tags
<1>7. open' = Opens(handler', m) /\ tables' = TablesOf(handler', m) /\ nested' = TRUE
  BY <1>1, <1>2, <1>5, <1>6, Zenon
<1>8. input' # List!EOFTk
  BY <1>1
<1> QED
  BY <1>1, <1>4, <1>7, <1>8, Zenon DEF ListInv

LEMMA EndOK ==
    ASSUME ListInv, List!GiveEnd
    PROVE  ListInv'
<1> DEFINE t == List!EOFTk
           res == List!Transform(handler, t)
           tags == List!FoldLeft(List!Consume, [open |-> open, nested |-> nested], res.tokens)
<1>1. /\ ~List!Ended /\ handler' = res.h /\ input' = t /\ open' = tags.open /\ nested' = tags.nested /\ tables' = tables
  BY Zenon DEF List!GiveEnd, List!Give
<1>2. res = List!onEnd(handler, t)
  <2>1. t.type # "listItem"
    BY DEF List!EOFTk, List!Token
  <2> QED
    BY <2>1 DEF List!Transform
<1>3. PICK n \in Nat : open = Opens(handler, n) /\ tables = TablesOf(handler, n)
  BY <1>1, Zenon DEF ListInv
<1>4. HandlerOK(handler)
  BY DEF ListInv
<1>5. /\ res.h = List!NewHandler
      /\ \E q : GivesTags(Opens(handler, n), res.tokens, q) /\ (TablesOf(handler, n) = 0 => q = <<>>)
  BY <1>2, <1>4, OnEndOK
<1>6. PICK q : GivesTags(Opens(handler, n), res.tokens, q) /\ (TablesOf(handler, n) = 0 => q = <<>>)
  BY <1>5
<1>7. tags = OpenTags(q) /\ OpenTags(q).open = q /\ OpenTags(q).nested = TRUE
  BY <1>3, <1>6, ConsumedBy, Zenon DEF ListInv
<1> HIDE DEF res, tags
<1>8. handler' = List!NewHandler /\ nested' = TRUE /\ open' = q
  BY <1>1, <1>5, <1>7, Zenon
<1>9. ~List!Ended' => tables' = 0
  <2>1. tables \in Nat /\ (List!Ended' <=> tables' > 0)
    BY <1>1, Zenon DEF List!Ended, ListInv
  <2> QED
    BY <1>1, <2>1
<1>10. tables' = 0 => open' = Opens(handler', 0) /\ tables' = TablesOf(handler', 0) /\ 0 \in Nat
  <2> SUFFICES ASSUME tables' = 0
               PROVE  open' = Opens(handler', 0) /\ tables' = TablesOf(handler', 0) /\ 0 \in Nat
    OBVIOUS
  <2>1. q = <<>>
    BY <1>1, <1>3, <1>6
  <2> QED
    BY <1>8, <2>1, NewHandlerOK, Zenon
<1>11. HandlerOK(handler')
  BY <1>8, NewHandlerOK, Zenon
<1> QED
  BY <1>1, <1>8, <1>9, <1>10, <1>11, Zenon DEF ListInv

\* What Transform does with a token that is not the end of the page.
LEMMA TransformOK ==
    ASSUME NEW h, HandlerOK(h), NEW n \in Nat, NEW t \in GivenTokens, t # List!EOFTk,
           t = TableEnd => TablesOf(h, n) > 0, Counted(h, t)
    PROVE  StepOK(h, n, Delta(t), List!Transform(h, t))
<1>1. t.type # "listItem"
  BY DEF GivenTokens, PlainTokens, List!TagTk, List!EndTagTk, List!Token, List!Text, List!NlTk, List!SolTk, List!EOFTk
<1>2. List!Transform(h, t) = IF h.any THEN List!onAny(h, t) ELSE List!Ret(h, <<t>>)
  BY <1>1 DEF List!Transform
<1>3. h.any \in BOOLEAN
  BY HandlerFields
<1>4. CASE h.any = TRUE
  BY <1>2, <1>4, OnAnyOK
<1>5. CASE h.any = FALSE
  BY <1>2, <1>5, PassesOK
<1> QED
  BY <1>3, <1>4, <1>5

LEMMA GivenOK ==
    ASSUME ListInv, NEW t \in GivenTokens, t # List!EOFTk, List!Give(t), tables' = tables + Delta(t),
           tables' \in Nat, t = TableEnd => tables > 0
    PROVE  ListInv'
<1>1. HandlerOK(handler)
  BY DEF ListInv
<1>2. Counted(handler, t)
  <2>1. ~List!Miscounted(t)
    BY DEF List!Give
  <2> QED
    BY <2>1 DEF List!Miscounted, Counted, TableTk
<1>3. \A n \in Nat : tables = TablesOf(handler, n) => StepOK(handler, n, Delta(t), List!Transform(handler, t))
  BY <1>1, <1>2, TransformOK
<1>4. Delta(t) \in Int
  BY DEF Delta
<1> QED
  BY <1>3, <1>4, GiveOK

LEMMA ListNext ==
    ASSUME ListInv, List!Next
    PROVE  ListInv'
<1>1. HandlerOK(handler) /\ tables \in Nat
  BY DEF ListInv
<1>2. CASE List!GiveItem
  <2>1. PICK b \in Bullets : List!Give(List!ListItem(b)) /\ tables' = tables
    BY <1>2, Zenon DEF List!GiveItem
  <2> DEFINE t == List!ListItem(b)
  <2>2. t.type = "listItem" /\ t.bullets = b /\ t # List!EOFTk
    BY DEF List!ListItem, List!EOFTk, List!Token
  <2>3. b \in Seq(Chars) /\ b # <<>>
    BY TokenHandlersAssumption DEF TokenHandlersAssumption, Chars
  <2>4. handler.nestedTableCount = 0
    <3>1. ~List!Miscounted(t)
      BY <2>1 DEF List!Give
    <3>2. handler.nestedTableCount \in Nat
      BY <1>1, HandlerFields
    <3> QED
      BY <2>2, <3>1, <3>2 DEF List!Miscounted
  <2>5. List!Transform(handler, t) = List!onListItem(handler, t)
    BY <2>2 DEF List!Transform
  <2>6. List!Give(t) /\ tables' = tables + 0 /\ tables' \in Nat
    BY <1>1, <2>1
  <2> HIDE DEF t
  <2>7. \A n \in Nat : StepOK(handler, n, 0, List!Transform(handler, t))
    BY <1>1, <2>2, <2>3, <2>4, <2>5, OnListItemOK
  <2> QED
    BY <2>2, <2>6, <2>7, GiveOK
<1>3. ASSUME NEW t \in PlainTokens, t # List!EOFTk, List!Give(t), UNCHANGED tables PROVE ListInv'
  <2>1. t \in GivenTokens /\ Delta(t) = 0 /\ t # TableEnd
    BY GivenKinds DEF GivenTokens
  <2>2. tables' = tables + Delta(t) /\ tables' \in Nat
    BY <1>1, <1>3, <2>1
  <2> QED
    BY <1>3, <2>1, <2>2, GivenOK
<1>4. CASE List!GiveText
  <2>1. PICK t \in {List!Text, List!NlTk} : List!Give(t) /\ UNCHANGED tables
    BY <1>4, Zenon DEF List!GiveText
  <2>2. t \in PlainTokens /\ t # List!EOFTk
    BY DEF PlainTokens, List!Text, List!NlTk, List!EOFTk, List!Token
  <2> QED
    BY <1>3, <2>1, <2>2
<1>5. CASE List!GiveSol
  <2>1. List!SolTk \in PlainTokens /\ List!SolTk # List!EOFTk
    BY DEF PlainTokens, List!SolTk, List!EOFTk, List!Token
  <2>2. List!Give(List!SolTk) /\ UNCHANGED tables
    BY <1>5, Zenon DEF List!GiveSol
  <2> QED
    BY <1>3, <2>1, <2>2
<1>6. CASE List!GiveTag
  <2>1. \E t \in {List!TagTk("div"), List!TagTk("b"), List!EndTagTk("div"), List!EndTagTk("b")} : List!Give(t)
    BY <1>6 DEF List!GiveTag
  <2>2. PICK t \in {List!TagTk("div"), List!TagTk("b"), List!EndTagTk("div"), List!EndTagTk("b")} : List!Give(t)
    BY <2>1
  <2>3. t \in PlainTokens /\ t # List!EOFTk
    <3>1. t \in PlainTokens
      BY DEF PlainTokens
    <3>2. t.type # List!EOFTk.type
      BY DEF List!TagTk, List!EndTagTk, List!EOFTk, List!Token
    <3> QED
      BY <3>1, <3>2
  <2>4. UNCHANGED tables
    BY <1>6, Zenon DEF List!GiveTag
  <2> QED
    BY <1>3, <2>2, <2>3, <2>4
<1>7. CASE List!GiveTable
  <2>0. TableTk # List!EOFTk /\ TableEnd # List!EOFTk /\ TableTk \in GivenTokens /\ TableEnd \in GivenTokens
    BY DEF TableTk, TableEnd, List!TagTk, List!EndTagTk, List!EOFTk, List!Token, GivenTokens
  <2>1. CASE List!Give(TableTk) /\ tables' = tables + 1
    <3>1. Delta(TableTk) = 1 /\ TableTk # TableEnd
      BY GivenKinds
    <3> QED
      BY <1>1, <2>0, <2>1, <3>1, GivenOK
  <2>2. CASE tables > 0 /\ List!Give(TableEnd) /\ tables' = tables - 1
    <3>1. Delta(TableEnd) = -1
      BY GivenKinds
    <3>2. tables' = tables + Delta(TableEnd) /\ tables' \in Nat
      BY <1>1, <2>2, <3>1
    <3> QED
      BY <2>0, <2>2, <3>2, GivenOK
  <2> QED
    BY <1>7, <2>1, <2>2, Zenon DEF List!GiveTable, TableTk, TableEnd
<1>8. CASE List!GiveEnd
  BY <1>8, EndOK
<1>9. CASE List!NewPage
  <2>1. /\ List!Ended /\ tables' = 0 /\ open' = <<>> /\ handler' = handler /\ input' = input /\ nested' = nested
    BY <1>9, Zenon DEF List!NewPage
  <2>2. handler = List!NewHandler /\ input = List!EOFTk
    BY <2>1, Zenon DEF List!Ended, ListInv
  <2>3. HandlerOK(handler') /\ open' = Opens(handler', 0) /\ tables' = TablesOf(handler', 0) /\ 0 \in Nat
    BY <2>1, <2>2, NewHandlerOK, Zenon
  <2> QED
    BY <2>1, <2>2, <2>3, Zenon DEF ListInv
<1> QED
  BY <1>2, <1>4, <1>5, <1>6, <1>7, <1>8, <1>9, Zenon DEF List!Next

LEMMA ListHolds ==
    ASSUME ListInv
    PROVE  List!EndCloses /\ List!WellNested
<1>1. List!WellNested
  BY DEF ListInv, List!WellNested
<1>2. ASSUME input = List!EOFTk, tables = 0 PROVE open = <<>>
  <2>1. ~List!Ended
    BY <1>2 DEF List!Ended
  <2>2. PICK n \in Nat : open = Opens(handler, n) /\ tables = TablesOf(handler, n)
    BY <2>1, Zenon DEF ListInv
  <2>3. handler = List!NewHandler
    BY <1>2, Zenon DEF ListInv
  <2>4. n = 0
    <3>1. handler.nestedTableCount = 0 /\ handler.listFrames = <<>> /\ Len(<<>>) = 0
      BY <2>3 DEF List!NewHandler
    <3>2. tables = n + 0 + 0
      BY <2>2, <3>1, Zenon DEF TablesOf
    <3> QED
      BY <1>2, <3>2
  <2> QED
    BY <2>2, <2>3, <2>4, NewHandlerOK, Zenon
<1> QED
  BY <1>1, <1>2, Zenon DEF ListInv, List!EndCloses

-----------------------------------------------------------------------------
(* TokenStreamPatcher *)

Held == {Patcher!Nl, Patcher!Space, Patcher!TplStart}
PartNames == {"td", "th", "tr", "caption"}

PatcherFields ==
    [atTopLevel : BOOLEAN, sol : BOOLEAN, tokenBuf : Seq(Held), wikiTableNesting : Nat,
     lastConvertedTableCellToken : Patcher!Cells \cup {"none"}]

\* The handler: a newline comes first of what is held, and a cell is remembered
\* only outside of tables.
PatcherOK(h) ==
    /\ h \in PatcherFields
    /\ h.tokenBuf # <<>> => Head(h.tokenBuf) = Patcher!Nl
    /\ h.lastConvertedTableCellToken # "none" => h.wikiTableNesting = 0

OpenCells == Seq([name : Patcher!Cells, kept : BOOLEAN])

PatcherInv ==
    /\ PatcherOK(handler)
    /\ input = <<Patcher!EOFTk>> =>
          handler = Patcher!NewHandler(handler.atTopLevel) /\ sent.tables = 0 /\ ~sent.outside
    /\ sent.tables \in Nat /\ sent.cells \in OpenCells
    /\ Patcher!PartsInTables

\* What may be counted of an answer: tables, their ends and their parts.
TableTokens == Patcher!Parts \cup {Patcher!Table, Patcher!EndTable}

LEMMA PartsAre ==
    /\ Patcher!Parts = {"<td>", "<th>", "<tr>", "<caption>"}
    /\ \A n \in PartNames : Patcher!Start[n] \in Patcher!Parts
    /\ DOMAIN Patcher!Start = PartNames
<1>1. DOMAIN Patcher!Start = PartNames
  BY DEF Patcher!Start, PartNames
<1>2. /\ Patcher!Start["td"] = "<td>" /\ Patcher!Start["th"] = "<th>"
      /\ Patcher!Start["tr"] = "<tr>" /\ Patcher!Start["caption"] = "<caption>"
  BY DEF Patcher!Start
<1>3. Patcher!Parts = {"<td>", "<th>", "<tr>", "<caption>"}
  BY <1>1, <1>2, Zenon DEF Patcher!Parts, PartNames
<1>4. \A n \in PartNames : Patcher!Start[n] \in Patcher!Parts
  BY <1>1, Zenon DEF Patcher!Parts
<1> QED
  BY <1>1, <1>3, <1>4

LEMMA NamedPart ==
    ASSUME NEW token \in Patcher!Parts
    PROVE  Patcher!NameOf(token) \in PartNames /\ Patcher!Start[Patcher!NameOf(token)] = token
<1>1. \E n \in DOMAIN Patcher!Start : Patcher!Start[n] = token
  BY Zenon DEF Patcher!Parts
<1>2. /\ Patcher!NameOf(token) \in DOMAIN Patcher!Start
      /\ Patcher!Start[Patcher!NameOf(token)] = token
  BY <1>1, Zenon DEF Patcher!NameOf
<1> QED
  BY <1>2, PartsAre

\* Nothing that is held is counted.
LEMMA HeldUncounted == \A t \in Held : t \notin TableTokens /\ t # Patcher!Table /\ t # Patcher!EndTable
  BY PartsAre DEF Held, TableTokens, Patcher!Nl, Patcher!Space, Patcher!TplStart, Patcher!Table, Patcher!EndTable

\* Of an answer: the tables in it, their ends, and whether it has a part of one.
Has(tokens, starts, ends, part) ==
    /\ Patcher!Count(tokens, Patcher!Table) = starts
    /\ Patcher!Count(tokens, Patcher!EndTable) = ends
    /\ ToSet(tokens) \cap (Patcher!Parts \cup {Patcher!EndTable}) # {} => part

LEMMA CountsNone ==
    ASSUME NEW tokens, Len(tokens) \in Nat, NEW t, \A i \in 1..Len(tokens) : tokens[i] # t
    PROVE  Patcher!Count(tokens, t) = 0
<1>1. {i \in 1..Len(tokens) : tokens[i] = t} = {}
  OBVIOUS
<1> QED
  BY <1>1, FS_EmptySet, Zenon DEF Patcher!Count, Patcher!Cardinality, Cardinality

LEMMA CountsLast ==
    ASSUME NEW T, NEW tokens \in Seq(T), NEW t \in T, Len(tokens) > 0, tokens[Len(tokens)] = t,
           \A i \in 1..(Len(tokens) - 1) : tokens[i] # t
    PROVE  Patcher!Count(tokens, t) = 1
<1>1. {i \in 1..Len(tokens) : tokens[i] = t} = {Len(tokens)}
  OBVIOUS
<1>2. Cardinality({Len(tokens)}) = 1
  BY FS_Singleton, Zenon
<1> QED
  BY <1>1, <1>2, Zenon DEF Patcher!Count, Patcher!Cardinality, Cardinality

\* Without tables and their parts.
LEMMA HasNone ==
    ASSUME NEW T, NEW tokens \in Seq(T), \A i \in 1..Len(tokens) : tokens[i] \notin TableTokens, NEW part
    PROVE  Has(tokens, 0, 0, part)
<1>1. \A i \in 1..Len(tokens) : tokens[i] # Patcher!Table /\ tokens[i] # Patcher!EndTable
                                /\ tokens[i] \notin Patcher!Parts
  BY DEF TableTokens
<1>2. Patcher!Count(tokens, Patcher!Table) = 0 /\ Patcher!Count(tokens, Patcher!EndTable) = 0
  BY <1>1, CountsNone
<1>3. ToSet(tokens) \cap (Patcher!Parts \cup {Patcher!EndTable}) = {}
  <2>1. \A x \in ToSet(tokens) : \E i \in 1..Len(tokens) : tokens[i] = x
    BY DEF ToSet
  <2> QED
    BY <1>1, <2>1, Zenon
<1> QED
  BY <1>2, <1>3, Zenon DEF Has

\* What is held, and one token after it.
LEMMA HasOne ==
    ASSUME NEW buf \in Seq(Held), NEW token
    PROVE  /\ token = Patcher!Table => Has(buf \o <<token>>, 1, 0, FALSE)
           /\ token = Patcher!EndTable => Has(buf \o <<token>>, 0, 1, TRUE)
           /\ token \in Patcher!Parts => Has(buf \o <<token>>, 0, 0, TRUE)
           /\ token \notin TableTokens => Has(buf \o <<token>>, 0, 0, FALSE)
<1> DEFINE out == buf \o <<token>>
           T == Held \cup {token}
<1>1. /\ out \in Seq(T) /\ Len(out) = Len(buf) + 1 /\ Len(buf) \in Nat /\ out[Len(buf) + 1] = token
      /\ \A i \in 1..Len(buf) : out[i] = buf[i] /\ buf[i] \in Held
  OBVIOUS
<1> HIDE DEF out
<1>2. \A i \in 1..Len(buf) : out[i] \notin TableTokens /\ out[i] # Patcher!Table /\ out[i] # Patcher!EndTable
  BY <1>1, HeldUncounted, Zenon
<1>a. /\ \A i \in 1..(Len(out) - 1) : out[i] \notin TableTokens /\ out[i] # Patcher!Table /\ out[i] # Patcher!EndTable
      /\ Len(out) \in Nat /\ Len(out) > 0 /\ out[Len(out)] = token /\ token \in T
  BY <1>1, <1>2
<1>b. /\ Patcher!Table # Patcher!EndTable /\ Patcher!Table \notin Patcher!Parts /\ Patcher!EndTable \notin Patcher!Parts
  BY PartsAre DEF Patcher!Table, Patcher!EndTable
<1>c. \A t \in {Patcher!Table, Patcher!EndTable} : Patcher!Count(out, t) = IF token = t THEN 1 ELSE 0
  <2> SUFFICES ASSUME NEW t \in {Patcher!Table, Patcher!EndTable}
               PROVE  Patcher!Count(out, t) = IF token = t THEN 1 ELSE 0
    OBVIOUS
  <2>1. CASE token = t
    <3>1. Patcher!Count(out, t) = 1
      BY <1>1, <1>a, <2>1, CountsLast
    <3> QED
      BY <2>1, <3>1
  <2>2. CASE token # t
    <3>1. \A i \in 1..Len(out) : out[i] # t
      BY <1>1, <1>2, <2>2
    <3> QED
      BY <1>a, <2>2, <3>1, CountsNone
  <2> QED
    BY <2>1, <2>2
<1>3. ToSet(out) \cap (Patcher!Parts \cup {Patcher!EndTable}) # {} => token \in Patcher!Parts \cup {Patcher!EndTable}
  <2>1. \A x \in ToSet(out) : \E i \in 1..Len(out) : out[i] = x
    BY DEF ToSet
  <2>2. \A i \in 1..Len(out) : out[i] \in Patcher!Parts \cup {Patcher!EndTable} => out[i] = token
    BY <1>1, <1>2 DEF TableTokens
  <2> QED
    BY <2>1, <2>2, Zenon
<1> QED
  BY <1>b, <1>c, <1>3 DEF Has, out, TableTokens

\* A token is answered with r: what is counted in it goes with the nesting that is
\* counted, on the page itself.
Answers(h, r, token) ==
    /\ PatcherOK(r.handler) /\ r.handler.atTopLevel = h.atTopLevel
    /\ \E a, b \in 0..1, part \in BOOLEAN :
          /\ Has(r.tokens, a, b, part)
          /\ b = 1 => token = Patcher!EndTable
          /\ h.atTopLevel => /\ r.handler.wikiTableNesting = h.wikiTableNesting + a - b
                             /\ part => h.wikiTableNesting > 0

\* What a handler may remember.
Remembers(h) ==
    h \in PatcherFields /\ (h.lastConvertedTableCellToken # "none" => h.wikiTableNesting = 0)

LEMMA Remembered == \A h : PatcherOK(h) => Remembers(h)
  BY DEF PatcherOK, Remembers

LEMMA PatcherResult == \A h, t : Patcher!Result(h, t).handler = h /\ Patcher!Result(h, t).tokens = t
  BY DEF Patcher!Result

LEMMA Flushed ==
    ASSUME NEW h, Remembers(h), NEW x
    PROVE  LET r == Patcher!Flush(Patcher!Result(h, <<x>>))
           IN  /\ PatcherOK(r.handler) /\ r.handler.atTopLevel = h.atTopLevel
               /\ r.handler.wikiTableNesting = h.wikiTableNesting
               /\ r.tokens = h.tokenBuf \o <<x>> /\ h.tokenBuf \in Seq(Held)
<1> DEFINE g == [h EXCEPT !.tokenBuf = <<>>]
           r == Patcher!Flush(Patcher!Result(h, <<x>>))
<1>1. r = Patcher!Result(g, h.tokenBuf \o <<x>>)
  BY PatcherResult, Zenon DEF Patcher!Flush
<1>2. r.handler = g /\ r.tokens = h.tokenBuf \o <<x>>
  BY <1>1, PatcherResult, Zenon
<1>3. h \in PatcherFields
  BY DEF Remembers
<1>4. <<>> \in Seq(Held)
  OBVIOUS
<1>5. g \in PatcherFields /\ g.tokenBuf = <<>>
  BY <1>3, <1>4 DEF PatcherFields
<1>6. /\ g.atTopLevel = h.atTopLevel /\ g.wikiTableNesting = h.wikiTableNesting
      /\ g.lastConvertedTableCellToken = h.lastConvertedTableCellToken
      /\ h.tokenBuf \in Seq(Held)
  BY <1>3 DEF PatcherFields
<1> HIDE DEF g
<1> QED
  BY <1>2, <1>5, <1>6, Zenon DEF PatcherOK, Remembers

\* It answers with one token, after what was held.
LEMMA AnswersOne ==
    ASSUME NEW h, NEW g, Remembers(g), g.atTopLevel = h.atTopLevel, NEW x, NEW token, h.wikiTableNesting \in Nat,
           x = Patcher!EndTable => token = Patcher!EndTable,
           h.atTopLevel => /\ g.wikiTableNesting = h.wikiTableNesting + (IF x = Patcher!Table THEN 1 ELSE 0)
                                                   - (IF x = Patcher!EndTable THEN 1 ELSE 0)
                           /\ x \in Patcher!Parts \cup {Patcher!EndTable} => h.wikiTableNesting > 0
    PROVE  Answers(h, Patcher!Flush(Patcher!Result(g, <<x>>)), token)
<1> DEFINE r == Patcher!Flush(Patcher!Result(g, <<x>>))
<1>1. /\ PatcherOK(r.handler) /\ r.handler.atTopLevel = h.atTopLevel
      /\ r.handler.wikiTableNesting = g.wikiTableNesting
      /\ r.tokens = g.tokenBuf \o <<x>> /\ g.tokenBuf \in Seq(Held)
  BY Flushed
<1> SUFFICES Answers(h, r, token)
  OBVIOUS
<1> HIDE DEF r
<1>b. /\ Patcher!Table # Patcher!EndTable /\ Patcher!Table \notin Patcher!Parts /\ Patcher!EndTable \notin Patcher!Parts
      /\ 0 \in 0..1 /\ 1 \in 0..1 /\ 0 # 1 /\ TRUE \in BOOLEAN /\ FALSE \in BOOLEAN
  BY PartsAre DEF Patcher!Table, Patcher!EndTable
<1>6. ASSUME NEW a \in 0..1, NEW b \in 0..1, NEW part \in BOOLEAN, Has(r.tokens, a, b, part),
             b = 1 => token = Patcher!EndTable,
             h.atTopLevel => /\ r.handler.wikiTableNesting = h.wikiTableNesting + a - b
                             /\ part => h.wikiTableNesting > 0
      PROVE  Answers(h, r, token)
  BY <1>1, <1>6, Zenon DEF Answers
<1>2. CASE x = Patcher!Table
  <2>1. Has(r.tokens, 1, 0, FALSE)
    BY <1>1, <1>2, HasOne, Zenon
  <2>2. h.atTopLevel => r.handler.wikiTableNesting = h.wikiTableNesting + 1 - 0
    BY <1>1, <1>2, <1>b
  <2> QED
    BY <1>1, <1>b, <2>1, <2>2, <1>6, Zenon DEF TableTokens
<1>3. CASE x = Patcher!EndTable
  <2>1. Has(r.tokens, 0, 1, TRUE)
    BY <1>1, <1>3, HasOne, Zenon
  <2>2. h.atTopLevel => r.handler.wikiTableNesting = h.wikiTableNesting + 0 - 1 /\ h.wikiTableNesting > 0
    BY <1>1, <1>3, <1>b
  <2> QED
    BY <1>1, <1>3, <1>b, <2>1, <2>2, <1>6, Zenon
<1>4. CASE x \in Patcher!Parts
  <2>1. Has(r.tokens, 0, 0, TRUE)
    BY <1>1, <1>4, HasOne, Zenon
  <2>2. h.atTopLevel => r.handler.wikiTableNesting = h.wikiTableNesting + 0 - 0 /\ h.wikiTableNesting > 0
    BY <1>1, <1>4, <1>b
  <2> QED
    BY <1>1, <1>b, <2>1, <2>2, <1>6, Zenon DEF TableTokens
<1>5. CASE x \notin TableTokens
  <2>1. Has(r.tokens, 0, 0, FALSE)
    BY <1>1, <1>5, HasOne, Zenon
  <2>2. h.atTopLevel => r.handler.wikiTableNesting = h.wikiTableNesting + 0 - 0
    BY <1>1, <1>5 DEF TableTokens
  <2> QED
    BY <1>1, <1>b, <2>1, <2>2, <1>6, Zenon DEF TableTokens
<1> QED
  BY <1>2, <1>3, <1>4, <1>5 DEF TableTokens

\* The fields that change but for what is held.
LEMMA Clears ==
    ASSUME NEW h, Remembers(h)
    PROVE  LET g == Patcher!clearSOL(h)
           IN  /\ Remembers(g) /\ g.atTopLevel = h.atTopLevel
               /\ g.wikiTableNesting = h.wikiTableNesting
               /\ g.lastConvertedTableCellToken = h.lastConvertedTableCellToken /\ g.tokenBuf = h.tokenBuf
<1> DEFINE g == [h EXCEPT !.sol = FALSE]
<1>1. h \in PatcherFields
  BY DEF Remembers
<1>2. g \in PatcherFields /\ g.atTopLevel = h.atTopLevel /\ g.wikiTableNesting = h.wikiTableNesting
      /\ g.lastConvertedTableCellToken = h.lastConvertedTableCellToken /\ g.tokenBuf = h.tokenBuf
  BY <1>1 DEF PatcherFields
<1> HIDE DEF g
<1>3. g = Patcher!clearSOL(h)
  BY Zenon DEF Patcher!clearSOL, g
<1> QED
  BY <1>2, <1>3, Zenon DEF Remembers

LEMMA Recounts ==
    ASSUME NEW h, Remembers(h), NEW n \in Nat
    PROVE  LET g == [h EXCEPT !.wikiTableNesting = n, !.lastConvertedTableCellToken = "none"]
           IN  /\ Remembers(g) /\ g.atTopLevel = h.atTopLevel /\ g.wikiTableNesting = n
               /\ g.tokenBuf = h.tokenBuf
<1> DEFINE g == [h EXCEPT !.wikiTableNesting = n, !.lastConvertedTableCellToken = "none"]
<1> SUFFICES Remembers(g) /\ g.atTopLevel = h.atTopLevel /\ g.wikiTableNesting = n /\ g.tokenBuf = h.tokenBuf
  OBVIOUS
<1>1. h \in PatcherFields /\ "none" \in Patcher!Cells \cup {"none"}
  BY DEF Remembers
<1>2. /\ g \in PatcherFields /\ g.atTopLevel = h.atTopLevel /\ g.wikiTableNesting = n
      /\ g.tokenBuf = h.tokenBuf /\ g.lastConvertedTableCellToken = "none"
  BY <1>1 DEF PatcherFields
<1> HIDE DEF g
<1>3. Remembers(g)
  BY <1>2, Zenon DEF Remembers
<1> QED
  BY <1>2, <1>3, Zenon

LEMMA Forgets ==
    ASSUME NEW h, Remembers(h), NEW c \in Patcher!Cells \cup {"none"}, c # "none" => h.wikiTableNesting = 0
    PROVE  LET g == [h EXCEPT !.lastConvertedTableCellToken = c]
           IN  /\ Remembers(g) /\ g.atTopLevel = h.atTopLevel /\ g.wikiTableNesting = h.wikiTableNesting
               /\ g.tokenBuf = h.tokenBuf
  BY DEF Remembers, PatcherFields

\* The source of a part of a table, or nothing at all, is not counted.
LEMMA ConvertedUncounted ==
    \A x : <<x>> \in Patcher!ConvertedTo => x \notin TableTokens
<1> SUFFICES ASSUME NEW x, <<x>> \in Patcher!ConvertedTo PROVE x \notin TableTokens
  OBVIOUS
<1>1. <<x>> = <<"source">> \/ <<x>> = <<"nothing">>
  BY DEF Patcher!ConvertedTo
<1>2. x = "source" \/ x = "nothing"
  BY <1>1
<1> QED
  BY <1>2, PartsAre DEF TableTokens, Patcher!Table, Patcher!EndTable

LEMMA ConvertedIs == \A c \in Patcher!ConvertedTo : \E x : c = <<x>>
  BY DEF Patcher!ConvertedTo

\* The string {| at the start of a line may be a table.
LEMMA TableStartAnswer ==
    ASSUME NEW h, Remembers(h), NEW retoks \in {<<Patcher!Table>>, <<Patcher!TableStart>>}
    PROVE  Answers(h, Patcher!Flush(Patcher!AnyTableStart(h, retoks)), Patcher!TableStart)
<1>0. /\ h.wikiTableNesting \in Nat /\ h.atTopLevel \in BOOLEAN /\ h.wikiTableNesting + 1 \in Nat
      /\ h.wikiTableNesting + 1 = h.wikiTableNesting + 1 - 0 /\ h.wikiTableNesting = h.wikiTableNesting + 0 - 0
  BY DEF Remembers, PatcherFields
<1>b. /\ Patcher!Table # Patcher!EndTable /\ Patcher!Table \notin Patcher!Parts /\ Patcher!TableStart \notin TableTokens
  BY PartsAre DEF Patcher!Table, Patcher!EndTable, Patcher!TableStart, TableTokens
<1>1. CASE h.sol /\ retoks = <<Patcher!Table>>
  <2> DEFINE g == [h EXCEPT !.wikiTableNesting = h.wikiTableNesting + 1, !.lastConvertedTableCellToken = "none"]
  <2>1. Remembers(g) /\ g.atTopLevel = h.atTopLevel /\ g.wikiTableNesting = h.wikiTableNesting + 1
    BY <1>0, Recounts
  <2>2. Patcher!AnyTableStart(h, retoks) = Patcher!Result(g, <<Patcher!Table>>)
    BY ONLY <1>1 DEF Patcher!AnyTableStart
  <2> HIDE DEF g
  <2> QED
    BY <1>0, <1>b, <2>1, <2>2, AnswersOne
<1>2. CASE ~(h.sol /\ retoks = <<Patcher!Table>>)
  <2> DEFINE g == Patcher!clearSOL(h)
  <2>1. Remembers(g) /\ g.atTopLevel = h.atTopLevel /\ g.wikiTableNesting = h.wikiTableNesting
    BY Clears
  <2>2. Patcher!AnyTableStart(h, retoks) = Patcher!Result(g, <<Patcher!TableStart>>)
    BY <1>2, Zenon DEF Patcher!AnyTableStart
  <2> HIDE DEF g
  <2> QED
    BY <1>0, <1>b, <2>1, <2>2, AnswersOne DEF TableTokens
<1> QED
  BY <1>1, <1>2

LEMMA TableAnswer ==
    ASSUME NEW h, Remembers(h)
    PROVE  Answers(h, Patcher!Flush(Patcher!AnyTable(h)), Patcher!Table)
<1>0. /\ h.wikiTableNesting \in Nat /\ h.atTopLevel \in BOOLEAN /\ h.wikiTableNesting + 1 \in Nat
  BY DEF Remembers, PatcherFields
<1>b. /\ Patcher!Table # Patcher!EndTable /\ Patcher!Table \notin Patcher!Parts
  BY PartsAre DEF Patcher!Table, Patcher!EndTable
<1>1. CASE h.atTopLevel
  <2> DEFINE k == [h EXCEPT !.wikiTableNesting = h.wikiTableNesting + 1, !.lastConvertedTableCellToken = "none"]
             g == Patcher!clearSOL(k)
  <2>1. Remembers(k) /\ k.atTopLevel = h.atTopLevel /\ k.wikiTableNesting = h.wikiTableNesting + 1
    BY <1>0, Recounts
  <2>2. Patcher!AnyTable(h) = Patcher!Result(g, <<Patcher!Table>>)
    BY ONLY <1>1 DEF Patcher!AnyTable
  <2> HIDE DEF k
  <2>3. Remembers(g) /\ g.atTopLevel = h.atTopLevel /\ g.wikiTableNesting = h.wikiTableNesting + 1
    BY <2>1, Clears, Zenon
  <2> HIDE DEF g
  <2> QED
    BY <1>0, <1>b, <2>3, <2>2, AnswersOne
<1>2. CASE ~h.atTopLevel
  <2> DEFINE g == Patcher!clearSOL(h)
  <2>1. Remembers(g) /\ g.atTopLevel = h.atTopLevel
    BY Clears
  <2>2. Patcher!AnyTable(h) = Patcher!Result(g, <<Patcher!Table>>)
    BY <1>2, Zenon DEF Patcher!AnyTable
  <2> HIDE DEF g
  <2> QED
    BY <1>0, <1>2, <1>b, <2>1, <2>2, AnswersOne
<1> QED
  BY <1>1, <1>2

\* A handler that answers with a token that is not counted, or that is counted
\* only inside of a table.
LEMMA AnswersSame ==
    ASSUME NEW h, Remembers(h), NEW g, Remembers(g), g.atTopLevel = h.atTopLevel,
           g.wikiTableNesting = h.wikiTableNesting, NEW x, NEW token,
           x \notin TableTokens \/ (x \in Patcher!Parts /\ (h.atTopLevel => h.wikiTableNesting > 0))
    PROVE  Answers(h, Patcher!Flush(Patcher!Result(g, <<x>>)), token)
<1>0. h.wikiTableNesting \in Nat
  BY DEF Remembers, PatcherFields
<1>1. x # Patcher!Table /\ x # Patcher!EndTable /\ (x \in Patcher!Parts => (h.atTopLevel => h.wikiTableNesting > 0))
  BY PartsAre DEF TableTokens, Patcher!Table, Patcher!EndTable
<1>2. x \notin Patcher!Parts \cup {Patcher!EndTable} \/ (h.atTopLevel => h.wikiTableNesting > 0)
  BY <1>1
<1> QED
  BY <1>0, <1>1, <1>2, AnswersOne

LEMMA PartAnswer ==
    ASSUME NEW h, Remembers(h), NEW token \in Patcher!Parts, NEW converted \in Patcher!ConvertedTo
    PROVE  Answers(h, Patcher!Flush(Patcher!AnyPart(h, Patcher!NameOf(token), converted)), token)
<1> DEFINE name == Patcher!NameOf(token)
<1>0. h.wikiTableNesting \in Nat /\ name \in PartNames /\ Patcher!Start[name] = token
  BY NamedPart DEF Remembers, PatcherFields
<1> HIDE DEF name
<1> SUFFICES Answers(h, Patcher!Flush(Patcher!AnyPart(h, name, converted)), token)
  BY DEF name
<1>1. CASE ~h.atTopLevel
  <2> DEFINE g == Patcher!clearSOL(h)
  <2>1. Remembers(g) /\ g.atTopLevel = h.atTopLevel /\ g.wikiTableNesting = h.wikiTableNesting
    BY Clears
  <2>2. Patcher!AnyPart(h, name, converted) = Patcher!Result(g, <<token>>)
    BY <1>0, <1>1, Zenon DEF Patcher!AnyPart
  <2> HIDE DEF g
  <2> QED
    BY <1>1, <2>1, <2>2, AnswersSame
<1>2. CASE h.atTopLevel /\ h.wikiTableNesting > 0
  <2> DEFINE k == [h EXCEPT !.lastConvertedTableCellToken = "none"]
             g == Patcher!clearSOL(k)
  <2>1. Remembers(k) /\ k.atTopLevel = h.atTopLevel /\ k.wikiTableNesting = h.wikiTableNesting
    BY Forgets
  <2>2. Patcher!AnyPart(h, name, converted) = Patcher!Result(g, <<token>>)
    <3>1. h.wikiTableNesting # 0
      BY <1>0, <1>2
    <3> QED
      BY <1>0, <1>2, <3>1, Zenon DEF Patcher!AnyPart
  <2> HIDE DEF k
  <2>3. Remembers(g) /\ g.atTopLevel = h.atTopLevel /\ g.wikiTableNesting = h.wikiTableNesting
    BY <2>1, Clears, Zenon
  <2> HIDE DEF g
  <2> QED
    BY <1>2, <2>3, <2>2, AnswersSame
<1>3. CASE h.atTopLevel /\ h.wikiTableNesting = 0
  <2> DEFINE c == IF name \in Patcher!Cells THEN name ELSE h.lastConvertedTableCellToken
             k == [h EXCEPT !.lastConvertedTableCellToken = c]
             g == Patcher!clearSOL(k)
  <2>1. c \in Patcher!Cells \cup {"none"}
    BY DEF Remembers, PatcherFields
  <2>2. Patcher!AnyPart(h, name, converted) = Patcher!Result(g, converted)
    <3>1. ~(h.wikiTableNesting > 0)
      BY <1>3
    <3> QED
      BY <1>3, <3>1, Zenon DEF Patcher!AnyPart
  <2> HIDE DEF c
  <2>3. Remembers(k) /\ k.atTopLevel = h.atTopLevel /\ k.wikiTableNesting = h.wikiTableNesting
    BY <1>3, <2>1, Forgets
  <2> HIDE DEF k
  <2>4. Remembers(g) /\ g.atTopLevel = h.atTopLevel /\ g.wikiTableNesting = h.wikiTableNesting
    BY <2>3, Clears, Zenon
  <2> HIDE DEF g
  <2>5. PICK x : converted = <<x>> /\ x \notin TableTokens
    BY ConvertedIs, ConvertedUncounted, Zenon
  <2> QED
    BY <2>2, <2>4, <2>5, AnswersSame
<1> QED
  BY <1>0, <1>1, <1>2, <1>3

LEMMA PartEndAnswer ==
    ASSUME NEW h, Remembers(h), NEW token \in {Patcher!EndTable, Patcher!EndCaption},
           NEW converted \in Patcher!ConvertedTo
    PROVE  Answers(h, Patcher!Flush(Patcher!AnyPartEnd(h, token, converted)), token)
<1>0. h.wikiTableNesting \in Nat
  BY DEF Remembers, PatcherFields
<1>b. /\ Patcher!EndTable # Patcher!Table /\ Patcher!EndCaption \notin TableTokens
      /\ Patcher!EndCaption # Patcher!EndTable /\ Patcher!EndCaption # Patcher!Table
  BY PartsAre DEF Patcher!Table, Patcher!EndTable, Patcher!EndCaption, TableTokens
<1>c. token # Patcher!Table /\ (token \in Patcher!Parts => FALSE)
  BY PartsAre DEF Patcher!Table, Patcher!EndTable, Patcher!EndCaption
<1>1. CASE ~h.atTopLevel
  <2> DEFINE g == Patcher!clearSOL(h)
  <2>1. Remembers(g) /\ g.atTopLevel = h.atTopLevel /\ g.wikiTableNesting = h.wikiTableNesting
    BY Clears
  <2>2. Patcher!AnyPartEnd(h, token, converted) = Patcher!Result(g, <<token>>)
    BY <1>1, Zenon DEF Patcher!AnyPartEnd
  <2> HIDE DEF g
  <2> QED
    BY <1>0, <1>1, <2>1, <2>2, AnswersOne
<1>2. CASE h.atTopLevel /\ h.wikiTableNesting > 0 /\ token = Patcher!EndTable
  <2> DEFINE k == [h EXCEPT !.wikiTableNesting = h.wikiTableNesting - 1, !.lastConvertedTableCellToken = "none"]
             g == Patcher!clearSOL(k)
  <2>0. h.wikiTableNesting - 1 \in Nat /\ h.wikiTableNesting # 0
    BY <1>0, <1>2
  <2>1. Remembers(k) /\ k.atTopLevel = h.atTopLevel /\ k.wikiTableNesting = h.wikiTableNesting - 1
    BY <2>0, Recounts
  <2>2. Patcher!AnyPartEnd(h, token, converted) = Patcher!Result(g, <<token>>)
    BY <1>2, <2>0, Zenon DEF Patcher!AnyPartEnd
  <2> HIDE DEF k
  <2>3. Remembers(g) /\ g.atTopLevel = h.atTopLevel /\ g.wikiTableNesting = h.wikiTableNesting - 1
    BY <2>1, Clears, Zenon
  <2> HIDE DEF g
  <2>4. g.wikiTableNesting = h.wikiTableNesting + (IF token = Patcher!Table THEN 1 ELSE 0)
                             - (IF token = Patcher!EndTable THEN 1 ELSE 0)
    BY <1>0, <1>b, <1>2, <2>3
  <2>5. Answers(h, Patcher!Flush(Patcher!Result(g, <<token>>)), token)
    BY <1>0, <1>2, <2>3, <2>4, AnswersOne
  <2> QED
    BY <2>2, <2>5
<1>3. CASE h.atTopLevel /\ h.wikiTableNesting > 0 /\ token # Patcher!EndTable
  <2> DEFINE g == Patcher!clearSOL(h)
  <2>1. Remembers(g) /\ g.atTopLevel = h.atTopLevel /\ g.wikiTableNesting = h.wikiTableNesting
    BY Clears
  <2>2. Patcher!AnyPartEnd(h, token, converted) = Patcher!Result(g, <<token>>)
    <3>1. h.wikiTableNesting # 0
      BY <1>0, <1>3
    <3> QED
      BY <1>3, <3>1, Zenon DEF Patcher!AnyPartEnd
  <2> HIDE DEF g
  <2> QED
    BY <1>b, <1>3, <2>1, <2>2, AnswersSame
<1>4. CASE h.atTopLevel /\ h.wikiTableNesting = 0
  <2> DEFINE g == Patcher!clearSOL(h)
  <2>1. Remembers(g) /\ g.atTopLevel = h.atTopLevel /\ g.wikiTableNesting = h.wikiTableNesting
    BY Clears
  <2>2. Patcher!AnyPartEnd(h, token, converted) = Patcher!Result(g, converted)
    <3>1. ~(h.wikiTableNesting > 0)
      BY <1>4
    <3> QED
      BY <1>4, <3>1, Zenon DEF Patcher!AnyPartEnd
  <2> HIDE DEF g
  <2>5. PICK x : converted = <<x>> /\ x \notin TableTokens
    BY ConvertedIs, ConvertedUncounted, Zenon
  <2> QED
    BY <2>1, <2>2, <2>5, AnswersSame
<1> QED
  BY <1>0, <1>1, <1>2, <1>3, <1>4

\* A category comes after what was held, hidden.
LEMMA CategoryAnswer ==
    ASSUME NEW h, Remembers(h), NEW token
    PROVE  Answers(h, Patcher!Flush(Patcher!AnyCategory(h)), token)
<1> DEFINE k == [h EXCEPT !.tokenBuf = <<>>]
           g == Patcher!clearSOL(k)
           f == [g EXCEPT !.tokenBuf = <<>>]
           toks == Append(Patcher!Tunnelled(h.tokenBuf), Patcher!Category)
           r == Patcher!Flush(Patcher!AnyCategory(h))
<1>0. h \in PatcherFields /\ <<>> \in Seq(Held) /\ h.tokenBuf \in Seq(Held)
  BY DEF Remembers, PatcherFields
<1>1. /\ k \in PatcherFields /\ k.atTopLevel = h.atTopLevel /\ k.wikiTableNesting = h.wikiTableNesting
      /\ k.lastConvertedTableCellToken = h.lastConvertedTableCellToken /\ k.tokenBuf = <<>>
  BY <1>0 DEF PatcherFields
<1>2. Patcher!AnyCategory(h) = Patcher!Result(g, toks)
  BY Zenon DEF Patcher!AnyCategory
<1> HIDE DEF k
<1>3. Remembers(k)
  BY <1>1, Zenon DEF Remembers
<1>4. /\ Remembers(g) /\ g.atTopLevel = h.atTopLevel /\ g.wikiTableNesting = h.wikiTableNesting
      /\ g.tokenBuf = <<>>
  BY <1>1, <1>3, Clears
<1> HIDE DEF g, toks
<1>5. r.handler = f /\ r.tokens = <<>> \o toks
  <2>1. r = Patcher!Flush(Patcher!Result(g, toks))
    BY <1>2
  <2>2. Patcher!Flush(Patcher!Result(g, toks)) = Patcher!Result(f, g.tokenBuf \o toks)
    BY PatcherResult, Zenon DEF Patcher!Flush
  <2> HIDE DEF r, f
  <2>3. r = Patcher!Result(f, <<>> \o toks)
    BY ONLY <1>4, <2>1, <2>2
  <2> QED
    BY <2>3, PatcherResult, Zenon
<1>6. /\ f \in PatcherFields /\ f.tokenBuf = <<>> /\ f.atTopLevel = h.atTopLevel
      /\ f.wikiTableNesting = h.wikiTableNesting
      /\ f.lastConvertedTableCellToken = g.lastConvertedTableCellToken
  BY <1>0, <1>4 DEF Remembers, PatcherFields
<1> HIDE DEF f
<1>7. PatcherOK(f)
  BY <1>4, <1>6, Zenon DEF Remembers, PatcherOK
<1> DEFINE tun == Patcher!Tunnelled(h.tokenBuf)
           N == Len(h.tokenBuf)
           T == {tun[i] : i \in 1..N} \cup {Patcher!Category}
<1>8. /\ tun \in Seq(T) /\ Len(tun) = N /\ N \in Nat
      /\ \A i \in 1..N : tun[i] \in {Patcher!TplStart, Patcher!EmptyLine["nl"], Patcher!EmptyLine["space"]}
  <2>1. N \in Nat /\ \A i \in 1..N : h.tokenBuf[i] \in Held
    BY <1>0
  <2>2. tun = [i \in 1..N |-> IF h.tokenBuf[i] = Patcher!TplStart THEN Patcher!TplStart
                              ELSE Patcher!EmptyLine[h.tokenBuf[i]]]
    BY Zenon DEF Patcher!Tunnelled
  <2> HIDE DEF tun, N
  <2>3. \A i \in 1..N : tun[i] = IF h.tokenBuf[i] = Patcher!TplStart THEN Patcher!TplStart
                              ELSE Patcher!EmptyLine[h.tokenBuf[i]]
    BY <2>2
  <2>4. \A i \in 1..N : tun[i] \in {Patcher!TplStart, Patcher!EmptyLine["nl"], Patcher!EmptyLine["space"]}
    BY <2>1, <2>3, Zenon DEF Held, Patcher!Nl, Patcher!Space
  <2>5. tun \in Seq(T) /\ Len(tun) = N
    BY <2>1, <2>2
  <2> QED
    BY <2>1, <2>4, <2>5
<1>9. \A i \in 1..Len(<<>> \o toks) : (<<>> \o toks)[i] \notin TableTokens
  <2>1. /\ Patcher!TplStart \notin TableTokens /\ Patcher!EmptyLine["nl"] \notin TableTokens
        /\ Patcher!EmptyLine["space"] \notin TableTokens /\ Patcher!Category \notin TableTokens
    BY PartsAre DEF TableTokens, Patcher!TplStart, Patcher!EmptyLine, Patcher!Category, Patcher!Table, Patcher!EndTable
  <2> HIDE DEF tun, N, T
  <2>2. \A i \in 1..N : tun[i] \notin TableTokens
    BY <1>8, <2>1, Zenon
  <2>3. toks = Append(tun, Patcher!Category) /\ Patcher!Category \in T
    BY DEF toks, tun, T
  <2>4. toks \in Seq(T) /\ Len(toks) = N + 1 /\ \A i \in 1..Len(toks) : toks[i] \notin TableTokens
    BY <1>8, <2>1, <2>2, <2>3
  <2>5. <<>> \o toks = toks
    BY <2>4
  <2> QED
    BY <2>4, <2>5
<1>10. <<>> \o toks \in Seq(T)
  <2> HIDE DEF T
  <2>1. toks = Append(tun, Patcher!Category) /\ Patcher!Category \in T
    BY DEF toks, tun, T
  <2> HIDE DEF tun
  <2> QED
    BY <1>8, <2>1
<1>11. Has(r.tokens, 0, 0, FALSE)
  <2> HIDE DEF T, r, N
  <2> QED
    BY <1>5, <1>9, <1>10, HasNone
<1>12. h.wikiTableNesting = h.wikiTableNesting + 0 - 0 /\ 0 \in 0..1 /\ 0 # 1 /\ FALSE \in BOOLEAN
  BY <1>0 DEF PatcherFields
<1> SUFFICES Answers(h, r, token)
  OBVIOUS
<1> HIDE DEF r, N, T
<1> QED
  BY <1>5, <1>6, <1>7, <1>11, <1>12, Zenon DEF Answers

\* What is given with a token.
Converts(token, converted) ==
    /\ token = Patcher!TableStart => converted \in {<<Patcher!Table>>, <<Patcher!TableStart>>}
    /\ token \in Patcher!Parts \cup {Patcher!EndTable, Patcher!EndCaption} => converted \in Patcher!ConvertedTo

LEMMA OnAny ==
    ASSUME NEW h, PatcherOK(h), NEW token, NEW converted, Converts(token, converted)
    PROVE  Answers(h, Patcher!onAny(h, token, converted), token)
<1>0. h \in PatcherFields /\ Remembers(h) /\ h.wikiTableNesting \in Nat /\ h.tokenBuf \in Seq(Held)
  BY Remembered DEF PatcherOK, PatcherFields
<1>z. h.wikiTableNesting = h.wikiTableNesting + 0 - 0 /\ 0 \in 0..1 /\ 0 # 1 /\ FALSE \in BOOLEAN
  BY <1>0
<1>e. Has(<<>>, 0, 0, FALSE)
  <2>1. <<>> \in Seq(Held) /\ \A i \in 1..Len(<<>>) : <<>>[i] \notin TableTokens
    OBVIOUS
  <2> QED
    BY <2>1, HasNone, Zenon
<1> DEFINE r == Patcher!onAny(h, token, converted)
<1> SUFFICES Answers(h, r, token)
  OBVIOUS
<1>m. Patcher!Swallows(h, token) => token \in {"mw:TSRMarker td", "mw:TSRMarker th"}
  <2>1. h.lastConvertedTableCellToken \in Patcher!Cells \cup {"none"}
    BY <1>0 DEF PatcherFields
  <2>2. Patcher!Marker["td"] = "mw:TSRMarker td" /\ Patcher!Marker["th"] = "mw:TSRMarker th"
    BY DEF Patcher!Marker
  <2> QED
    BY <2>1, <2>2, Zenon DEF Patcher!Swallows, Patcher!Cells
<1>n. \A t \in {"mw:TSRMarker td", "mw:TSRMarker th", Patcher!Space, Patcher!TplStart} :
         t \notin {Patcher!TableStart, Patcher!Text, "other", Patcher!Category, Patcher!Table, Patcher!EndTable,
                  Patcher!EndCaption} \cup Patcher!Parts
  BY PartsAre DEF Patcher!Space, Patcher!TplStart, Patcher!TableStart, Patcher!Text, Patcher!Category, Patcher!Table,
                  Patcher!EndTable, Patcher!EndCaption
<1>p. Patcher!Space \notin {"mw:TSRMarker td", "mw:TSRMarker th"}
      /\ Patcher!TplStart \notin {"mw:TSRMarker td", "mw:TSRMarker th"}
  BY DEF Patcher!Space, Patcher!TplStart
<1>1. CASE Patcher!Buffers(h, token)
  <2> DEFINE g == [h EXCEPT !.tokenBuf = Append(h.tokenBuf, token)]
  <2>0. /\ token \notin {Patcher!TableStart, Patcher!Text, "other", Patcher!Category, Patcher!Table, Patcher!EndTable,
                        Patcher!EndCaption} \cup Patcher!Parts
        /\ ~Patcher!Swallows(h, token)
    BY <1>1, <1>m, <1>n, <1>p, Zenon DEF Patcher!Buffers
  <2>1. r = Patcher!Result(g, <<>>)
    BY <1>1, <2>0, Zenon DEF Patcher!onAny
  <2>2. token \in Held /\ h.tokenBuf # <<>> /\ Head(h.tokenBuf) = Patcher!Nl
    BY <1>1, Zenon DEF Patcher!Buffers, Held, PatcherOK
  <2>3. Append(h.tokenBuf, token) \in Seq(Held) /\ Head(Append(h.tokenBuf, token)) = Patcher!Nl
    BY <1>0, <2>2
  <2>4. /\ g \in PatcherFields /\ g.atTopLevel = h.atTopLevel /\ g.wikiTableNesting = h.wikiTableNesting
        /\ g.lastConvertedTableCellToken = h.lastConvertedTableCellToken
        /\ g.tokenBuf = Append(h.tokenBuf, token)
    BY <1>0, <2>3 DEF PatcherFields
  <2> HIDE DEF g, r
  <2>5. PatcherOK(g)
    BY <2>3, <2>4, Zenon DEF PatcherOK
  <2>6. r.handler = g /\ r.tokens = <<>>
    BY <2>1, PatcherResult, Zenon
  <2> QED
    BY <1>z, <1>e, <2>4, <2>5, <2>6, Zenon DEF Answers
<1>2. CASE ~Patcher!Buffers(h, token) /\ Patcher!Swallows(h, token)
  <2> DEFINE g == [h EXCEPT !.lastConvertedTableCellToken = "none"]
  <2>0. token \notin {Patcher!TableStart, Patcher!Text, "other", Patcher!Category, Patcher!Table, Patcher!EndTable,
                     Patcher!EndCaption} \cup Patcher!Parts
    BY <1>2, <1>m, <1>n, Zenon
  <2>1. r = Patcher!Result(g, <<>>)
    BY <1>2, <2>0, Zenon DEF Patcher!onAny, Patcher!Swallowed
  <2>4. /\ g \in PatcherFields /\ g.atTopLevel = h.atTopLevel /\ g.wikiTableNesting = h.wikiTableNesting
        /\ g.lastConvertedTableCellToken = "none" /\ g.tokenBuf = h.tokenBuf
    BY <1>0 DEF PatcherFields
  <2> HIDE DEF g, r
  <2>5. PatcherOK(g)
    BY <2>4, Zenon DEF PatcherOK
  <2>6. r.handler = g /\ r.tokens = <<>>
    BY <2>1, PatcherResult, Zenon
  <2> QED
    BY <1>z, <1>e, <2>4, <2>5, <2>6, Zenon DEF Answers
<1> DEFINE rest == ~Patcher!Buffers(h, token) /\ ~Patcher!Swallows(h, token)
<1>k. /\ Patcher!TableStart \notin {Patcher!Text, "other", Patcher!Category, Patcher!Table, Patcher!EndTable, Patcher!EndCaption}
      /\ Patcher!Category \notin {Patcher!Text, "other", Patcher!Table, Patcher!EndTable, Patcher!EndCaption}
      /\ Patcher!Table \notin {Patcher!Text, "other", Patcher!EndTable, Patcher!EndCaption}
      /\ Patcher!EndTable \notin {Patcher!Text, "other"} /\ Patcher!EndCaption \notin {Patcher!Text, "other"}
      /\ \A t \in Patcher!Parts : t \notin {Patcher!TableStart, Patcher!Text, "other", Patcher!Category, Patcher!Table,
                                           Patcher!EndTable, Patcher!EndCaption}
  BY PartsAre DEF Patcher!TableStart, Patcher!Text, Patcher!Category, Patcher!Table, Patcher!EndTable, Patcher!EndCaption
<1>3. CASE rest /\ token = Patcher!TableStart
  <2> DEFINE retoks == IF h.atTopLevel THEN converted ELSE <<Patcher!TableStart>>
  <2>1. r = Patcher!Flush(Patcher!AnyTableStart(h, retoks))
    BY <1>k, <1>3, Zenon DEF Patcher!onAny
  <2>2. retoks \in {<<Patcher!Table>>, <<Patcher!TableStart>>}
    BY <1>3, Zenon DEF Converts
  <2> HIDE DEF r, retoks
  <2> QED
    BY <1>0, <1>3, <2>1, <2>2, TableStartAnswer, Zenon
<1>4. CASE rest /\ token \in {Patcher!Text, "other"}
  <2> DEFINE g == Patcher!clearSOL(h)
  <2>1. r = Patcher!Flush(Patcher!Result(g, <<token>>))
    BY <1>k, <1>4, Zenon DEF Patcher!onAny
  <2>2. Remembers(g) /\ g.atTopLevel = h.atTopLevel /\ g.wikiTableNesting = h.wikiTableNesting
    BY <1>0, Clears
  <2>3. token \notin TableTokens
    BY <1>k, <1>4 DEF TableTokens
  <2> HIDE DEF r, g
  <2> QED
    BY <1>0, <2>1, <2>2, <2>3, AnswersSame, Zenon
<1>5. CASE rest /\ token = Patcher!Category
  <2>1. r = Patcher!Flush(Patcher!AnyCategory(h))
    BY <1>k, <1>5, Zenon DEF Patcher!onAny
  <2> HIDE DEF r
  <2> QED
    BY <1>0, <2>1, CategoryAnswer, Zenon
<1>6. CASE rest /\ token = Patcher!Table
  <2>1. r = Patcher!Flush(Patcher!AnyTable(h))
    BY <1>k, <1>6, Zenon DEF Patcher!onAny
  <2> HIDE DEF r
  <2> QED
    BY <1>0, <1>6, <2>1, TableAnswer, Zenon
<1>7. CASE rest /\ token \in Patcher!Parts
  <2>1. r = Patcher!Flush(Patcher!AnyPart(h, Patcher!NameOf(token), converted))
    BY <1>k, <1>7, Zenon DEF Patcher!onAny
  <2>2. converted \in Patcher!ConvertedTo
    BY <1>7, Zenon DEF Converts
  <2> HIDE DEF r
  <2> QED
    BY <1>0, <1>7, <2>1, <2>2, PartAnswer, Zenon
<1>8. CASE rest /\ token \in {Patcher!EndTable, Patcher!EndCaption}
  <2>1. r = Patcher!Flush(Patcher!AnyPartEnd(h, token, converted))
    BY <1>k, <1>8, Zenon DEF Patcher!onAny
  <2>2. converted \in Patcher!ConvertedTo
    BY <1>8, Zenon DEF Converts
  <2> HIDE DEF r
  <2> QED
    BY <1>0, <1>8, <2>1, <2>2, PartEndAnswer, Zenon
<1>9. CASE rest /\ token \notin {Patcher!TableStart, Patcher!Text, "other", Patcher!Category, Patcher!Table,
                                 Patcher!EndTable, Patcher!EndCaption} \cup Patcher!Parts
  <2>1. r = Patcher!Flush(Patcher!Result(h, <<token>>))
    BY <1>9, Zenon DEF Patcher!onAny
  <2>2. token \notin TableTokens
    BY <1>9 DEF TableTokens
  <2> HIDE DEF r
  <2> QED
    BY <1>0, <2>1, <2>2, AnswersSame, Zenon
<1> HIDE DEF r
<1> QED
  BY <1>1, <1>2, <1>3, <1>4, <1>5, <1>6, <1>7, <1>8, <1>9

-----------------------------------------------------------------------------
LEMMA NewPatcher ==
    ASSUME NEW top \in BOOLEAN
    PROVE  LET h == Patcher!NewHandler(top)
           IN  /\ PatcherOK(h) /\ h.atTopLevel = top /\ h.wikiTableNesting = 0
               /\ h = Patcher!NewHandler(h.atTopLevel)
               /\ \A other \in BOOLEAN : [h EXCEPT !.atTopLevel = other] = Patcher!NewHandler(other)
<1> DEFINE h == Patcher!NewHandler(top)
<1>1. <<>> \in Seq(Held) /\ 0 \in Nat /\ TRUE \in BOOLEAN
  OBVIOUS
<1>2. /\ h \in PatcherFields /\ h.tokenBuf = <<>> /\ h.lastConvertedTableCellToken = "none"
      /\ h.atTopLevel = top /\ h.wikiTableNesting = 0
  BY <1>1 DEF Patcher!NewHandler, PatcherFields
<1>3. \A other \in BOOLEAN : [h EXCEPT !.atTopLevel = other] = Patcher!NewHandler(other)
  <2> SUFFICES ASSUME NEW other \in BOOLEAN PROVE [h EXCEPT !.atTopLevel = other] = Patcher!NewHandler(other)
    OBVIOUS
  <2> DEFINE g == [h EXCEPT !.atTopLevel = other]
             k == Patcher!NewHandler(other)
  <2>1. /\ g \in PatcherFields /\ g.tokenBuf = <<>> /\ g.lastConvertedTableCellToken = "none"
        /\ g.atTopLevel = other /\ g.wikiTableNesting = 0 /\ g.sol = TRUE
    BY <1>2 DEF Patcher!NewHandler, PatcherFields
  <2>2. /\ k \in PatcherFields /\ k.tokenBuf = <<>> /\ k.lastConvertedTableCellToken = "none"
        /\ k.atTopLevel = other /\ k.wikiTableNesting = 0 /\ k.sol = TRUE
    BY <1>1 DEF Patcher!NewHandler, PatcherFields
  <2> HIDE DEF g, k, h
  <2>3. g = k
    BY <2>1, <2>2 DEF PatcherFields
  <2> QED
    BY <2>3 DEF g, k
<1>4. PatcherOK(h)
  <2> HIDE DEF h
  <2> QED
    BY <1>2, Zenon DEF PatcherOK
<1>5. h = Patcher!NewHandler(h.atTopLevel)
  BY <1>2
<1> QED
  BY <1>2, <1>3, <1>4, <1>5

LEMMA PatcherBegins ==
    ASSUME Patcher!Init
    PROVE  PatcherInv
<1>1. PICK top \in BOOLEAN : handler = Patcher!NewHandler(top)
  BY Zenon DEF Patcher!Init
<1>2. /\ PatcherOK(handler) /\ handler.wikiTableNesting = 0 /\ handler = Patcher!NewHandler(handler.atTopLevel)
  BY <1>1, NewPatcher
<1>3. sent.tables = 0 /\ sent.outside = FALSE /\ 0 \in Nat /\ sent.cells \in OpenCells
  BY DEF Patcher!Init, Patcher!NothingSent, OpenCells
<1> QED
  BY <1>2, <1>3, Zenon DEF PatcherInv, Patcher!PartsInTables

\* A step that answers a token with what the handler gives for it.
LEMMA PatcherAnswers ==
    ASSUME PatcherInv, NEW token, token # Patcher!EOFTk, NEW r, Answers(handler, r, token), NEW cells \in OpenCells, NEW tpl,
           Patcher!Answer(token, r, cells, tpl),
           token = Patcher!EndTable => (~handler.atTopLevel => sent.tables > 0)
    PROVE  PatcherInv'
<1>1. PICK a \in 0..1, b \in 0..1, part \in BOOLEAN :
          /\ Has(r.tokens, a, b, part)
          /\ b = 1 => token = Patcher!EndTable
          /\ handler.atTopLevel => /\ r.handler.wikiTableNesting = handler.wikiTableNesting + a - b
                                   /\ part => handler.wikiTableNesting > 0
  BY Zenon DEF Answers
<1>2. /\ handler' = r.handler /\ input' = <<token>> /\ PatcherOK(handler')
      /\ handler'.atTopLevel = handler.atTopLevel /\ handler.atTopLevel \in BOOLEAN
      /\ handler.wikiTableNesting \in Nat /\ handler'.wikiTableNesting \in Nat
  <2>1. handler' = r.handler /\ input' = <<token>>
    BY Zenon DEF Patcher!Answer
  <2>2. PatcherOK(handler') /\ handler'.atTopLevel = handler.atTopLevel
    BY <2>1, Zenon DEF Answers
  <2>3. handler \in PatcherFields /\ handler' \in PatcherFields
    BY <2>2 DEF PatcherInv, PatcherOK
  <2> QED
    BY <2>1, <2>2, <2>3 DEF PatcherFields
<1>3. /\ sent'.tables = sent.tables + a - b /\ sent'.cells = cells
      /\ sent'.outside = (sent.tables = 0 /\ ToSet(r.tokens) \cap (Patcher!Parts \cup {Patcher!EndTable}) # {})
  <2>1. /\ Patcher!Count(r.tokens, Patcher!Table) = a /\ Patcher!Count(r.tokens, Patcher!EndTable) = b
    BY <1>1, Zenon DEF Has
  <2>2. sent' = [cells |-> cells, tpl |-> tpl,
                tables |-> sent.tables + a - b,
                outside |-> sent.tables = 0 /\ Patcher!ToSet(r.tokens) \cap (Patcher!Parts \cup {Patcher!EndTable}) # {}]
    BY <2>1, Zenon DEF Patcher!Answer
  <2>3. Patcher!ToSet(r.tokens) = ToSet(r.tokens)
    BY DEF ToSet, Patcher!ToSet
  <2> QED
    BY <2>2, <2>3
<1>4. sent.tables \in Nat /\ (handler.atTopLevel => handler.wikiTableNesting = sent.tables)
  BY Zenon DEF PatcherInv, Patcher!PartsInTables
<1>5. sent'.tables \in Nat
  <2>1. CASE handler.atTopLevel
    BY <1>1, <1>2, <1>3, <1>4, <2>1
  <2>2. CASE ~handler.atTopLevel
    BY <1>1, <1>3, <1>4, <2>2
  <2> QED
    BY <2>1, <2>2
<1>6. handler'.atTopLevel => handler'.wikiTableNesting = sent'.tables
  BY <1>1, <1>2, <1>3, <1>4
<1>7. handler'.atTopLevel => ~sent'.outside
  <2> SUFFICES ASSUME handler'.atTopLevel, sent'.outside PROVE FALSE
    OBVIOUS
  <2>1. sent.tables = 0 /\ ToSet(r.tokens) \cap (Patcher!Parts \cup {Patcher!EndTable}) # {}
    BY <1>3
  <2>2. part
    BY <1>1, <2>1, Zenon DEF Has
  <2> QED
    BY <1>1, <1>2, <1>4, <2>1, <2>2
<1>8. input' # <<Patcher!EOFTk>>
  BY <1>2
<1> QED
  BY <1>2, <1>3, <1>5, <1>6, <1>7, <1>8, Zenon DEF PatcherInv, Patcher!PartsInTables

LEMMA PatcherNext ==
    ASSUME PatcherInv, Patcher!Next
    PROVE  PatcherInv'
<1>0. PatcherOK(handler) /\ sent.cells \in OpenCells
  BY DEF PatcherInv
<1>a. \A t, c : Converts(t, c) => Answers(handler, Patcher!onAny(handler, t, c), t)
  BY <1>0, OnAny
<1>k. \A t \in {Patcher!Space, Patcher!Text, Patcher!Comment, Patcher!Meta, Patcher!Category, "other",
                Patcher!Table, Patcher!TplStart, Patcher!TplEnd, "mw:TSRMarker td", "mw:TSRMarker th", Patcher!EOFTk} :
          t # Patcher!TableStart /\ t \notin Patcher!Parts \cup {Patcher!EndTable, Patcher!EndCaption}
  BY PartsAre DEF Patcher!Space, Patcher!Text, Patcher!Comment, Patcher!Meta, Patcher!Category, Patcher!Table,
                  Patcher!TplStart, Patcher!TplEnd, Patcher!EOFTk, Patcher!TableStart, Patcher!EndTable, Patcher!EndCaption
<1>e. \A t \in {Patcher!Nl, Patcher!Space, Patcher!Text, Patcher!Comment, Patcher!Meta, Patcher!Category, "other",
                Patcher!TableStart, Patcher!Table, Patcher!EndTable, Patcher!EndCaption, Patcher!TplStart, Patcher!TplEnd,
                "mw:TSRMarker td", "mw:TSRMarker th"} \cup Patcher!Parts : t # Patcher!EOFTk
  BY PartsAre DEF Patcher!Nl, Patcher!Space, Patcher!Text, Patcher!Comment, Patcher!Meta, Patcher!Category, Patcher!Table,
                  Patcher!TplStart, Patcher!TplEnd, Patcher!EOFTk, Patcher!TableStart, Patcher!EndTable, Patcher!EndCaption
<1>c. \A t, c : t # Patcher!TableStart /\ t \notin Patcher!Parts \cup {Patcher!EndTable, Patcher!EndCaption}
                  => Converts(t, c) /\ t # Patcher!EndTable
  BY Zenon DEF Converts
<1>g. \A t : (\E c, tpl : \E cells \in OpenCells : Patcher!Answer(t, Patcher!onAny(handler, t, c), cells, tpl))
                /\ t # Patcher!EOFTk /\ t # Patcher!TableStart
                /\ t \notin Patcher!Parts \cup {Patcher!EndTable, Patcher!EndCaption} => PatcherInv'
  BY <1>a, <1>c, PatcherAnswers, Zenon
<1>1. CASE Patcher!GiveNewline
  <2> DEFINE h == handler
             g == [h EXCEPT !.sol = TRUE, !.tokenBuf = Append(h.tokenBuf, Patcher!Nl)]
             r == Patcher!onNewline(handler)
  <2>1. r = Patcher!Result(g, <<>>)
    BY Zenon DEF Patcher!onNewline
  <2>2. h \in PatcherFields /\ h.tokenBuf \in Seq(Held) /\ Patcher!Nl \in Held /\ h.wikiTableNesting \in Nat
    BY <1>0 DEF PatcherOK, PatcherFields, Held
  <2>3. /\ Append(h.tokenBuf, Patcher!Nl) \in Seq(Held)
        /\ Head(Append(h.tokenBuf, Patcher!Nl)) = Patcher!Nl
    <3>1. CASE h.tokenBuf = <<>>
      BY <2>2, <3>1
    <3>2. CASE h.tokenBuf # <<>>
      <4>1. Head(h.tokenBuf) = Patcher!Nl
        BY <1>0, <3>2 DEF PatcherOK
      <4> QED
        BY <2>2, <3>2, <4>1
    <3> QED
      BY <3>1, <3>2
  <2>4. /\ g \in PatcherFields /\ g.atTopLevel = h.atTopLevel /\ g.wikiTableNesting = h.wikiTableNesting
        /\ g.lastConvertedTableCellToken = h.lastConvertedTableCellToken
        /\ g.tokenBuf = Append(h.tokenBuf, Patcher!Nl)
    BY <2>2, <2>3 DEF PatcherFields
  <2>7. h.lastConvertedTableCellToken # "none" => h.wikiTableNesting = 0
    BY <1>0, Zenon DEF PatcherOK
  <2>8. h.wikiTableNesting = h.wikiTableNesting + 0 - 0 /\ 0 \in 0..1 /\ 0 # 1 /\ FALSE \in BOOLEAN
    BY <2>2
  <2>9. Has(<<>>, 0, 0, FALSE)
    <3>1. <<>> \in Seq(Held) /\ \A i \in 1..Len(<<>>) : <<>>[i] \notin TableTokens
      OBVIOUS
    <3> QED
      BY <3>1, HasNone, Zenon
  <2>10. Patcher!Answer(Patcher!Nl, r, sent.cells, sent.tpl)
    BY <1>1, Zenon DEF Patcher!GiveNewline
  <2> HIDE DEF g, r, h
  <2>5. PatcherOK(g)
    BY <2>3, <2>4, <2>7, Zenon DEF PatcherOK
  <2>6. r.handler = g /\ r.tokens = <<>>
    BY <2>1, PatcherResult, Zenon
  <2>11. Answers(h, r, Patcher!Nl)
    BY <2>4, <2>5, <2>6, <2>8, <2>9, Zenon DEF Answers
  <2>12. Answers(handler, r, Patcher!Nl)
    BY <2>11 DEF h
  <2>13. Patcher!Nl # Patcher!EOFTk /\ Patcher!Nl # Patcher!EndTable
    BY DEF Patcher!Nl, Patcher!EOFTk, Patcher!EndTable
  <2> QED
    BY <1>0, <2>10, <2>12, <2>13, PatcherAnswers, Zenon
<1>2. CASE Patcher!GiveSpace \/ Patcher!GiveOther \/ Patcher!GiveTable
  <2>1. PICK t \in {Patcher!Space, Patcher!Text, Patcher!Comment, Patcher!Meta, Patcher!Category, "other", Patcher!Table} :
           Patcher!Give(t)
    BY <1>2, Zenon DEF Patcher!GiveSpace, Patcher!GiveOther, Patcher!GiveTable
  <2>2. Patcher!Answer(t, Patcher!onAny(handler, t, <<t>>), sent.cells, sent.tpl)
    BY <2>1, Zenon DEF Patcher!Give
  <2> QED
    BY <1>0, <1>g, <1>k, <1>e, <2>1, <2>2, Zenon
<1>3. CASE Patcher!GiveTableStart
  <2>1. PICK retoks \in {<<Patcher!Table>>, <<Patcher!TableStart>>} :
           Patcher!Answer(Patcher!TableStart, Patcher!onAny(handler, Patcher!TableStart, retoks), sent.cells, sent.tpl)
    BY <1>3, Zenon DEF Patcher!GiveTableStart
  <2>2. Patcher!TableStart \notin Patcher!Parts \cup {Patcher!EndTable, Patcher!EndCaption} /\ Patcher!TableStart # Patcher!EOFTk
    BY PartsAre DEF Patcher!TableStart, Patcher!EndTable, Patcher!EndCaption, Patcher!EOFTk
  <2>3. Converts(Patcher!TableStart, retoks) /\ Patcher!TableStart # Patcher!EndTable
    BY <2>2, Zenon DEF Converts
  <2> QED
    BY <1>0, <1>a, <2>1, <2>2, <2>3, PatcherAnswers, Zenon
<1>4. CASE Patcher!GivePart
  <2>1. PICK n \in DOMAIN Patcher!Start, text \in Patcher!ConvertedTo :
           Patcher!Answer(Patcher!Start[n], Patcher!onAny(handler, Patcher!Start[n], text),
               IF n \in Patcher!Cells
               THEN Append(sent.cells, [name |-> n, kept |->
                        Patcher!Contains(Patcher!onAny(handler, Patcher!Start[n], text).tokens, Patcher!Start[n])])
               ELSE sent.cells, sent.tpl)
    BY <1>4, Zenon DEF Patcher!GivePart
  <2> DEFINE kept == Patcher!Contains(Patcher!onAny(handler, Patcher!Start[n], text).tokens, Patcher!Start[n])
             cells == IF n \in Patcher!Cells THEN Append(sent.cells, [name |-> n, kept |-> kept]) ELSE sent.cells
  <2>5. kept \in BOOLEAN
    BY Zenon DEF Patcher!Contains
  <2> HIDE DEF kept
  <2>6. cells \in OpenCells
    <3> DEFINE c == [name |-> n, kept |-> kept]
    <3>1. n \in Patcher!Cells => c \in [name : Patcher!Cells, kept : BOOLEAN]
      BY <2>5
    <3> HIDE DEF c
    <3>2. n \in Patcher!Cells => Append(sent.cells, c) \in OpenCells
      BY <1>0, <3>1 DEF OpenCells
    <3> QED
      BY <1>0, <3>2 DEF c
  <2>7. Patcher!Answer(Patcher!Start[n], Patcher!onAny(handler, Patcher!Start[n], text), cells, sent.tpl)
    BY <2>1, Zenon DEF kept
  <2> HIDE DEF cells
  <2>2. Patcher!Start[n] \in Patcher!Parts
    BY Zenon DEF Patcher!Parts
  <2>3. /\ Patcher!Start[n] # Patcher!TableStart /\ Patcher!Start[n] # Patcher!EndTable
        /\ Patcher!Start[n] # Patcher!EOFTk
    BY <2>2, PartsAre DEF Patcher!TableStart, Patcher!EndTable, Patcher!EOFTk
  <2>4. Converts(Patcher!Start[n], text)
    BY <2>3, Zenon DEF Converts
  <2> QED
    BY <1>a, <2>7, <2>6, <2>3, <2>4, PatcherAnswers, Zenon
<1>5. CASE Patcher!GivePartEnd
  <2>1. PICK t \in {Patcher!EndTable, Patcher!EndCaption}, text \in Patcher!ConvertedTo :
           /\ ~handler.atTopLevel => sent.tables > 0
           /\ Patcher!Answer(t, Patcher!onAny(handler, t, text), sent.cells, sent.tpl)
    BY <1>5, Zenon DEF Patcher!GivePartEnd
  <2>2. t # Patcher!TableStart /\ t # Patcher!EOFTk
    BY DEF Patcher!TableStart, Patcher!EndTable, Patcher!EOFTk, Patcher!EndCaption
  <2>3. Converts(t, text)
    BY <2>2, Zenon DEF Converts
  <2> QED
    BY <1>0, <1>a, <2>1, <2>2, <2>3, PatcherAnswers, Zenon
<1>6. CASE Patcher!GiveMarker
  <2> DEFINE n == Patcher!Last(sent.cells).name
             marker == Patcher!Marker[n]
  <2>1. /\ Patcher!Answer(marker, Patcher!onAny(handler, marker, <<marker>>), Patcher!Front(sent.cells), sent.tpl)
        /\ sent.cells # <<>>
    BY <1>6, Zenon DEF Patcher!GiveMarker
  <2>2. n \in Patcher!Cells /\ Patcher!Front(sent.cells) \in OpenCells
    <3> DEFINE R == [name : Patcher!Cells, kept : BOOLEAN]
               s == sent.cells
    <3>1. s \in Seq(R) /\ s # <<>>
      BY <1>0, <2>1 DEF OpenCells
    <3>2. \A c \in R : c.name \in Patcher!Cells
      OBVIOUS
    <3> HIDE DEF R, s
    <3>3. s[Len(s)] \in R /\ SubSeq(s, 1, Len(s) - 1) \in Seq(R)
      BY <3>1
    <3>4. /\ Patcher!Last(s) = s[Len(s)] /\ Patcher!Front(s) = SubSeq(s, 1, Len(s) - 1)
      BY DEF Patcher!Last, Patcher!Front
    <3>5. Patcher!Last(s).name \in Patcher!Cells /\ Patcher!Front(s) \in Seq(R)
      BY <3>2, <3>3, <3>4
    <3> QED
      BY <3>5 DEF s, R, OpenCells
  <2> HIDE DEF n
  <2>4. Patcher!Marker["td"] = "mw:TSRMarker td" /\ Patcher!Marker["th"] = "mw:TSRMarker th"
    BY DEF Patcher!Marker
  <2>3. marker \in {"mw:TSRMarker td", "mw:TSRMarker th"}
    BY <2>2, <2>4, Zenon DEF Patcher!Cells
  <2> HIDE DEF marker
  <2> QED
    BY <1>g, <1>k, <1>e, <2>1, <2>2, <2>3, Zenon
<1>7. CASE Patcher!GiveTemplateMark
  <2> DEFINE mark == IF sent.tpl THEN Patcher!TplEnd ELSE Patcher!TplStart
  <2>1. Patcher!Answer(mark, Patcher!onAny(handler, mark, <<mark>>), sent.cells, ~sent.tpl)
    BY <1>7, Zenon DEF Patcher!GiveTemplateMark
  <2>2. mark \in {Patcher!TplStart, Patcher!TplEnd}
    OBVIOUS
  <2> HIDE DEF mark
  <2> QED
    BY <1>0, <1>g, <1>k, <1>e, <2>1, <2>2, Zenon
<1>8. CASE Patcher!GiveEnd
  <2> DEFINE r == Patcher!onAny(handler, Patcher!EOFTk, <<Patcher!EOFTk>>)
  <2>1. /\ handler' = Patcher!NewHandler(r.handler.atTopLevel) /\ sent' = Patcher!NothingSent
    BY <1>8, Zenon DEF Patcher!GiveEnd, Patcher!onEnd
  <2>2. Answers(handler, r, Patcher!EOFTk)
    BY <1>a, <1>c, <1>k, Zenon
  <2> HIDE DEF r
  <2>3. r.handler.atTopLevel \in BOOLEAN
    BY <2>2 DEF Answers, PatcherOK, PatcherFields
  <2>4. /\ PatcherOK(handler') /\ handler'.wikiTableNesting = 0 /\ handler' = Patcher!NewHandler(handler'.atTopLevel)
    BY <2>1, <2>3, NewPatcher, Zenon
  <2>5. sent'.tables = 0 /\ sent'.outside = FALSE /\ 0 \in Nat /\ sent'.cells \in OpenCells
    BY <2>1 DEF Patcher!NothingSent, OpenCells
  <2> QED
    BY <2>4, <2>5, Zenon DEF PatcherInv, Patcher!PartsInTables
<1>9. CASE Patcher!resetState
  <2>1. /\ handler = Patcher!NewHandler(handler.atTopLevel) /\ sent' = sent
        /\ \E top \in BOOLEAN : handler' = [handler EXCEPT !.atTopLevel = top]
        /\ sent.tables = 0 /\ ~sent.outside
    BY <1>9, Zenon DEF Patcher!resetState, PatcherInv
  <2>2. handler.atTopLevel \in BOOLEAN
    BY <1>0 DEF PatcherOK, PatcherFields
  <2>3. PICK top \in BOOLEAN : handler' = Patcher!NewHandler(top)
    BY <2>1, <2>2, NewPatcher, Zenon
  <2>4. /\ PatcherOK(handler') /\ handler'.wikiTableNesting = 0 /\ handler' = Patcher!NewHandler(handler'.atTopLevel)
    BY <2>3, NewPatcher, Zenon
  <2> QED
    BY <1>0, <2>1, <2>4, Zenon DEF PatcherInv, Patcher!PartsInTables
<1> QED
  BY <1>1, <1>2, <1>3, <1>4, <1>5, <1>6, <1>7, <1>8, <1>9, Zenon DEF Patcher!Next

LEMMA PatcherHolds ==
    ASSUME PatcherInv
    PROVE  Patcher!EndLeavesNothing /\ Patcher!PartsInTables
  BY Zenon DEF PatcherInv, Patcher!EndLeavesNothing

-----------------------------------------------------------------------------
(***************************************************************************)
(* The stage                                                               *)
(***************************************************************************)

Stages == {"list", "quotes", "pre", "paragraph", "patcher", "include"}

StageInv ==
    /\ stage \in Stages
    /\ stage = "pre" => PreInv
    /\ stage = "paragraph" => ParaInv
    /\ stage = "quotes" => QuotesInv
    /\ stage = "list" => ListInv
    /\ stage = "patcher" => PatcherInv

LEMMA StageBegins ==
    ASSUME Init
    PROVE  StageInv
<1>1. CASE stage = "pre" /\ Pre!Init
  BY <1>1, PreBegins DEF StageInv, Stages
<1>2. CASE stage = "paragraph" /\ Paragraph!Init
  BY <1>2, ParaBegins DEF StageInv, Stages
<1>3. CASE stage = "quotes" /\ Quotes!Init
  BY <1>3, QuotesBegin DEF StageInv, Stages
<1>4. CASE stage = "list" /\ List!Init
  BY <1>4, ListBegins DEF StageInv, Stages
<1>5. CASE stage = "patcher" /\ Patcher!Init
  BY <1>5, PatcherBegins DEF StageInv, Stages
<1>6. CASE stage = "include"
  BY <1>6 DEF StageInv, Stages
<1> QED
  BY <1>1, <1>2, <1>3, <1>4, <1>5, <1>6, Zenon DEF Init

LEMMA StageStep ==
    ASSUME StageInv, [Next]_vars
    PROVE  StageInv'
<1>1. CASE PreStep
  <2>1. PreInv' /\ stage' = "pre"
    BY <1>1, PreNext, Zenon DEF PreStep, StageInv
  <2> QED
    BY <2>1 DEF StageInv, Stages
<1>2. CASE ParagraphStep
  <2>1. ParaInv' /\ stage' = "paragraph"
    BY <1>2, ParaNext, Zenon DEF ParagraphStep, StageInv
  <2> QED
    BY <2>1 DEF StageInv, Stages
<1>3. CASE QuotesStep
  <2>1. QuotesInv' /\ stage' = "quotes"
    BY <1>3, QuotesNext, Zenon DEF QuotesStep, StageInv
  <2> QED
    BY <2>1 DEF StageInv, Stages
<1>4. CASE ListStep
  <2>1. ListInv' /\ stage' = "list"
    BY <1>4, ListNext, Zenon DEF ListStep, StageInv
  <2> QED
    BY <2>1 DEF StageInv, Stages
<1>5. CASE PatcherStep
  <2>1. PatcherInv' /\ stage' = "patcher"
    BY <1>5, PatcherNext, Zenon DEF PatcherStep, StageInv
  <2> QED
    BY <2>1 DEF StageInv, Stages
<1>6. CASE IncludeStep
  <2>1. stage' = "include"
    BY <1>6, Zenon DEF IncludeStep
  <2> QED
    BY <2>1 DEF StageInv, Stages
<1>7. CASE UNCHANGED vars
  <2>1. /\ UNCHANGED <<stage, handler, input, output, open, tables, nested, called, sent>>
        /\ UNCHANGED quoteVars
    BY <1>7, Zenon DEF vars, fields, listVars
  <2>2. PreInv => PreInv'
    BY <2>1, Zenon DEF PreInv
  <2>3. ParaInv => ParaInv'
    BY <2>1, Zenon DEF ParaInv
  <2>4. QuotesInv => QuotesInv'
    BY <2>1, Zenon DEF QuotesInv, quoteVars
  <2>5. ListInv => ListInv'
    BY <2>1, Zenon DEF ListInv, List!Ended
  <2>6. PatcherInv => PatcherInv'
    BY <2>1, Zenon DEF PatcherInv, Patcher!PartsInTables
  <2> QED
    BY <2>1, <2>2, <2>3, <2>4, <2>5, <2>6, Zenon DEF StageInv
<1> QED
  BY <1>1, <1>2, <1>3, <1>4, <1>5, <1>6, <1>7, Zenon DEF Next

(***************************************************************************)
(* The "Cannot get here" of the handler of indented lines is never         *)
(* reached, the "Failed assertion" of the paragraph wrapper never fails,   *)
(* and the last tag of a quote that is marked as closed is never null:     *)
(* whatever tokens the handlers are given, and however many.               *)
(***************************************************************************)
THEOREM AssertionsHold == Spec => []NoFailedAssertion
<1>1. Init => StageInv
  BY StageBegins
<1>2. StageInv /\ [Next]_vars => StageInv'
  BY StageStep
<1>3. StageInv => NoFailedAssertion
  BY PreHolds, ParaHolds, QuotesHold, Zenon DEF StageInv, NoFailedAssertion
<1> QED
  BY <1>1, <1>2, <1>3, PTL DEF Spec

(***************************************************************************)
(* The end of the page closes the lists and the list items that are open,  *)
(* and leaves each handler as it was made: what one page, or one part of   *)
(* it, held or counted is never found by the next that the pipeline is     *)
(* used for.                                                               *)
(***************************************************************************)
THEOREM EndClosesAndResets == Spec => []EndLeavesNothing
<1>1. Init => StageInv
  BY StageBegins
<1>2. StageInv /\ [Next]_vars => StageInv'
  BY StageStep
<1>3. StageInv => EndLeavesNothing
  <2> SUFFICES ASSUME StageInv PROVE EndLeavesNothing
    OBVIOUS
  <2>1. CASE stage = "list"
    <3>1. List!EndCloses
      BY <2>1, ListHolds DEF StageInv
    <3> QED
      BY <2>1, <3>1 DEF EndLeavesNothing
  <2>2. CASE stage = "pre"
    <3>1. Pre!EndLeavesNothing
      BY <2>2, PreHolds DEF StageInv
    <3> QED
      BY <2>2, <3>1 DEF EndLeavesNothing
  <2>3. CASE stage = "paragraph"
    <3>1. Paragraph!EndLeavesNothing
      BY <2>3, ParaHolds DEF StageInv
    <3> QED
      BY <2>3, <3>1 DEF EndLeavesNothing
  <2>4. CASE stage = "patcher"
    <3>1. Patcher!EndLeavesNothing
      BY <2>4, PatcherHolds DEF StageInv
    <3> QED
      BY <2>4, <3>1 DEF EndLeavesNothing
  <2>5. CASE stage \in {"quotes", "include"}
    BY <2>5 DEF EndLeavesNothing
  <2> QED
    BY <2>1, <2>2, <2>3, <2>4, <2>5 DEF StageInv, Stages
<1> QED
  BY <1>1, <1>2, <1>3, PTL DEF Spec
=============================================================================
