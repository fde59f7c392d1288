-------------------------------- MODULE SyncTTM --------------------------------
(***************************************************************************)
(* SyncTokenTransformManager (lib/wt2html/TokenTransformManager.js): the   *)
(* in-order phases of the token pipelines.  A token goes through the       *)
(* transforms registered for its type in ascending rank; the first one     *)
(* that answers something else, or that registers or removes a transform,  *)
(* ends its way, and what was answered is pushed on a stack to be          *)
(* transformed by the ranks above.                                         *)
(*                                                                         *)
(* What a transform does is the parameter Transform: what transform t      *)
(* answers to a token, with the handlers and the registrations it leaves.  *)
(***************************************************************************)
EXTENDS Integers, SequencesExt, FiniteSetsExt

CONSTANTS
    Transform(_, _, _, _),  \* (transform, token, handlers, transformers)
    FirstRank               \* phaseEndRank - 1: below every transform of the phase

VARIABLES
    workStack,     \* chunks that are being processed, each with its rank
    transformers,  \* the registered transforms: records with a rank and a key
    handlers,      \* the state of the handlers
    output         \* the tokens emitted for this page

ttmVars == <<workStack, transformers, handlers, output>>

\* The key of a registration: what it is called for.
Key(token) ==
    CASE token.type = "String" -> "text"
      [] token.type = "EOFTk"  -> "end"
      [] OTHER                 -> "tag:" \o token.name

\* Mistake: `rank < minRank` where the code skips `rank <= minRank`.
getTransformsAgain(token, minRank) ==
    SetToSortSeq({t \in transformers : t.on \in {"any", Key(token)} /\ t.rank >= minRank},
                 LAMBDA t, u : t.rank < u.rank)

\* The transforms for the token, in ascending rank.
getTransforms(token, minRank) ==
    SetToSortSeq({t \in transformers : t.on \in {"any", Key(token)} /\ t.rank > minRank},
                 LAMBDA t, u : t.rank < u.rank)

\* The token goes through the transforms until it morphs, or until the
\* registrations change: `rank` is then that of the transform.
Push(token, minRank) ==
    FoldLeft(LAMBDA r, t :
                 IF r.modified THEN r
                 ELSE LET res == Transform(t, token, r.handlers, transformers)
                      IN  [tokens |-> res.tokens, rank |-> t.rank,
                           handlers |-> res.handlers, transformers |-> res.transformers,
                           modified |-> res.tokens # <<token>> \/ res.transformers # transformers],
             [tokens |-> <<token>>, rank |-> minRank, handlers |-> handlers,
              transformers |-> transformers, modified |-> FALSE],
             getTransforms(token, minRank))

\* Mistake: the end of the page is added without looking whether it is there.
KeepEOFAlways(token, tokens) ==
    IF token.type = "EOFTk" THEN Append(tokens, token) ELSE tokens

\* A handler must not drop the end of the page.
KeepEOF(token, tokens) ==
    IF token.type = "EOFTk" /\ tokens # <<>> /\ Last(tokens).type # "EOFTk"
    THEN Append(tokens, token)
    ELSE tokens

pushChunk(stack, tokens, rank) == Append(stack, [tokens |-> tokens, rank |-> rank])

onChunk(tokens) ==
    /\ workStack = <<>>
    /\ workStack' = pushChunk(<<>>, tokens, FirstRank)
    /\ UNCHANGED <<transformers, handlers, output>>

\* One turn of the loop of onChunk: the next token of the last chunk.
ProcessToken ==
    /\ workStack # <<>>
    /\ LET curChunk == Last(workStack)
           token    == Head(curChunk.tokens)
           rest     == IF Len(curChunk.tokens) = 1
                       THEN Front(workStack)
                       ELSE Append(Front(workStack), [curChunk EXCEPT !.tokens = Tail(@)])
           res      == Push(token, curChunk.rank)
       IN  /\ handlers' = res.handlers
           /\ transformers' = res.transformers
           /\ workStack' = IF res.modified /\ res.tokens # <<>>
                           THEN pushChunk(rest, KeepEOF(token, res.tokens), res.rank)
                           ELSE rest
           /\ output' = IF ~res.modified \/ (res.tokens = <<>> /\ token.type = "EOFTk")
                        THEN Append(output, token)
                        ELSE output

-----------------------------------------------------------------------------
(***************************************************************************)
(* What is on the stack has ranks that rise towards its top: an answer is  *)
(* never given back to the transform that made it, nor to an earlier one,  *)
(* so the loop ends whatever the transforms answer.                        *)
(***************************************************************************)
RanksRise ==
    \A i \in 2..Len(workStack) : workStack[i-1].rank < workStack[i].rank

(***************************************************************************)
(* The end of a page is emitted once and after everything else: handlers   *)
(* hold tokens back and flush them when they see it.                       *)
(***************************************************************************)
EOFIsLast ==
    \A i \in 1..Len(output) :
        output[i].type = "EOFTk" => i = Len(output) /\ workStack = <<>>
=============================================================================
