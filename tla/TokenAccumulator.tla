-------------------------- MODULE TokenAccumulator --------------------------
(***************************************************************************)
(* TokenAccumulator of lib/wt2html/TokenTransformManager.js: the object    *)
(* between an asynchronous transform (the child), the tokens that follow   *)
(* it in the stream (the sibling) and whoever wants both (the parent).     *)
(* Tokens of the child are passed to the parent as they come; tokens of    *)
(* the sibling are buffered in chunks of equal rank until the child is     *)
(* done, and pass through after that.                                      *)
(*                                                                         *)
(* The operators are the methods, as functions of the accumulator's state: *)
(* each gives the new state, the calls of the parent that the method makes *)
(* in order, and whether its caller is handed the parent's callback.       *)
(* OneAccumulator runs them with any child and any sibling; AsyncTTM       *)
(* composes accumulators into chains.                                      *)
(***************************************************************************)
EXTENDS Integers, Sequences

CONSTANTS Token,
          Rank,          \* ranks of processed or half-processed chunks
          phaseEndRank,  \* the rank of fully processed chunks
          NoRank         \* a chunk without a rank

Chunk == [tokens : Seq(Token), rank : Rank]

\* What callbacks are given: tokens, and whether more will follow.
Ret == [tokens : Seq(Token), rank : Rank \cup {NoRank}, async : BOOLEAN]

ASSUME RankAssumption == phaseEndRank \in Rank /\ NoRank \notin Rank

NewAccumulator == [waitForChild |-> TRUE, waitForSibling |-> TRUE, siblingChunks |-> <<>>]

\* A non-empty chunk without a rank counts as fully processed.
Ranked(ret) == IF ret.tokens # <<>> /\ ret.rank = NoRank
                 THEN [ret EXCEPT !.rank = phaseEndRank] ELSE ret

\* Mistake: chunks of equal rank are joined in the wrong order.
concatTokensReversed(chunks, ret) ==
    LET n == Len(chunks)
    IN  IF ret.tokens = <<>> THEN chunks
        ELSE IF n > 0 /\ chunks[n].rank = Ranked(ret).rank
               THEN [chunks EXCEPT ![n].tokens = ret.tokens \o @]
               ELSE Append(chunks, [tokens |-> ret.tokens, rank |-> Ranked(ret).rank])

\* Mistake: a chunk without a rank is buffered as it is.
concatTokensUnranked(chunks, ret) ==
    IF ret.tokens = <<>> THEN chunks
    ELSE Append(chunks, [tokens |-> ret.tokens, rank |-> ret.rank])

\* concatTokens: a chunk of the same rank as the last one is joined to it.
concatTokens(chunks, ret) ==
    LET n == Len(chunks)
    IN  IF ret.tokens = <<>> THEN chunks
        ELSE IF n > 0 /\ chunks[n].rank = Ranked(ret).rank
               THEN [chunks EXCEPT ![n].tokens = @ \o ret.tokens]
               ELSE Append(chunks, [tokens |-> ret.tokens, rank |-> Ranked(ret).rank])

\* Mistake: every buffered chunk is passed on with the final flag.
emitTokensAllFinal(chunks, async) ==
    IF chunks = <<>>
      THEN <<[tokens |-> <<>>, rank |-> NoRank, async |-> async]>>
      ELSE [i \in 1..Len(chunks) |->
              [tokens |-> chunks[i].tokens, rank |-> chunks[i].rank, async |-> async]]

\* emitTokens: the calls of the parent that pass on the buffered chunks; all
\* but the last say that more will follow.
emitTokens(chunks, async) ==
    IF chunks = <<>>
      THEN <<[tokens |-> <<>>, rank |-> NoRank, async |-> async]>>
      ELSE [i \in 1..Len(chunks) |->
              [tokens |-> chunks[i].tokens, rank |-> chunks[i].rank,
               async |-> IF i < Len(chunks) THEN TRUE ELSE async]]

\* The first buffered chunk is joined to the child's last one when the ranks
\* agree.
JoinsChild(acc, ret) ==
    /\ ~ret.async
    /\ acc.siblingChunks # <<>>
    /\ acc.siblingChunks[1].rank = Ranked(ret).rank

\* receiveToksFromChild: the new state of the accumulator, the calls of its
\* parent, and whether its caller is handed the parent's callback.
receiveToksFromChild(acc, ret) ==
    LET joins == JoinsChild(acc, ret)
        rest  == IF joins THEN Tail(acc.siblingChunks) ELSE acc.siblingChunks
        first == [tokens |-> IF joins THEN ret.tokens \o acc.siblingChunks[1].tokens
                                      ELSE ret.tokens,
                  rank   |-> Ranked(ret).rank,
                  async  |-> ret.async \/ acc.waitForSibling \/ rest # <<>>]
    IN  IF ret.async
          THEN [acc |-> acc, calls |-> <<first>>, direct |-> FALSE]
          ELSE [acc    |-> [acc EXCEPT !.waitForChild = FALSE, !.siblingChunks = <<>>],
                calls  |-> <<first>> \o (IF rest = <<>> THEN <<>>
                                         ELSE emitTokens(rest, acc.waitForSibling)),
                direct |-> FALSE]

\* Mistake: the end of the sibling is not recorded while the child runs.
receiveToksFromSiblingForgets(acc, ret) ==
    LET waits == acc.waitForSibling /\ (ret.async \/ acc.waitForChild)
    IN  IF acc.waitForChild
          THEN [acc    |-> [acc EXCEPT !.siblingChunks = concatTokens(@, ret)],
                calls  |-> <<>>,
                direct |-> FALSE]
        ELSE IF waits
          THEN [acc |-> acc, calls |-> <<Ranked(ret)>>, direct |-> TRUE]
          ELSE [acc    |-> [acc EXCEPT !.waitForSibling = FALSE, !.siblingChunks = <<>>],
                calls  |-> emitTokens(concatTokens(acc.siblingChunks, ret), FALSE),
                direct |-> FALSE]

\* Mistake: sibling tokens are buffered until the sibling is done, too.
receiveToksFromSiblingBuffers(acc, ret) ==
    IF acc.waitForChild \/ ret.async
      THEN [acc    |-> [acc EXCEPT !.waitForSibling = @ /\ ret.async,
                                   !.siblingChunks = concatTokens(@, ret)],
            calls  |-> <<>>,
            direct |-> FALSE]
      ELSE [acc    |-> [acc EXCEPT !.waitForSibling = FALSE, !.siblingChunks = <<>>],
            calls  |-> emitTokens(concatTokens(acc.siblingChunks, ret), FALSE),
            direct |-> FALSE]

\* receiveToksFromSibling: buffer while the child is not done, afterwards pass
\* on, handing the parent's callback to the caller as long as more will follow.
receiveToksFromSibling(acc, ret) ==
    LET waits == acc.waitForSibling /\ ret.async
    IN  IF acc.waitForChild
          THEN [acc    |-> [acc EXCEPT !.waitForSibling = waits,
                                       !.siblingChunks = concatTokens(@, ret)],
                calls  |-> <<>>,
                direct |-> FALSE]
        ELSE IF waits
          THEN [acc |-> acc, calls |-> <<Ranked(ret)>>, direct |-> TRUE]
          ELSE [acc    |-> [acc EXCEPT !.waitForSibling = FALSE, !.siblingChunks = <<>>],
                calls  |-> emitTokens(concatTokens(acc.siblingChunks, ret), FALSE),
                direct |-> FALSE]
=============================================================================
