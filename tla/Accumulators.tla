------------------------------ MODULE Accumulators ------------------------------
(***************************************************************************)
(* One accumulator with any child and any sibling (OneAccumulator), and    *)
(* the chains of accumulators the asynchronous token transform manager     *)
(* builds from them (AsyncTTM).  A behaviour is one of one of the two; the *)
(* variables of the other keep their initial values.                       *)
(***************************************************************************)
EXTENDS OneAccumulator

CONSTANTS Kind, EOFKind, TextKind, Transform, SyncResult, Script, Streams  \* of AsyncTTM

VARIABLES
    part,
    stream, inputEnded, doc, mgr    \* of AsyncTTM

managerVars == <<stream, inputEnded, doc, mgr>>

Manager == INSTANCE AsyncTTM WITH closed <- inputEnded

AccumulatorsInit ==
    /\ Init
    /\ \/ /\ part = "accumulator"
          /\ stream = <<>> /\ inputEnded = FALSE /\ doc = <<>> /\ mgr = Manager!NewManager
       \/ part = "manager" /\ Manager!Init

AccumulatorStep == part = "accumulator" /\ Next /\ UNCHANGED <<part, managerVars>>
ManagerStep == part = "manager" /\ Manager!Next /\ UNCHANGED <<part, vars>>

AccumulatorsSpec ==
    AccumulatorsInit /\ [][AccumulatorStep \/ ManagerStep]_<<part, vars, managerVars>>

-----------------------------------------------------------------------------
(* Properties: those of OneAccumulator, and of the manager *)

\* The output of the manager is the expansion of its input in document order, a
\* piece at a time, whatever order the transforms call back in, and complete when
\* the stage ends, which it does once.
ManagerInOrder == Manager!InOrder

\* When the input has ended and no transform is outstanding, the stage has ended:
\* no accumulator still waits for somebody who will not call.  And until then,
\* nothing that could be emitted is held back.  The heap of accumulators refers only
\* to what is in it, and parents are older, so that their calls end.
EndsWhenDone == Manager!EndsOnce /\ Manager!AsSoonAsPossible /\ Manager!TypeOK

-----------------------------------------------------------------------------
(* For TLC: every split of short streams into chunks, of at most two tokens  *)
(* each; a manager with a small vocabulary of transforms, and every    *)
(* input of two chunks over it, the first of at most MaxChunk tokens, the     *)
(* second of at most one and the EOFTk.                                       *)

CONSTANTS tk1, tk2, MaxChunk

MCCall == [tokens : {<<>>, <<tk1>>, <<tk2>>, <<tk1, tk2>>, <<tk2, tk1>>},
           rank : Rank \cup {NoRank}, async : BOOLEAN]

\* "t": text.  "s": a synchronous expansion with an asynchronous token in it.
\* "x": one late result.  "n": two results, the first with an asynchronous
\* token to expand, the second a lone string.  "f": finished tokens, then a
\* late signal, then nothing.  "b": a start tag at once, the rest later.
MCKind == {"t", "s", "x", "n", "f", "b", "EOF"}

MCTransform == [k \in MCKind |->
    CASE k \in {"t", "EOF"} -> "none"
      [] k = "s" -> "sync"
      [] k = "b" -> "start"
      [] OTHER -> "async"]

MCSyncResult == [k \in MCKind |->
    CASE k = "s" -> <<"t", "x", "t">>
      [] k = "b" -> <<"t">>
      [] OTHER -> <<>>]

Results(kinds, rank) == [kinds |-> kinds, rank |-> rank, late |-> FALSE]
Late == [kinds |-> <<>>, rank |-> NoRank, late |-> TRUE]

MCScript == [k \in MCKind |->
    CASE k = "x" -> <<Results(<<"t">>, NoRank)>>
      [] k = "n" -> <<Results(<<"t", "x">>, 1), Results(<<"t">>, 1)>>
      [] k = "f" -> <<Results(<<"t", "t">>, 2), Late, Results(<<>>, NoRank)>>
      [] k = "b" -> <<Results(<<"x">>, NoRank), Results(<<"t">>, 2)>>
      [] OTHER -> <<>>]

MCChunk(max) == UNION {[1..n -> MCKind \ {"EOF"}] : n \in 0..max}

MCStreams == {<<c, Append(d, "EOF")>> : c \in MCChunk(MaxChunk), d \in MCChunk(1)}
=============================================================================
