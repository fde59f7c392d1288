------------------------------ MODULE SourceRanges ------------------------------
(***************************************************************************)
(* computeDSR.js: the range of the source each element comes from.  The    *)
(* ranges of the tags the tokenizer saw (tsr) are all there is to go by;   *)
(* the children of a node are visited from the last to the first, each     *)
(* ending where the next begins, and what a child finds out is passed on   *)
(* to the siblings behind it.  The dsr of a node is start, end and the     *)
(* widths of its tags.                                                     *)
(*                                                                         *)
(* Left out are links, entities, fragments of extensions, indent-pre, and  *)
(* the correction for stripped quote tags.                                 *)
(***************************************************************************)
EXTENDS DomTree

Plus(x, y) == IF x = Nil \/ y = Nil THEN Nil ELSE x + y
Minus(x, y) == IF x = Nil \/ y = Nil THEN Nil ELSE x - y

\* Consts.WtTagWidths
WtTagWidths(tag) ==
    CASE tag \in {"P", "UL", "TBODY", "META"} -> <<0, 0>>
      [] tag = "LI" -> <<1, 0>>
      [] tag \in {"H2", "TABLE"} -> <<2, 2>>
      [] tag \in {"TR", "TD"} -> <<Nil, 0>>
      [] OTHER -> <<Nil, Nil>>

\* tsrSpansTagDOM
SpansDOM(r) == r.tag \notin {"H2", "UL", "LI", "TABLE", "TR", "TD"} /\ ~r.html

\* computeListEltWidth: the items n is in, one list in the other.
ListEltWidth(d, n) ==
    LET first == FirstChild(d, n)
    IN  IF PreviousSibling(d, n) = None /\ IsElt(d, first) /\ d.node[first].tag = "UL" THEN 0
        ELSE Cardinality({i \in DOMAIN PathToRoot(d, n) : d.node[PathToRoot(d, n)[i]].tag = "LI"})

\* computeTagWidths, and no width for tags that were inserted.
TagWidths(d, n, st, et) ==
    LET r == d.node[n]
        wt == WtTagWidths(r.tag)
        widths == IF r.html THEN <<st, et>>
                  ELSE IF r.tag = "TR" /\ ~r.row THEN <<0, 0>>
                  ELSE <<IF st # Nil THEN st ELSE IF r.tag = "LI" THEN ListEltWidth(d, n) ELSE wt[1],
                         IF et # Nil THEN et ELSE wt[2]>>
    IN  <<IF r.autoStart THEN 0 ELSE widths[1], IF r.autoEnd THEN 0 ELSE widths[2]>>

-----------------------------------------------------------------------------
(* A child *)

\* What the end-tag or cell meta, or the marker of a transclusion, says of the
\* place it is at; right says whether the siblings behind are told.
OfMeta(d, n, ce) ==
    LET r == d.node[n]
        known == r.tsr # NoRange
        found(cs, end) == [d |-> d, cs |-> cs, ce |-> end, right |-> known, widths |-> <<Nil, Nil>>]
    IN  IF known THEN found(r.tsr[IF r.type \in {"EndTag", "TSRMarker"} THEN 2 ELSE 1], r.tsr[2])
        ELSE found(IF r.type = "StrippedTag" /\ ce # Nil THEN ce - r.src ELSE Nil, ce)

\* What the start tag of an element says.
OfTag(d, n, s, ce) ==
    LET r == d.node[n]
        spans == Num(ce) = 0 \/ r.tsr[2] > ce
        none == [cs |-> Nil, ce |-> ce, st |-> Nil, right |-> FALSE]
    IN  IF r.tsr # NoRange /\ ~r.autoStart
        THEN IF ~SpansDOM(r) THEN [none EXCEPT !.cs = r.tsr[1], !.st = r.tsr[2] - r.tsr[1]]
             ELSE [none EXCEPT !.cs = r.tsr[1], !.ce = IF spans THEN r.tsr[2] ELSE ce, !.right = spans]
        ELSE IF Num(s) # 0 /\ PreviousSibling(d, n) = None THEN [none EXCEPT !.cs = s]
        ELSE none

\* Mistake: fostered content keeps the range that was worked out for it.
WithDSROfFostered(d, n, cs, ce, origCE, widths) ==
    IF cs = Nil /\ ce = Nil THEN d
    ELSE [d EXCEPT !.node[n].dsr =
             <<cs, IF ce # Nil /\ ce < 0 THEN 0 ELSE ce, widths[1], widths[2]>>]

WithDSR(d, n, cs, ce, origCE, widths) ==
    IF cs = Nil /\ ce = Nil THEN d
    ELSE IF d.node[n].fostered
    THEN [d EXCEPT !.node[n].dsr = LET at == IF origCE # Nil /\ origCE < 0 THEN 0 ELSE origCE
                                   IN  <<at, at, Nil, Nil>>]
    ELSE [d EXCEPT !.node[n].dsr =
             <<cs, IF ce # Nil /\ ce < 0 THEN 0 ELSE ce, widths[1], widths[2]>>]

\* The siblings behind n begin where it ends, as long as nothing better is
\* known of them: [d, at], at the place of the last, Nil if one was not told.
RECURSIVE PropagateRight(_, _, _)
PropagateRight(d, n, at) ==
    LET r == d.node[n]
        dsr == IF r.dsr = NoRange THEN <<Nil, Nil, Nil, Nil>> ELSE r.dsr
        keeps == \/ r.fostered
                 \/ dsr[1] # Nil /\ (dsr[1] = at \/ (r.tsr # NoRange /\ dsr[1] < at))
        end == IF dsr[2] # Nil /\ at > dsr[2] THEN at ELSE dsr[2]
        told == [d EXCEPT !.node[n].dsr = <<at, end, dsr[3], dsr[4]>>]
        asIs == [d EXCEPT !.node[n].dsr = dsr]
    IN  IF n = None THEN [d |-> d, at |-> at, all |-> TRUE]
        ELSE IF at = Nil \/ IsTplStartMarkerMeta(d, n) THEN [d |-> d, at |-> at, all |-> FALSE]
        ELSE IF IsText(d, n) THEN PropagateRight(d, NextSibling(d, n), at + Len(r.data))
        ELSE IF keeps THEN [d |-> asIs, at |-> at, all |-> FALSE]
        ELSE PropagateRight(told, NextSibling(d, n), end)

-----------------------------------------------------------------------------
(* computeNodeDSR *)

\* The meta goes, and the texts it was between become one.
WithoutMarker(d, n) ==
    LET prev == PreviousSibling(d, n)
        next == NextSibling(d, n)
    IN  IF IsText(d, prev) /\ IsText(d, next)
        THEN Detached(Detached([d EXCEPT !.node[prev].data = @ \o d.node[next].data], next), n)
        ELSE Detached(d, n)

RECURSIVE ComputeNodeDSR(_, _, _, _)

\* An element below: its range is widened by what its children found.
Widened(d, n, tag, widths, sub) ==
    LET from == Minus(sub.s, widths[1])
        to == Plus(sub.e, widths[2])
    IN  [d |-> sub.d, right |-> tag.right, widths |-> widths,
         cs |-> IF from # Nil /\ (tag.cs = Nil \/ (d.node[n].tsr = NoRange /\ from < tag.cs))
                THEN from ELSE tag.cs,
         ce |-> IF to # Nil /\ to > Num(tag.ce) THEN to ELSE tag.ce]
OfSubtree(d, n, s, e, saved) ==
    LET tag == OfTag(d, n, s, e)
        widths == TagWidths(d, n, tag.st, saved)
    IN  Widened(d, n, tag, widths,
                ComputeNodeDSR(d, n, Plus(tag.cs, widths[1]), Minus(tag.ce, widths[2])))

\* What the loop over the children does with what was found of a child.  acc has
\* the document, the end of the node, the place the child ends at and the width
\* of its end tag, when a meta behind it told.
Settled(acc, n, found) ==
    LET d == acc.d
        r == d.node[n]
        marker == r.type \in {"EndTag", "TSRMarker"}
        set == WithDSR(found.d, n, found.cs, found.ce, acc.ce, found.widths)
        ce == IF found.ce # Nil /\ found.ce < 0 THEN 0 ELSE found.ce
        tells == /\ ce # Nil /\ ~IsTplStartMarkerMeta(d, n)
                 /\ (found.right \/ acc.e = Nil \/ (IF r.tsr = NoRange THEN Nil ELSE r.tsr[2]) # ce)
        right == PropagateRight(set, NextSibling(set, n), ce)
        prev == PreviousSibling(d, n)
        collapsed == marker /\ IsText(d, prev) /\ IsText(d, NextSibling(d, n))
        cs == IF collapsed THEN Minus(found.cs, Len(d.node[prev].data)) ELSE found.cs
        told == IF tells THEN right.d ELSE set
    IN  [d |-> IF marker THEN WithoutMarker(told, n) ELSE told,
         e |-> IF tells /\ right.all THEN right.at ELSE acc.e,
         ce |-> IF r.fostered THEN acc.ce ELSE cs,
         cs |-> cs,
         saved |-> IF r.fostered THEN acc.saved
                   ELSE IF marker /\ r.tsr # NoRange /\ prev # None /\ d.node[prev].tag = r.name
                   THEN r.tsr[2] - r.tsr[1] ELSE Nil,
         next |-> IF collapsed THEN PreviousSibling(d, prev) ELSE prev]

\* An iteration of the loop over the children.
Child(acc, n, s) ==
    Settled(acc, n, IF acc.d.node[n].tag = "META" THEN OfMeta(acc.d, n, acc.ce)
                    ELSE OfSubtree(acc.d, n, s, acc.ce, acc.saved))

OfText(acc, n) ==
    LET cs == Minus(acc.ce, Len(acc.d.node[n].data))
    IN  [acc EXCEPT !.cs = cs, !.ce = cs, !.saved = Nil, !.next = PreviousSibling(acc.d, n)]

RECURSIVE Children(_, _)
Children(acc, s) ==
    IF acc.next = None THEN acc
    ELSE IF IsText(acc.d, acc.next) THEN Children(OfText(acc, acc.next), s)
    ELSE Children(Child(acc, acc.next, s), s)

Result(done, s) == [d |-> done.d, s |-> IF done.cs = Nil THEN s ELSE done.cs, e |-> done.e]

\* n is between s and e: [d, s, e], where its children turn out to be.
ComputeNodeDSR(d, n, s, e) ==
    LET end == IF e = Nil /\ d.kids[n] = <<>> THEN s ELSE e
    IN  Result(Children([d |-> d, e |-> end, ce |-> end, cs |-> end, saved |-> Nil,
                         next |-> LastChild(d, n)], s), s)

ComputeDSR(d, length) ==
    [ComputeNodeDSR(d, Body, 0, length).d EXCEPT !.node[Body].dsr = <<0, length, 0, 0>>]
================================================================================
