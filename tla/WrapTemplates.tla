------------------------------ MODULE WrapTemplates ------------------------------
(***************************************************************************)
(* wrapTemplates.js: what came from a transclusion is between two marker   *)
(* metas, wherever the tree builder left them.  The pass finds the nodes a *)
(* transclusion spans, puts ranges that lie in or over one another into    *)
(* one, gives the nodes of a range an about id, and the first of them the  *)
(* parts: transclusions, and the wikitext between, in the order of the     *)
(* source.  A part is the range of the source it stands for, and the about *)
(* id of its transclusion, or None.                                        *)
(***************************************************************************)
EXTENDS DomTree

\* expandRangeToAvoidSpanWrapping: all there is in a paragraph is the paragraph.
Expanded(d, r, mightAddSpan) ==
    LET p == d.up[r.start]
    IN  IF /\ mightAddSpan
           /\ d.node[p].tag = "P" /\ ~d.node[p].html
           /\ FirstChild(d, p) = r.startElem /\ LastChild(d, p) = r.endElem
           /\ p = d.up[r.end]
        THEN [r EXCEPT !.start = p, !.end = p]
        ELSE r
StartsWithText(d, r) ==
    IsText(d, IF IsTplMarkerMeta(d, r.start) THEN NextSibling(d, r.start) ELSE r.start)

\* updateDSRForFirstTplNode
FirstTplDSR(d, target, source) ==
    LET src == d.node[source].dsr
        tgt == d.node[target].dsr
    IN  [d EXCEPT !.node[target].dsr =
            IF src # NoRange /\ tgt # NoRange /\ Num(tgt[2]) > Num(src[2])
            THEN <<src[1], tgt[2], tgt[3], tgt[4]>> ELSE src]

-----------------------------------------------------------------------------
(* findWrappableTemplateRanges *)

\* The lowest node above both ends, and its children on the way to them; all of
\* the start element when the end is in it.
CommonRange(d, startElem, endElem) ==
    LET above == PathToRoot(d, startElem)
        below == PathToRoot(d, endElem)
        at == Min({j \in DOMAIN below : j > 1 /\ Contains(above, below[j])})
        i == SelectInSeq(above, LAMBDA n : n = below[at])
    IN  IF i = 1 THEN [start |-> FirstChild(d, startElem), end |-> LastChild(d, startElem)]
        ELSE [start |-> above[i - 1], end |-> below[at - 1]]

\* getDOMRange, step by step: found has the range as it is, and the document d.
\* An empty range gets a span between its markers, that stands for nothing.
WithSpan(found, endElem) ==
    LET d == found.d
    IN  IF /\ d.node[found.startElem].tag = "META" /\ NextSibling(d, found.startElem) = endElem
           /\ ~IsFosterablePosition(d, found.startElem)
        THEN [found EXCEPT !.d = Inserted(d, Node("SPAN"), d.up[found.startElem], endElem)]
        ELSE found

\* Where a part of a table would hold a span, whitespace and comments go into the
\* row or the body of the table behind them; else the range is the part.
Wrappable(found) ==
    LET d == found.d
        start == found.start
        second == NextSibling(d, start)
        behind == SubSeq(Siblings(d, start), Place(d, start), Len(Siblings(d, start)))
        i == SelectInSeq(behind, LAMBDA n : IsElt(d, n))
        row == behind[i]
        part == d.up[start]
    IN  IF ~IsFosterablePosition(d, start)
           \/ (IsElt(d, start) /\ ~IsTplMarkerMeta(d, start))
           \/ (IsElt(d, start) /\ IsElt(d, second) /\ ~IsTplMarkerMeta(d, second))
        THEN found
        ELSE IF i # 0 /\ d.node[row].tag \in {"TBODY", "TR"}
        THEN [found EXCEPT !.start = row,
                           !.d = FirstTplDSR(AllInserted(d, SubSeq(behind, 1, i - 1), row, FirstChild(d, row)),
                                             row, found.startElem)]
        ELSE [found EXCEPT !.start = part, !.end = part]

\* A range starts with an element: text gets a span, or the paragraph it is all of.
StartsWithElt(found) ==
    LET d == found.d
        expanded == Expanded(d, found, TRUE)
        span == Len(d.node) + 1
        put == AppendChild(Inserted(d, Node("SPAN"), d.up[found.start], found.start), span, found.start)
    IN  IF IsElt(d, found.start) THEN found
        ELSE IF expanded # found THEN expanded
        ELSE [found EXCEPT !.start = span, !.d = FirstTplDSR(put, span, found.startElem)]

\* The nodes before a table that were fostered out of it.
RECURSIVE FirstFostered(_, _)
FirstFostered(d, n) ==
    LET prev == PreviousSibling(d, n)
    IN  IF IsElt(d, prev) /\ d.node[prev].fostered THEN FirstFostered(d, prev) ELSE n
WithFostered(found) ==
    IF found.d.node[found.start].tag = "TABLE" THEN [found EXCEPT !.start = FirstFostered(found.d, @)]
    ELSE found

\* stripDoubleTDs reads the range of the element behind the start marker.
WithRangeBehind(found) ==
    LET d == found.d
        next == NextSibling(d, found.start)
    IN  IF found.start = found.startElem /\ IsElt(d, next)
        THEN [found EXCEPT !.d = FirstTplDSR(d, next, found.startElem)] ELSE found

GetDOMRange(acc, startElem, endMeta, endElem) ==
    LET range == CommonRange(acc.d, startElem, endElem)
        all == [d |-> acc.d, startElem |-> startElem, endElem |-> endMeta,
                start |-> range.start, end |-> range.end]
        r == WithRangeBehind(WithFostered(StartsWithElt(Wrappable(WithSpan(all, endElem)))))
    IN  [acc EXCEPT
            !.d = r.d,
            !.ranges = Append(@, [id |-> r.d.node[startElem].about, startElem |-> startElem,
                                  endElem |-> endMeta, start |-> r.start, end |-> r.end,
                                  startOffset |-> r.d.node[startElem].tsr[1],
                                  flipped |-> ~InSiblingOrder(r.d, r.start, r.end)])]

FoundStart(acc, n) ==
    LET about == acc.d.node[n].about
        end == acc.ends[about]
    IN  IF end # None THEN GetDOMRange([acc EXCEPT !.starts[about] = n], n, end, end)
        ELSE [acc EXCEPT !.starts[about] = n]

\* When the paragraph the markers are in was fostered, the range goes up to
\* the table it was fostered from.
FoundEnd(acc, n) ==
    LET d == acc.d
        about == d.node[n].about
        sm == acc.starts[about]
        behind == NextSibling(d, d.up[n])
        tbl == IF IsText(d, behind) /\ d.node[behind].data = <<"n">>
               THEN NextSibling(d, behind) ELSE behind
        parent == d.node[d.up[sm]]
        adopted == d.up[n] # Body /\ IsElt(d, tbl) /\ d.node[tbl].tag = "TABLE" /\ parent.fostered
        known == IF parent.tsr # NoRange /\ d.node[tbl].dsr[1] = Nil
                 THEN [d EXCEPT !.node[tbl].dsr[1] = parent.tsr[1]] ELSE d
    IN  IF sm = None THEN [acc EXCEPT !.ends[about] = n]
        ELSE GetDOMRange(IF adopted THEN [acc EXCEPT !.d = [known EXCEPT !.node[tbl].about = about]]
                         ELSE acc,
                         sm, n, IF adopted THEN tbl ELSE n)

\* A start marker without a place in the source is in another transclusion.
RECURSIVE FindRanges(_, _)
FindRanges(acc, n) ==
    FoldLeft(LAMBDA a, c :
                 IF ~IsElt(a.d, c) THEN a
                 ELSE IF IsTplStartMarkerMeta(a.d, c) /\ a.d.node[c].tsr # NoRange THEN FoundStart(a, c)
                 ELSE IF IsTplEndMarkerMeta(a.d, c) THEN FoundEnd(a, c)
                 ELSE FindRanges(a, c),
             acc, acc.d.kids[n])

-----------------------------------------------------------------------------
(* findTopLevelNonOverlappingRanges *)

\* tmp.tplRanges: the elements that are of a range at the level of its ends.
Spanned(d, r) ==
    LET first == IF r.flipped THEN r.end ELSE r.start
        last == IF r.flipped THEN r.start ELSE r.end
    IN  {n \in ToSet(SubSeq(Siblings(d, first), Place(d, first), Len(Siblings(d, first)))) :
            IsElt(d, n) /\ (last \in ToSet(Siblings(d, first)) => Place(d, n) <= Place(d, last))}

\* findToplevelEnclosingRange: None when r is in no other.
RECURSIVE Enclosing(_, _)
Enclosing(subsumed, id) ==
    IF id = None \/ subsumed[id] = None THEN id ELSE Enclosing(subsumed, subsumed[id])

RECURSIVE LeadsTo(_, _, _)
LeadsTo(subsumed, id, to) ==
    id # None /\ (id = to \/ LeadsTo(subsumed, subsumed[id], to))

Outermost(ranges) == CHOOSE r \in ranges : \A q \in ranges : r.startOffset <= q.startOffset

\* The range r is nested in: one both ends of it are of, or one that an
\* element above is of.
NestedIn(d, rs, spans, subsumed, r) ==
    LET all == ToSet(rs)
        of(n) == {q \in all : n \in spans[q.id]}
        path == PathToRoot(d, r.start)
        others == {q \in (of(r.start) \cap of(r.end)) \ {r} :
                      /\ (r.start = q.start /\ r.end = q.end) => q.startOffset < r.startOffset
                      /\ ~LeadsTo(subsumed, subsumed[q.id], r.id)}
        up == {i \in 2..Len(path) - 1 : of(path[i]) # {}}
    IN  IF others # {} THEN Outermost(others).id
        ELSE IF up # {} THEN Outermost(of(path[Min(up)])).id
        ELSE None

\* The wikitext from one place of the source to another, as a part if there is any.
Wikitext(from, to) == IF from < to THEN <<[from |-> from, to |-> to, tpl |-> None]>> ELSE <<>>

\* Mistake: no gap between parts.
WithInfoAlone(parts, id, about, start) ==
    [parts EXCEPT ![id] = Append(@, [from |-> start.dsr[1], to |-> start.dsr[2], tpl |-> about])]

\* recordTemplateInfo: the wikitext since the part before is a part as well, and
\* that of the tag before the transclusion, which is also in the range of the
\* transclusion itself.
WithInfo(parts, id, about, start) ==
    LET dsr == start.dsr
        gap == IF parts[id] # <<>> THEN Wikitext(LastOf(parts[id]).to, dsr[1]) ELSE <<>>
        unwrapped == Wikitext(dsr[1], dsr[1] + start.unwrapped)
    IN  [parts EXCEPT ![id] = @ \o gap \o unwrapped \o <<[from |-> dsr[1], to |-> dsr[2], tpl |-> about]>>]

\* Only the metas that fostered content was wrapped in have no argument info.
Recorded(acc, id, r) ==
    IF acc.d.node[r.startElem].name = "foster" THEN acc
    ELSE [acc EXCEPT !.parts = WithInfo(@, id, r.id, acc.d.node[r.startElem])]

\* The metas between ranges that became one go (stripStartMeta).
Stripped(acc, endElem, startElem) ==
    [acc EXCEPT !.d = Removed(Removed(@, endElem), startElem)]

Overlaps(d, prev, r) ==
    InSiblingOrder(d, IF r.flipped THEN r.end ELSE r.start,
                      IF prev.flipped THEN prev.start ELSE prev.end)

\* An iteration over the ranges, in the order of the source.
Merge(acc, r) ==
    LET enclosing == Enclosing(acc.subsumed, acc.subsumed[r.id])
        last == Len(acc.ranges)
        prev == acc.ranges[last]
    IN  IF enclosing # None THEN Stripped(Recorded(acc, enclosing, r), r.endElem, r.startElem)
        ELSE IF last # 0 /\ Overlaps(acc.d, prev, r)
        THEN [Stripped(Recorded(acc, prev.id, r), prev.endElem, r.startElem) EXCEPT
                 !.subsumed[r.id] = prev.id,
                 !.ranges[last].end = r.end, !.ranges[last].endElem = r.endElem]
        ELSE [Recorded(acc, r.id, r) EXCEPT !.ranges = Append(@, r)]

TopLevelRanges(found) ==
    LET d == found.d
        rs == found.ranges
        ids == {r.id : r \in ToSet(rs)}
        spans == [i \in ids |-> UNION {Spanned(d, r) : r \in {r \in ToSet(rs) : r.id = i}}]
        subsumed == FoldLeft(LAMBDA sub, r : [sub EXCEPT ![r.id] = NestedIn(d, rs, spans, sub, r)],
                             [i \in ids |-> None], rs)
    IN  FoldLeft(Merge, [d |-> d, subsumed |-> subsumed, ranges |-> <<>>,
                         parts |-> [i \in ids |-> <<>>]],
                 SortSeq(rs, LAMBDA q, r : q.startOffset < r.startOffset))

-----------------------------------------------------------------------------
(* encapsulateTemplates *)

\* Each node of the range gets the about id; text gets a span to carry it,
\* but not in a part of a table, where only whitespace can be.
Labelled(d, n, about) ==
    IF IsElt(d, n) THEN [d EXCEPT !.node[n].about = about]
    ELSE IF IsFosterablePosition(d, n) THEN d
    ELSE LET span == [Node("SPAN") EXCEPT !.about = about]
             e == Inserted(d, span, d.up[n], n)
         IN  AppendChild(e, Len(e.node), n)

RangeNodes(d, r) ==
    LET sibs == Siblings(d, r.start)
        to == IF r.flipped THEN Len(sibs) ELSE Place(d, r.end)
    IN  SubSeq(sibs, Place(d, r.start), to)

\* The first node that can carry data-mw; None where the code throws.
Target(d, r) ==
    LET carries(n) == IsElt(d, n) /\ ~IsTplMarkerMeta(d, n)
        nodes == RangeNodes(d, r)
        at == SelectInSeq(nodes, carries)
    IN  IF at = 0 THEN None ELSE nodes[at]

\* getRangeEndDSR: of an end that is text, by the first element before it.
RangeEndDSR(d, r) ==
    LET before == SubSeq(Siblings(d, r.end), 1, Place(d, r.end) - 1)
        last == SelectLastInSeq(before, LAMBDA n : IsElt(d, n))
        dsr == IF last = 0 THEN NoRange ELSE d.node[before[last]].dsr
        from == dsr[2] + FoldLeft(LAMBDA w, n : w + Len(d.node[n].data), 0,
                                  SubSeq(before, last + 1, Len(before)))
    IN  IF IsElt(d, r.end) THEN d.node[r.end].dsr
        ELSE IF dsr = NoRange \/ dsr[2] = Nil THEN dsr
        ELSE <<from, from + Len(d.node[r.end].data)>>

\* The range as a whole, by those of its first and last node.
WholeDSR(d, r) ==
    LET first == d.node[r.start]
        end == RangeEndDSR(d, r)
        to == IF end # NoRange /\ Num(end[2]) > Num(first.dsr[2]) THEN end[2] ELSE first.dsr[2]
        fosteredFrom == /\ end # NoRange /\ d.node[r.end].tag = "TABLE" /\ end[1] # Nil
                        /\ end[1] < Num(first.dsr[1]) \/ first.fostered
    IN  IF first.dsr = NoRange THEN NoRange
        ELSE <<IF fosteredFrom THEN end[1] ELSE first.dsr[1], to>>

\* Mistake: the wikitext behind the last part is left out.
OuterBefore(parts, dsr) == Wikitext(dsr[1], parts[1].from) \o parts

\* The parts with the wikitext before the first and behind the last.
Outer(parts, dsr) ==
    LET first == IF parts[1].tpl = None THEN parts[2] ELSE parts[1]
    IN  Wikitext(dsr[1], first.from) \o parts \o Wikitext(LastOf(parts).to, dsr[2])

\* findFirstTemplatedNode: not fostered, which came from the table behind it.
RECURSIVE NotFostered(_, _)
NotFostered(d, n) == IF n # None /\ d.node[n].fostered THEN NotFostered(d, NextSibling(d, n)) ELSE n
FirstTemplatedNode(d, r) ==
    LET n == NotFostered(d, IF IsTplMarkerMeta(d, r.start) THEN NextSibling(d, r.start) ELSE r.start)
        syntax == IF d.node[n].html THEN "_html" ELSE ""
    IN  IF n = None \/ d.node[n].tag = "META" THEN "" ELSE d.node[n].tag \o syntax

\* What the target node gets, when the range of the whole is known.
WithParts(d, r, target, parts, whole) ==
    LET first == d.node[r.start]
        all == Outer(parts, whole)
        leading == all[1].tpl = None /\ parts[1].tpl # None
        mixed == IF leading THEN FirstTemplatedNode(d, r) ELSE d.node[target].firstWikitextNode
        zero == first.fostered /\ Len(all) = 1
        old(dsr) == IF dsr = NoRange THEN first.dsr ELSE dsr
    IN  [d EXCEPT
            !.node[target].parts = all,
            !.node[target].firstWikitextNode =
                IF mixed # "" THEN mixed ELSE d.node[r.startElem].firstWikitextNode,
            !.node[target].dsr =
                <<whole[1], IF zero THEN whole[1] ELSE whole[2], old(@)[3], old(@)[4]>>]

\* The first node gets the typeof of the start marker, and the parts.
Encapsulate(d, r0, parts) ==
    LET r == Expanded(d, r0, StartsWithText(d, r0))
        about == d.node[r.startElem].about
        e == FoldLeft(LAMBDA x, n : Labelled(x, n, about), d, RangeNodes(d, r))
        target == Target(e, r)
        typed == [e EXCEPT !.node[target].wrapped = TRUE]
        whole == WholeDSR(e, r)
        valid == ValidDSR(whole)
        set == IF valid THEN WithParts(typed, r, target, parts, whole) ELSE typed
        first == d.node[r.start]
    IN  IF target = None \/ (valid /\ parts = <<>>) \/ (first.fostered /\ first.dsr = NoRange)
        THEN [d EXCEPT !.threw = TRUE]
        ELSE Removed(Removed(set, r.startElem), r.endElem)

Encapsulated(top) ==
    FoldLeft(LAMBDA e, r : Encapsulate(e, r, top.parts[r.id]), top.d, top.ranges)

WrapTemplates(d) ==
    LET abouts == {d.node[n].about : n \in DOMAIN d.node}
        none == [a \in abouts |-> None]
        start == [d |-> d, starts |-> none, ends |-> none, ranges |-> <<>>]
    IN  Encapsulated(TopLevelRanges(FindRanges(start, Body)))
================================================================================
