----------------------------- MODULE DOMNormalizer -----------------------------
(***************************************************************************)
(* What is done to the edited page before it is written.                   *)
(*                                                                         *)
(* It is compared with the original one, `a`, which marks in the edited    *)
(* page, `b`, what is not as it was (lib/html2wt/DOMDiff.js, marks as in   *)
(* DiffUtils.js).  What is left without marks is taken from the source of  *)
(* the original page by the serializer.  The mark of a place that          *)
(* something was deleted from, or of text that is new, is a node of its    *)
(* own, named DIFF.  data-mw is an attribute among the others, `attr`: how *)
(* two values of it are compared is left out.                              *)
(*                                                                         *)
(* Then it is made ready (lib/html2wt/DOMNormalizer.js): quotes side by    *)
(* side become one, and, if the client asks for it (scrubWikitext), what   *)
(* is empty goes and what is invisible leaves the headings.  What changes  *)
(* here has to be marked as the comparison would have marked it, else the  *)
(* serializer takes it from the source, where it is as it was.             *)
(*                                                                         *)
(* z is the page, z.d, with the mode and whether the node at hand is in    *)
(* something new.  Links have only text in them: the formatting that is    *)
(* moved out of them is left out, as are bidirectional characters.         *)
(***************************************************************************)
EXTENDS PageDOM

Emitted == INSTANCE EmittedText

-----------------------------------------------------------------------------
(* DOMDiff *)

nextNonTemplateSibling(d, n) ==
    IF isEncapsulationWrapper(d, n) THEN skipOverEncapsulatedContent(d, n) ELSE nextSibling(d, n)

\* n, and what is looked at after it when looking ahead.
Ahead(d, n) ==
    LET ahead[x \in Int] == IF x = None THEN <<>> ELSE <<x>> \o ahead[nextNonTemplateSibling(d, x)]
    IN  ahead[n]

\* treeEquals of the nodes alone: attributes but about, data-parsoid and data-mw.
NodesEqual(a, m, b, n) ==
    LET seen(x) == <<x.name, x.text, x.stx, x.dsr, x.isNew, x.startSrc, x.attr, x.first>>
    IN  seen(a[m]) = seen(b[n])
\* ... and of all below them.
TreesEqual(a, root, b, root2) ==
    LET equal[m \in Int, n \in Int] ==
            /\ NodesEqual(a, m, b, n)
            /\ Len(a[m].kids) = Len(b[n].kids)
            /\ \A i \in 1..Len(a[m].kids) : equal[a[m].kids[i], b[n].kids[i]]
    IN  equal[root, root2]

-----------------------------------------------------------------------------
(* Marks *)

NewId(d) == Max(DOMAIN d) + 1
\* prependTypedMeta.
Before(d, n, marks) ==
    LET id == NewId(d)
        meta == [d[n] EXCEPT !.name = "DIFF", !.kids = <<>>, !.text = <<>>, !.stx = "", !.dsr = <<>>,
                             !.isNew = FALSE, !.about = 0, !.first = FALSE, !.marks = marks]
    IN  [d EXCEPT ![d[n].parent].kids = InsertAt(@, Place(d, n), id)] @@ (id :> meta)
\* setDiffMark: what is not an element keeps no marks.
Marked(d, n, mark) == IF isElt(d, n) THEN [d EXCEPT ![n].marks = @ \cup {mark}] ELSE d

\* Mistake: the place of what was deleted is not marked.
markNodeNoDeleted(d, n, mark, block) ==
    IF mark = "deleted" THEN Marked(d, d[n].parent, "children-changed")
    ELSE IF mark = "inserted"
    THEN Marked(IF isElt(d, n) THEN Marked(d, n, mark) ELSE Before(d, n, {mark}),
                d[n].parent, "children-changed")
    ELSE Marked(d, n, mark)

markNode(d, n, mark, block) ==
    LET marked == IF mark = "deleted" THEN Before(d, n, {mark} \cup (IF block THEN {"block"} ELSE {}))
                  ELSE IF mark = "inserted" /\ ~isElt(d, n) THEN Before(d, n, {mark})
                  ELSE Marked(d, n, mark)
    IN  IF mark \in {"deleted", "inserted"} THEN Marked(marked, d[n].parent, "children-changed")
        ELSE marked

-----------------------------------------------------------------------------
(* doDOMDiff.  A pass of its loop is given the pair x, y of an original and an edited *)
(* node and gives the pair that was matched; `stay` if y is still to be matched.      *)

Pair(b, changed, x, y, stay) == [b |-> b, changed |-> changed, x |-> x, y |-> y, stay |-> stay]

\* The first of these that n, of the other page, is the same as.
Found(d, seq, e, n) ==
    LET same == {i \in 1..Len(seq) : isContentNode(d, seq[i]) /\ TreesEqual(d, seq[i], e, n)}
    IN  IF same = {} THEN 0 ELSE Min(same)

\* Of the nodes that are gone, is the last that counts a block?
LastIsBlock(a, gone) ==
    LET counts == SelectSeq(Tail(gone), LAMBDA x : ~emitsSolTransparentSingleLineWT(a, x))
    IN  isBlockNodeWithVisibleWT(a, Last(<<gone[1]>> \o counts))

\* Look-ahead in the new DOM: what was skipped is new.
Insertion(a, b, x, y) ==
    LET ahead == IF nextSibling(b, y) = None THEN <<>> ELSE Ahead(b, nextSibling(b, y))
        i == IF isContentNode(a, x) THEN Found(b, ahead, a, x) ELSE 0
        new == <<y>> \o SelectSeq(Following(b, y), LAMBDA z : Place(b, z) < Place(b, ahead[i]))
    IN  IF i = 0 THEN {}
        ELSE {Pair(FoldLeft(LAMBDA e, z : markNode(e, z, "inserted", FALSE), b, new),
                   TRUE, x, ahead[i], FALSE)}

\* Look-ahead in the base DOM: what was skipped is deleted.
Deletion(a, b, x, y) ==
    LET ahead == IF nextSibling(a, x) = None THEN <<>> ELSE Ahead(a, nextSibling(a, x))
        i == IF isContentNode(b, y) THEN Found(a, ahead, b, y) ELSE 0
    IN  IF i = 0 THEN {}
        ELSE {Pair(markNode(b, y, "deleted", LastIsBlock(a, <<x>> \o SubSeq(ahead, 1, i - 1))),
                   TRUE, ahead[i], y, FALSE)}

RECURSIVE Compared(_, _, _, _)

\* The subtrees, if neither is of a template.
Deeper(a, b, x, y) ==
    IF isEncapsulationWrapper(a, x) \/ isEncapsulationWrapper(b, y) THEN [b |-> b, changed |-> FALSE]
    ELSE LET Below(c) == [c EXCEPT !.b = IF c.changed THEN Marked(@, y, "subtree-changed") ELSE @]
         IN  Below(Compared(a, b, x, y))

\* Neither was found among what follows.
Modified(a, b, x, y) ==
    LET deleted == markNode(b, y, "deleted", isBlockNodeWithVisibleWT(a, x))
    IN  IF ~isElt(b, y) THEN Pair(deleted, TRUE, x, y, FALSE)
        ELSE IF a[x].name = b[y].name /\ a[x].stx = b[y].stx
        THEN Pair(Deeper(a, markNode(b, y, "modified-wrapper", FALSE), x, y).b, TRUE, x, y, FALSE)
        ELSE Pair(deleted, TRUE, x, y, TRUE)

\* Mistake: what is below equal elements is not compared.
MatchedShallow(a, b, x, y) ==
    IF NodesEqual(a, x, b, y) THEN Pair(b, FALSE, x, y, FALSE) ELSE Modified(a, b, x, y)

Matched(a, b, x, y) ==
    IF NodesEqual(a, x, b, y)
    THEN LET Same(c) == Pair(c.b, c.changed, x, y, FALSE) IN Same(Deeper(a, b, x, y))
    ELSE LET Or(found, others) == IF found = {} THEN others ELSE found
             pair == CHOOSE p \in Or(Insertion(a, b, x, y), Or(Deletion(a, b, x, y), {Modified(a, b, x, y)})) : TRUE
         IN  [pair EXCEPT !.b = Marked(@, b[y].parent, "children-changed")]

\* What is left of the children of either parent when the other has no more.
Trailing(a, b, x, y, parent) ==
    IF y # None
    THEN [b |-> FoldLeft(LAMBDA e, z : markNode(e, z, "inserted", FALSE), b, Ahead(b, y)), changed |-> TRUE]
    ELSE IF x # None
    THEN LET marked == Marked(b, parent, "children-changed")
             marks == {"deleted"} \cup (IF isBlockNodeWithVisibleWT(a, x) THEN {"block"} ELSE {})
             after == Before(marked, lastChild(b, parent), marks)
             last == NewId(b)
         IN  [b |-> IF b[parent].kids = <<>> THEN marked
                    ELSE [after EXCEPT ![parent].kids = Append(b[parent].kids, last)],
              changed |-> TRUE]
    ELSE [b |-> b, changed |-> FALSE]

RECURSIVE doDOMDiff(_, _, _, _, _)
doDOMDiff(a, b, x, y, parent) ==
    IF x = None \/ y = None THEN Trailing(a, b, x, y, parent)
    ELSE LET Rest(pair) ==
                 [doDOMDiff(a, pair.b, nextNonTemplateSibling(a, pair.x),
                            IF pair.stay THEN pair.y ELSE nextNonTemplateSibling(pair.b, pair.y), parent)
                     EXCEPT !.changed = @ \/ pair.changed]
         IN  Rest(Matched(a, b, x, y))

Compared(a, b, m, n) == doDOMDiff(a, b, firstChild(a, m), firstChild(b, n), n)

\* DOMDiff.diff: the marked page, and whether there is a mark.
diff(a, b) == Compared(a, b, Body, Body)

-----------------------------------------------------------------------------
(* DOMNormalizer *)

WTQuoteTags == {"B", "I"}

-----------------------------------------------------------------------------
(* The DOM *)

Detached(d, n) == [d EXCEPT ![d[n].parent].kids = SelectSeq(@, LAMBDA k : k # n)]
InTree(d, n) == Contains(d[d[n].parent].kids, n)
\* insertBefore: at the end if there is no `before`.
MovedTo(d, n, parent, before) ==
    LET out == Detached(d, n)
        kids == out[parent].kids
    IN  [out EXCEPT ![n].parent = parent,
                    ![parent].kids = IF before = None THEN Append(kids, n)
                                     ELSE InsertAt(kids, Place(out, before), n)]
migrateChildren(d, from, to, before) ==
    FoldLeft(LAMBDA e, k : MovedTo(e, k, to, before), d, d[from].kids)
\* A new node before n, and the DOM with it.
Created(d, n, name, text) ==
    [Before(d, n, {}) EXCEPT ![NewId(d)].name = name, ![NewId(d)].text = text, ![NewId(d)].first = FALSE]

Descendants(d, n) ==
    LET below[x \in Int] ==
            FlattenSeq([i \in 1..Len(d[x].kids) |-> <<d[x].kids[i]>> \o below[d[x].kids[i]]])
    IN  below[n]
\* Node.normalize: texts side by side are one, and empty ones are gone.
Joined(d, p) ==
    LET join(e, k) ==
            LET before == IF e[p].kids = <<>> THEN None ELSE Last(e[p].kids)
            IN  IF ~isText(e, k) THEN [e EXCEPT ![p].kids = Append(@, k)]
                ELSE IF e[k].text = <<>> THEN e
                ELSE IF before # None /\ isText(e, before) THEN [e EXCEPT ![before].text = @ \o e[k].text]
                ELSE [e EXCEPT ![p].kids = Append(@, k)]
    IN  FoldLeft(join, [d EXCEPT ![p].kids = <<>>], d[p].kids)
normalize(d, n) == FoldLeft(Joined, d, <<n>> \o Descendants(d, n))

hasNChildren(d, n, count, countDiffMarkers) ==
    Len(IF countDiffMarkers THEN d[n].kids ELSE OnlyThere(d, d[n].kids)) = count
nodeEssentiallyEmpty(d, n) ==
    \A k \in Range(d[n].kids) : isDiffMarker(d, k) \/ (isText(d, k) /\ Range(d[k].text) \subseteq {" "})
isRenderingTransparentNode(d, n) == isComment(d, n) \/ d[n].name \in {"META", "LINK"}

-----------------------------------------------------------------------------
(* Marks *)

hasDiffMark(d, n, mark) ==
    IF mark = "deleted" \/ (mark = "inserted" /\ ~isElt(d, n))
    THEN n # Body /\ isDiffMarker(d, previousSibling(d, n)) /\ mark \in d[previousSibling(d, n)].marks
    ELSE mark \in d[n].marks

\* DiffUtils.addDiffMark.  What is before the body is not written.
addDiffMark(d, n, mark) ==
    IF mark \in {"deleted", "moved"} \/ ~isElt(d, n)
    THEN IF n = Body THEN d ELSE Before(d, n, {mark})
    ELSE Marked(d, n, mark)

SubtreeChanged(d, n) ==
    LET up == SelectSeq(Ancestors(d, n), LAMBDA p : p # Body)
        had == {i \in 1..Len(up) : hasMark(d, up[i], "subtree-changed")}
        to == IF had = {} THEN Len(up) ELSE Min(had) - 1
    IN  FoldLeft(LAMBDA e, p : IF isNewElt(e, p) THEN e ELSE Marked(e, p, "subtree-changed"), d, SubSeq(up, 1, to))

\* Mistake: what is changed after the comparison is not marked.
addDiffMarksNever(z, n, mark, dontRecurse) == z

addDiffMarks(z, n, mark, dontRecurse) ==
    LET marked == IF isNewElt(z.d, n) THEN z.d ELSE addDiffMark(z.d, n, mark)
        outer == IF ~isNewElt(z.d, n) /\ mark \in {"inserted", "deleted"} /\ n # Body
                 THEN addDiffMark(marked, z.d[n].parent, "children-changed") ELSE marked
    IN  IF ~z.selser \/ hasDiffMark(z.d, n, mark) \/ (z.in /\ mark = "inserted") THEN z
        ELSE [z EXCEPT !.d = IF dontRecurse THEN outer ELSE SubtreeChanged(outer, n)]

\* <<n, mark>> ... without what is above.
MarkAll(z, marks) == FoldLeft(LAMBDA e, m : addDiffMarks(e, m[1], m[2], TRUE), z, marks)

-----------------------------------------------------------------------------
(* Quotes, and links.  Of attributes only those of HTML tags and of links are looked at. *)

similar(d, a, b) ==
    LET html == {x \in {a, b} : isLiteralHTMLNode(d, x)}
    IN  IF d[a].name = "A" THEN d[a].attr = d[b].attr
        ELSE html = {} \/ (html = {a, b} /\ d[a].attr = d[b].attr)
mergable(d, a, b) == d[a].name = d[b].name /\ similar(d, a, b)
\* <b><i>x</i></b><i>y</i> => <i><b>x</b>y</i>
swappable(d, a, b) ==
    LET c == firstNonDeletedChild(d, a)
    IN  Len(OnlyThere(d, d[a].kids)) = 1 /\ similar(d, a, c) /\ mergable(d, c, b)
\* Links only if one of them is new.
rewriteablePair(d, a, b, scrub) ==
    \/ d[a].name \in WTQuoteTags /\ d[b].name \in WTQuoteTags
    \/ scrub /\ d[a].name = "A" /\ d[b].name = "A" /\ (isNewElt(d, a) \/ isNewElt(d, b))

\* All of b's children go to a, and what was between the two, a mark.
merge(z, a, b) ==
    LET next == nextSibling(z.d, a)
        sentinel == firstChild(z.d, b)
        between == IF next = b THEN z.d ELSE MovedTo(z.d, next, a, None)
        merged == normalize(Detached(migrateChildren(between, b, a, None), b), a)
        inner == IF sentinel = None THEN <<>>
                 ELSE (IF InTree(merged, sentinel) THEN <<<<sentinel, "moved">>>> ELSE <<>>)
                          \o <<<<a, "children-changed">>>>
        after == IF nextSibling(merged, a) = None THEN <<>> ELSE <<<<nextSibling(merged, a), "moved">>>>
    IN  addDiffMarks(MarkAll([z EXCEPT !.d = merged], inner \o after), merged[a].parent, "children-changed", FALSE)

\* Mistake: a has become the child of b, which still has its own.
swapShallow(z, a, b) == [z EXCEPT !.d = MovedTo(MovedTo(@, b, @[a].parent, a), a, b, None)]

\* b, the only child of a, becomes its parent.
swap(z, a, b) ==
    LET out == MovedTo(migrateChildren(z.d, b, a, None), b, z.d[a].parent, a)
        swapped == MovedTo(out, a, b, None)
        c == firstChild(swapped, a)
    IN  addDiffMarks(
            MarkAll([z EXCEPT !.d = swapped],
                    (IF c = None THEN <<>> ELSE <<<<c, "moved">>>>)
                        \o <<<<a, "moved">>, <<b, "moved">>, <<a, "children-changed">>, <<b, "children-changed">>>>),
            swapped[b].parent, "children-changed", FALSE)

-----------------------------------------------------------------------------
(* Only if the client asks for it.  The result of these is z and what is at the place *)
(* of the node now.                                                                   *)

Is(z, n) == [z |-> z, n |-> n]

\* What is not rendered leaves a heading, at its start or at its end.
hoistLinks(z, n, rtl) ==
    LET d == z.d
        kids == OnlyThere(d, IF rtl THEN Reverse(d[n].kids) ELSE d[n].kids)
        stops == {i \in 1..Len(kids) : isContentNode(d, kids[i])
                      /\ (~isRenderingTransparentNode(d, kids[i]) \/ isEncapsulationWrapper(d, kids[i]))}
        to == IF stops = {} THEN Len(kids) ELSE Min(stops) - 1
        sibling == IF stops = {} THEN None ELSE kids[Min(stops)]
        moved == FoldLeft(LAMBDA e, k : MovedTo(e, k, e[n].parent, IF rtl THEN nextNonDeletedSibling(e, n) ELSE n),
                          d, SubSeq(kids, 1, to))
        inner == {i \in 0..Len(d[sibling].text) :
                      \A j \in 1..i : d[sibling].text[IF rtl THEN Len(d[sibling].text) + 1 - j ELSE j] \in Spaces}
        trimmed == IF sibling = None \/ ~isText(d, sibling) THEN moved
                   ELSE [moved EXCEPT ![sibling].text =
                            IF rtl THEN SubSeq(@, 1, Len(@) - Max(inner)) ELSE SubSeq(@, Max(inner) + 1, Len(@))]
        marks == <<<<kids[1], "moved">>>> \o (IF sibling = None THEN <<>> ELSE <<<<sibling, "moved">>>>)
                     \o <<<<n, "children-changed">>>>
    IN  IF \A i \in 1..to : ~isContentNode(d, kids[i]) THEN z
        ELSE addDiffMarks(MarkAll([z EXCEPT !.d = trimmed], marks), d[n].parent, "children-changed", FALSE)

\* A line break within is a space.
stripBRs(z, n) ==
    LET brs == SelectSeq(Descendants(z.d, n), LAMBDA k : z.d[k].name = "BR")
    IN  [z EXCEPT !.d = FoldLeft(LAMBDA e, br : Detached(Created(e, br, "#text", <<" ">>), br), @, brs)]

stripIfEmpty(z, n) ==
    IF ~nodeEssentiallyEmpty(z.d, n) THEN Is(z, n)
    ELSE Is([addDiffMarks(z, n, "deleted", TRUE) EXCEPT !.d = Detached(@, n)], nextNonDeletedSibling(z.d, n))

\* Spaces at the end of a link go behind it, if anything follows that does not begin with one.
moveTrailingSpacesOut(z, n) ==
    LET d == z.d
        last == lastNonDeletedChild(d, n)
        next == nextNonDeletedSibling(d, n)
        spaces == Max({k \in 0..Len(d[last].text) : \A j \in 1..k : d[last].text[Len(d[last].text) + 1 - j] \in Spaces})
        space == SubSeq(d[last].text, Len(d[last].text) - spaces + 1, Len(d[last].text))
        trimmed == [d EXCEPT ![last].text = SubSeq(@, 1, Len(@) - spaces)]
        joins == next # None /\ isText(d, next)
        spaced == IF joins THEN [trimmed EXCEPT ![next].text = space \o @] ELSE Created(trimmed, next, "#text", space)
        moved == IF next = None \/ (joins /\ d[next].text # <<>> /\ d[next].text[1] \in Spaces)
                 THEN [z EXCEPT !.d = trimmed]
                 ELSE addDiffMarks([z EXCEPT !.d = spaced], IF joins THEN next ELSE NewId(d), "inserted", TRUE)
    IN  IF last = None \/ ~isText(d, last) THEN z
        ELSE IF spaces = 0 THEN z
        ELSE addDiffMarks(addDiffMarks(moved, last, "inserted", TRUE), d[n].parent, "children-changed", FALSE)

\* The first text of a cell would be read with the bar before it.
spaceBeforeEscapable(z, n) ==
    LET d == z.d
        c == firstNonDeletedChild(d, n)
    IN  IF \/ d[n].stx = "html"
           \/ firstNonSepChild(d, d[n].parent) # n /\ d[n].stx = "row"
           \/ c = None \/ ~isText(d, c) \/ d[c].text = <<>> \/ d[c].text[1] \notin {"-", "+", "}"}
        THEN z
        ELSE addDiffMarks([z EXCEPT !.d[c].text = <<" ">> \o @], c, "inserted", TRUE)

\* A font without attributes: what is in it stays.
Unwrapped(z, n) ==
    Is([z EXCEPT !.d = Detached(migrateChildren(@, n, @[n].parent, n), n)], nextNonDeletedSibling(z.d, n))

isInsertedContent(d, n) == \E x \in {n} \cup Range(Ancestors(d, n)) : hasInsertedDiffMark(d, x)

\* An empty paragraph is a line break, in the next one if there is one.
toLineBreak(z, n) ==
    LET d == z.d
        next == nextNonSepSibling(d, n)
        joins == next # None /\ d[next].name = "P" /\ ~isLiteralHTMLNode(d, next)
        br == NewId(d)
        made == Created(d, n, "BR", <<>>)
        placed == IF joins THEN MovedTo(made, br, next, firstChild(made, next)) ELSE made
        marked == IF joins /\ ~isInsertedContent(placed, next)
                  THEN addDiffMarks([z EXCEPT !.d = placed], br, "inserted", FALSE) ELSE [z EXCEPT !.d = placed]
        over == addDiffMarks(marked, d[n].parent, "deleted", FALSE)
    IN  Is([over EXCEPT !.d = Detached(@, n)], next)
isEmptyParagraph(d, n) ==
    /\ d[n].name = "P" /\ ~isLiteralHTMLNode(d, n)
    /\ hasNChildren(d, n, 0, TRUE)
    /\ ~hasNChildren(d, d[n].parent, 1, FALSE)

\* What is as it was needs none of this.
Unmodified(z, n) ==
    /\ z.selser /\ n # Body /\ ~z.in /\ ~hasDiffMarkers(z.d, n)
    /\ Emitted!origSrcValidInEditedContext(z.d, n)

RECURSIVE processSubtree(_, _, _), normalizeSiblingPair(_, _, _)

\* moveFormatTagOutsideATag: a link that follows becomes one with it.  The walk goes on
\* from the first of the two.
withNextLink(z, n) ==
    LET next == nextNonDeletedSibling(z.d, n)
    IN  Is(IF next = None THEN z ELSE normalizeSiblingPair(z, n, next).z, n)
normalizeLink(z, n) ==
    IF z.d[n].attr \in Emitted!Titles /\ nodeEssentiallyEmpty(z.d, n) THEN stripIfEmpty(z, n)
    ELSE withNextLink(moveTrailingSpacesOut(z, n), n)

normalizeNode(z, n) ==
    IF ~z.scrub \/ Unmodified(z, n) THEN Is(z, n)
    ELSE IF z.d[n].name \in Headings
    THEN stripIfEmpty(stripBRs(hoistLinks(hoistLinks(z, n, FALSE), n, TRUE), n), n)
    ELSE IF z.d[n].name \in WTQuoteTags THEN stripIfEmpty(z, n)
    ELSE IF z.d[n].name = "A" THEN normalizeLink(z, n)
    ELSE IF z.d[n].name = "TD" THEN Is(spaceBeforeEscapable(z, n), n)
    ELSE IF z.d[n].name = "FONT" /\ z.d[n].attr = "" THEN Unwrapped(z, n)
    ELSE IF isEmptyParagraph(z.d, n) THEN toLineBreak(z, n)
    ELSE Is(z, n)

-----------------------------------------------------------------------------
(* The walk *)

RECURSIVE processNode(_, _, _), Siblings2(_, _, _)

\* The pair a, b of siblings, and which of them the next pair begins with.  Of one that
\* was merged the children have new neighbours, but not their children.
normalizeSiblingPair(z, a, b) ==
    LET Again(y, x) == Is(processSubtree(y, x, FALSE), x)
        ca == firstNonDeletedChild(z.d, a)
        cb == firstNonDeletedChild(z.d, b)
    IN  IF ~rewriteablePair(z.d, a, b, z.scrub) THEN Is(z, b)
        ELSE IF mergable(z.d, a, b) THEN Again(merge(z, a, b), a)
        ELSE IF swappable(z.d, a, b) THEN Again(merge(swap(z, a, ca), ca, b), ca)
        ELSE IF swappable(z.d, b, a) THEN Again(merge(swap(z, b, cb), a, cb), a)
        ELSE Is(z, b)

Siblings2(z, a, recurse) ==
    LET Pair2(r) ==
            IF r.n # None /\ previousNonDeletedSibling(r.z.d, r.n) = a THEN normalizeSiblingPair(r.z, a, r.n) ELSE r
        Next(r) == Siblings2(r.z, r.n, recurse)
    IN  IF a = None THEN z
        ELSE IF nextNonDeletedSibling(z.d, a) = None THEN z
        ELSE Next(Pair2(processNode(z, nextNonDeletedSibling(z.d, a), recurse)))

processSubtree(z, n, recurse) ==
    LET Rest(r) == Siblings2(r.z, r.n, recurse)
    IN  IF firstNonDeletedChild(z.d, n) = None THEN z
        ELSE Rest(processNode(z, firstNonDeletedChild(z.d, n), recurse))

\* Until the node at its place is one that stays.  Templates are left alone.
processNode(z, n, recurse) ==
    LET new == hasInsertedDiffMark(z.d, n)
        entered == [z EXCEPT !.in = @ \/ new]
        Left(r) == [r EXCEPT !.z.in = IF new THEN FALSE ELSE @]
        Stable(r) == IF r.n = n THEN r ELSE processNode(r.z, r.n, recurse)
        Node(y) == Stable(Left(normalizeNode(y, n)))
    IN  IF n = None THEN Is(z, None)
        ELSE IF isFirstEncapsulationWrapperNode(z.d, n)
        THEN processNode(z, skipOverEncapsulatedContent(z.d, n), recurse)
        ELSE Node(IF recurse /\ isElt(z.d, n) THEN processSubtree(entered, n, TRUE) ELSE entered)

\* DOMNormalizer.normalize, of a page that is compared with the original one or not.
normalized(d, selser, scrub) ==
    LET z == [d |-> d, selser |-> selser, scrub |-> scrub, in |-> FALSE]
    IN  processNode(z, Body, TRUE).z.d
=============================================================================
