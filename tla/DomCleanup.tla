------------------------------- MODULE DomCleanup -------------------------------
(***************************************************************************)
(* The passes that follow the wrapping of transclusions: those of lists    *)
(* (handlers/liFixups.js) and tables (handlers/tableFixups.js), the        *)
(* removal of what is left of the markers, and handlers/cleanup.js.        *)
(* DOMTraverser takes them through the tree from the top; tplInfo says a   *)
(* node is of a transclusion.                                              *)
(***************************************************************************)
EXTENDS DomTree

-----------------------------------------------------------------------------
(* tableFixups.js: cells that a template has part of.  A template may bring the mark *)
(* of the cell it is in once more, the attributes of the cell with the pipe behind   *)
(* them, or the pipes that begin another cell: the tokenizer saw none of these.  "p" *)
(* is a pipe.  Of attributes the model has that they are taken out of the text.      *)

EssentiallyEmpty(d, n) == \A c \in ToSet(d.kids[n]) : d.node[c].tag = "#text" /\ d.node[c].data = <<>>
TextContent(d, n) ==
    IF IsText(d, n) THEN d.node[n].data
    ELSE FlattenSeq([i \in DOMAIN d.kids[n] |-> d.node[d.kids[n][i]].data])

IsCell(d, n) == IsElt(d, n) /\ d.node[n].tag = "TD" /\ ~d.node[n].html

\* stripDoubleTDs: the cell the page began goes; its source is of the transclusion.
StripDoubleTDs(d, n) ==
    LET next == NextSibling(d, n)
        from == d.node[n].dsr
        to == d.node[next].dsr
        source == IF ValidDSR(from) THEN <<[from |-> from[1], to |-> from[2], tpl |-> None]>> ELSE <<>>
        e == [d EXCEPT !.node[next].parts = source \o @,
                       !.node[next].dsr = IF from # NoRange /\ @ # NoRange THEN <<from[1]>> \o Tail(@) ELSE @]
    IN  IF /\ IsCell(d, n) /\ IsCell(d, next)
           /\ EssentiallyEmpty(d, n) /\ IsFirstWrapper(d, next)
        THEN Detached(e, n)
        ELSE d

IsTextOnly(d, n) == d.node[n].tag = "SPAN" /\ \A c \in ToSet(d.kids[n]) : IsText(d, c)
IsSimpleTemplatedSpan(d, n) == IsTextOnly(d, n) /\ IsFirstWrapper(d, n)

\* The spans of a transclusion that has become one of the cell.
Unwrapped(d, cell, about) ==
    FoldLeft(LAMBDA e, c : IF e.node[c].tag = "SPAN" /\ e.node[c].about = about
                           THEN Detached(AllInserted(e, e.kids[c], cell, c), c) ELSE e,
             d, d.kids[cell])

\* Mistake: the source of the cell around the transclusion is no part.
HoistTransclusionInfoAlone(d, child, cell) ==
    Unwrapped([d EXCEPT !.node[cell].about = d.node[child].about,
                        !.node[cell].parts = d.node[child].parts, !.node[child].parts = <<>>,
                        !.node[cell].wrapped = TRUE, !.node[child].wrapped = FALSE],
              cell, d.node[child].about)

\* hoistTransclusionInfo: the cell is of the transclusion, and its source around
\* that of the transclusion is wikitext among the parts.
HoistTransclusionInfo(d, child, cell) ==
    LET r == d.node[child]
        dsr == IF ValidDSR(d.node[cell].dsr) THEN d.node[cell].dsr ELSE r.dsr
        wt(from, to) == IF from < to THEN <<[from |-> from, to |-> to, tpl |-> None]>> ELSE <<>>
        e == [d EXCEPT !.node[cell].about = r.about, !.node[cell].dsr = dsr,
                       !.node[cell].parts = wt(dsr[1], r.dsr[1]) \o r.parts \o wt(r.dsr[2], dsr[2]),
                       !.node[child].parts = <<>>,
                       !.node[cell].wrapped = TRUE, !.node[child].wrapped = FALSE]
    IN  Unwrapped(e, cell, r.about)

-----------------------------------------------------------------------------
(* reparseTemplatedAttributes *)

\* A pipe that is no part of a pair.
HasPipe(data) ==
    \E i \in DOMAIN data : /\ data[i] = "p"
                           /\ i > 1 => data[i - 1] # "p"
                           /\ i < Len(data) => data[i + 1] # "p"

\* collectAttributishContent: the text up to a pipe or to what is not text; no
\* text at all when it is of two transclusions.
Collect(d, acc, c) ==
    LET simple == IsSimpleTemplatedSpan(d, c)
        grouped == /\ acc.tpl # None /\ IsTextOnly(d, c)
                   /\ ~IsFirstWrapper(d, c) /\ d.node[c].about = d.node[acc.tpl].about
        data == TextContent(d, c)
    IN  IF acc.done THEN acc
        ELSE IF simple /\ acc.tpl # None THEN [acc EXCEPT !.txt = <<>>, !.done = TRUE]
        ELSE IF IsText(d, c) \/ simple \/ grouped
        THEN [txt |-> acc.txt \o data, tpl |-> IF simple THEN c ELSE acc.tpl, done |-> HasPipe(data)]
        ELSE [acc EXCEPT !.done = TRUE]
Attributish(d, n) ==
    FoldLeft(LAMBDA acc, c : Collect(d, acc, c),
             [txt |-> <<>>, tpl |-> IF IsFirstWrapper(d, n) THEN n ELSE None, done |-> FALSE],
             d.kids[n])

HasAttributes(txt) ==
    LET pipe == SelectInSeq(txt, LAMBDA c : c = "p")
    IN  /\ pipe > 1
        /\ pipe < Len(txt) => txt[pipe + 1] # "p"
        /\ ~Contains(SubSeq(txt, 1, pipe), "n") /\ ~Contains(SubSeq(txt, pipe + 2, Len(txt)), "n")

\* The nodes up to the pipe go, and of the one with the pipe what is before it.
WithoutAttributes(d, n) ==
    LET kids == d.kids[n]
        at == SelectInSeq(kids, LAMBDA c : Contains(TextContent(d, c), "p"))
        data == TextContent(d, kids[at])
        rest == Text(SubSeq(data, SelectInSeq(data, LAMBDA c : c = "p") + 1, Len(data)))
        gone == SubSeq(kids, 1, IF at = 0 THEN Len(kids) ELSE at)
    IN  FoldLeft(Detached, IF at = 0 THEN d ELSE Inserted(d, rest, n, kids[at]), gone)

ReparseTemplatedAttributes(d, n) ==
    LET found == Attributish(d, n)
    IN  IF ~HasAttributes(found.txt) THEN d
        ELSE WithoutAttributes(IF found.tpl \in {None, n} THEN d
                               ELSE HoistTransclusionInfo(d, found.tpl, n), n)

-----------------------------------------------------------------------------
(* handleTableCellTemplates *)

NeedsReparsing(d, n) ==
    \E c \in ToSet(d.kids[n]) : /\ IsText(d, c) \/ (d.node[c].tag = "SPAN" /\ d.node[c].about # 0)
                                /\ Contains(TextContent(d, c), "p")

\* Where the first pair of pipes is in a text that a "." can cross; 0 if nowhere.
PairAt(data) ==
    SelectInSeq([i \in DOMAIN data |->
                    /\ i < Len(data) /\ data[i] = "p" /\ data[i + 1] = "p"
                    /\ i > 1 => data[i - 1] # "p"
                    /\ i + 1 < Len(data) => data[i + 2] # "p"
                    /\ ~Contains(SubSeq(data, 1, i - 2) \o SubSeq(data, i + 3, Len(data)), "n")],
                LAMBDA pair : pair)

\* Behind the pair a cell begins; it is of the transclusion the pair is of.
WithCell(d, n, rest, behind) ==
    LET new == Len(d.node) + 1
    IN  AllInserted(Inserted(Inserted(d, [Node("TD") EXCEPT !.about = d.node[n].about],
                                      d.up[n], NextSibling(d, n)),
                             rest, new, None),
                    behind, new, None)
SplitCell(d, n, child) ==
    LET data == TextContent(d, child)
        first == Text(SubSeq(data, 1, PairAt(data) - 1))
        rest == Text(SubSeq(data, PairAt(data) + 2, Len(data)))
        behind == SubSeq(d.kids[n], Place(d, child) + 1, Len(d.kids[n]))
    IN  WithCell(IF IsText(d, child) THEN [d EXCEPT !.node[child] = first]
                 ELSE HoistTransclusionInfo([d EXCEPT !.node[FirstChild(d, child)] = first], child, n),
                 n, rest, behind)

Split(d, n) ==
    LET splits(c) == (IsText(d, c) \/ IsSimpleTemplatedSpan(d, c)) /\ PairAt(TextContent(d, c)) # 0
        at == SelectInSeq(d.kids[n], splits)
    IN  IF at = 0 THEN d ELSE SplitCell(d, n, d.kids[n][at])

HandleTableCellTemplates(d, n) ==
    IF d.up[n] # None /\ IsCell(d, n) /\ NeedsReparsing(d, n)
    THEN Split(ReparseTemplatedAttributes(d, n), n) ELSE d

-----------------------------------------------------------------------------
InTemplate(d, n) == \E m \in ToSet(PathToRoot(d, n)) : d.node[m].about # 0

-----------------------------------------------------------------------------
(* liFixups.js *)

\* Mistake: the parts of a transclusion the item is of are left as they were.
HandleLIHackNoParts(d, n) ==
    LET prev == PreviousSibling(d, n)
        from == d.node[prev].dsr
        to == d.node[n].dsr
    IN  IF /\ d.node[n].tag = "LI" /\ d.node[n].html
           /\ IsElt(d, prev) /\ d.node[prev].tag = "LI" /\ ~d.node[prev].html
           /\ EssentiallyEmpty(d, prev)
        THEN Detached(IF from = NoRange \/ to = NoRange THEN d
                      ELSE [d EXCEPT !.node[n].dsr =
                               <<from[1], to[2], Num(to[3]) + Num(from[2]) - Num(from[1]), to[4]>>],
                      prev)
        ELSE d

\* handleLIHack: an item of HTML takes over the bullets before it.
HandleLIHack(d, n) ==
    LET prev == PreviousSibling(d, n)
        from == d.node[prev].dsr
        to == d.node[n].dsr
        bullets == [from |-> from[1], to |-> from[2], tpl |-> None]
        taken == IF IsFirstWrapper(d, n) THEN [d EXCEPT !.node[n].parts = <<bullets>> \o @] ELSE d
        ranged == IF from = NoRange \/ to = NoRange THEN taken
                  ELSE [taken EXCEPT !.node[n].dsr =
                           <<from[1], to[2], Num(to[3]) + Num(from[2]) - Num(from[1]), to[4]>>]
    IN  IF /\ d.node[n].tag = "LI" /\ d.node[n].html
           /\ IsElt(d, prev) /\ d.node[prev].tag = "LI" /\ ~d.node[prev].html
           /\ EssentiallyEmpty(d, prev)
        THEN Detached(ranged, prev)
        ELSE d

\* getMigrationInfo: all there is from the first node of a transclusion to c is
\* categories, and spans of whitespace.
Migratable(d, root, c) ==
    \A m \in ToSet(SubSeq(Siblings(d, c), Place(d, root), Place(d, c))) :
        \/ IsCategoryLink(d, m)
        \/ IsElt(d, m) /\ d.node[m].tag = "SPAN" /\ \A k \in ToSet(d.kids[m]) : IsIEW(d, k)

\* findLastMigratableNode: from the last category back, over categories and
\* whitespace, to the farthest text that ends with a newline.
RECURSIVE LastMigratable(_, _, _)
LastMigratable(d, c, sentinel) ==
    LET root == IF IsElt(d, c) THEN FirstWrapper(d, c) ELSE None
        at == IF root # None THEN root ELSE c
        prev == PreviousSibling(d, at)
        nl == IsText(d, at) /\ LastOf(d.node[at].data) = "n"
    IN  IF c = None \/ (root # None /\ ~Migratable(d, root, c)) THEN sentinel
        ELSE IF nl /\ ~IsIEW(d, at) THEN at
        ELSE IF nl THEN LastMigratable(d, prev, at)
        ELSE IF IsCategoryLink(d, at) THEN LastMigratable(d, prev, sentinel)
        ELSE sentinel

\* The list around n that is in no other; None when something follows on the way.
RECURSIVE OuterList(_, _)
OuterList(d, n) ==
    LET list == d.up[n]
        item == d.up[list]
    IN  IF item = None \/ d.node[item].tag # "LI" THEN list
        ELSE IF NextSibling(d, item) # None THEN None
        ELSE OuterList(d, item)

\* Mistake: what the categories were in ends where it did.
ShortenedNot(d, n, outer, delta) ==
    d

\* Items and lists from n to the outer list end delta earlier.
RECURSIVE Shortened(_, _, _, _)
Shortened(d, n, outer, delta) ==
    LET list == d.up[n]
        less(e, m) == IF e.node[m].dsr = NoRange THEN e
                      ELSE [e EXCEPT !.node[m].dsr[2] = Num(@) - delta]
        e == less(less(d, n), list)
    IN  IF list = outer THEN e ELSE Shortened(e, d.up[list], outer, delta)

\* The newlines and categories an item ends with go behind its list.
MigrateOut(d, n, outer, sentinel) ==
    LET kids == d.kids[n]
        split == ~IsIEW(d, sentinel)
        cut == IF split THEN SplitNLs(d, sentinel) ELSE d
        rest == SubSeq(kids, Place(d, sentinel) + 1, Len(kids))
        moved == <<IF split THEN Len(cut.node) ELSE sentinel>> \o rest
        start == FoldRight(LAMBDA c, end :
                     IF IsText(cut, c) THEN end - Len(cut.node[c].data)
                     ELSE IF cut.node[c].dsr = NoRange THEN -1 ELSE Num(cut.node[c].dsr[1]),
                     moved, -1)
        e == AllInserted(cut, moved, d.up[outer], NextSibling(d, outer))
        delta == Num(d.node[n].dsr[2]) - start
    IN  IF d.node[n].dsr = NoRange \/ start < 0 \/ delta = 0 THEN e
        ELSE Shortened(e, n, outer, delta)

MigrateTrailingCategories(d, n) ==
    LET last == LastNonSepChild(d, n)
        outer == OuterList(d, n)
        sentinel == LastMigratable(d, last, None)
    IN  IF /\ d.node[n].tag = "LI" /\ ~InTemplate(d, n)
           /\ NextSibling(d, n) = None /\ d.node[d.up[n]].tag = "UL"
           /\ IsCategoryLink(d, last) /\ outer # None /\ sentinel # None
        THEN MigrateOut(d, n, outer, sentinel)
        ELSE d

-----------------------------------------------------------------------------
(* stripMarkerMetas, cleanup.js *)

StripMarkerMeta(d, n) ==
    IF d.node[n].tag = "META" /\ ~IsFirstWrapper(d, n) THEN Detached(d, n) ELSE d

\* handleEmptyElements: of a transclusion, empty elements go that say nothing.
HandleEmptyElements(d, n) ==
    IF /\ d.node[n].tag \in {"LI", "TR", "P"} /\ EssentiallyEmpty(d, n)
       /\ InTemplate(d, n) /\ ~IsFirstWrapper(d, n)
    THEN Detached(d, n)
    ELSE d

\* cleanupAndSaveDataParsoid: what is saved of a node.  What was fostered has
\* no width, and of a transclusion only the first node keeps its range, and the
\* last when it is of HTML.
Saved(d, n) ==
    LET r == d.node[n]
        next == NextSibling(d, n)
        lastOfHtml == r.html /\ r.about # 0
                        /\ ~(IsElt(d, next) /\ d.node[next].about = r.about)
        discarded == InTemplate(d, n) /\ ~IsFirstWrapper(d, n) /\ ~lastOfHtml
        dsr == IF discarded THEN NoRange
               ELSE IF r.fostered /\ r.dsr # NoRange /\ ~IsFirstWrapper(d, n)
               THEN <<r.dsr[2], r.dsr[2], r.dsr[3], r.dsr[4]>>
               ELSE r.dsr
    IN  IF d.up[n] = None THEN d
        ELSE [d EXCEPT !.node[n].tsr = NoRange, !.node[n].dsr = dsr,
                       !.node[n].autoEnd = @ /\ (r.html \/ r.tag \notin {"LI", "TR", "TD"})]

-----------------------------------------------------------------------------
(* DOMTraverser *)

\* Of the pass for lists, tables and headings.  A cell that was split off has
\* nothing for it: a template has no second pair of pipes.
FixedUp(d, n) ==
    CASE d.node[n].tag = "LI" -> MigrateTrailingCategories(HandleLIHack(d, n), n)
      [] d.node[n].tag = "TD" -> HandleTableCellTemplates(StripDoubleTDs(d, n), n)
      [] OTHER -> d

Handled(d, n, pass) ==
    CASE pass = "lists" -> FixedUp(d, n)
      [] pass = "strip" -> StripMarkerMeta(d, n)
      [] pass = "cleanup" -> Saved(HandleEmptyElements(d, n), n)

\* traverse: a handler may take out the node, or the one before it, which has
\* been visited; what it moves has nothing for it.
RECURSIVE Traversed(_, _, _)
Below(d, n, pass) == IF d.up[n] = None THEN d ELSE Traversed(d, n, pass)
Traversed(d, n, pass) ==
    FoldLeft(LAMBDA e, c : IF IsElt(e, c) THEN Below(Handled(e, c, pass), c, pass) ELSE e,
             d, d.kids[n])
================================================================================
