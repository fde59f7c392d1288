------------------------------ MODULE TreeFixups ------------------------------
(***************************************************************************)
(* The passes of DOMPostProcessor between the tree builder and the source  *)
(* ranges: markFosteredContent, processTreeBuilderFixups, normalize, pWrap *)
(* (of the body), migrateTemplateMarkerMetas and migrateTrailingNLs.  Each *)
(* is a function of the document.                                          *)
(***************************************************************************)
EXTENDS DomTree

-----------------------------------------------------------------------------
(* markFosteredContent *)

\* removeTransclusionShadows: [d, found].
RECURSIVE WithoutShadows(_, _)
WithoutShadows(d, n) ==
    IF ~IsElt(d, n) THEN [d |-> d, found |-> FALSE]
    ELSE IF IsMarkerMeta(d, n, "TransclusionShadow")
    THEN [d |-> Detached(d, n), found |-> TRUE]
    ELSE FoldLeft(LAMBDA acc, c : LET r == WithoutShadows(acc.d, c)
                                  IN  [d |-> r.d, found |-> acc.found \/ r.found],
                  [d |-> d, found |-> d.node[n].inTransclusion], d.kids[n])

\* The holder is a P: the test for a p around it asks for "p", not "P".
Holder == [Node("P") EXCEPT !.fostered = TRUE]

\* The node goes into the holder before the table, and there is one unless the
\* node before the table is the one in use.
IntoHolder(acc, n, table) ==
    LET d == IF acc.holder = None THEN Inserted(acc.d, Holder, acc.d.up[table], table) ELSE acc.d
        holder == IF acc.holder = None THEN Len(d.node) ELSE acc.holder
    IN  [acc EXCEPT !.d = AppendChild(d, holder, n), !.holder = holder]

\* The iteration for a sibling between the foster box and the table.  A node
\* that stays is put before the table too: the holders are between, in order.
Foster(acc, n, table) ==
    LET d == acc.d
        stays == IsElt(d, n) /\ (IsBlockNode(d, n) \/ IsRenderingTransparentNode(d, n))
        moved == IF stays
                 THEN [acc EXCEPT !.d = InsertBefore([d EXCEPT !.node[n].fostered = TRUE],
                                                     d.up[table], n, table),
                                  !.holder = None]
                 ELSE IntoHolder(acc, n, table)
        clean == WithoutShadows(moved.d, n)
    IN  [moved EXCEPT !.d = clean.d, !.found = @ \/ clean.found]

\* insertTransclusionMetas.  The end goes after what belongs to the table.
InsertTransclusionMetas(d, box, table) ==
    LET about == Len(d.node) + 1
        sibs == Siblings(d, table)
        passed(n) == \/ ~IsElt(d, n)
                     \/ /\ ~IsTplStartMarkerMeta(d, n)
                        /\ \/ d.node[n].about # 0
                           \/ IsMarkerMeta(d, n, "EndTag")
                           \/ IsMarkerMeta(d, n, "TransclusionShadow")
        stop == Min({Len(sibs) + 1} \cup {i \in Place(d, table) + 1..Len(sibs) : ~passed(sibs[i])})
        kept == {i \in Place(d, table)..stop - 1 : IsElt(d, sibs[i])}
        start == [Meta("Transclusion") EXCEPT !.about = about, !.tsr = d.node[table].tsr,
                                               !.name = "foster"]
        end == [Meta("Transclusion/End") EXCEPT !.about = about]
    IN  Inserted(Inserted(d, start, d.up[box], box), end, d.up[table],
                 SiblingAt(d, table, Max(kept) + 1))

MarkFosterBox(d, box) ==
    LET sibs == Siblings(d, box)
        at == {i \in Place(d, box) + 1..Len(sibs) : d.node[sibs[i]].tag = "TABLE"}
        table == sibs[Min(at)]
        marked == FoldLeft(LAMBDA acc, n : Foster(acc, n, table),
                           [d |-> d, holder |-> None, found |-> FALSE],
                           SubSeq(sibs, Place(d, box) + 1, Min(at) - 1))
    IN  Detached(IF marked.found THEN InsertTransclusionMetas(marked.d, box, table)
                 ELSE marked.d, box)

RECURSIVE MarkFosteredContent(_, _)
MarkFosteredContent(d, n) ==
    FoldLeft(LAMBDA e, c :
                 IF ~IsElt(e, c) \/ e.up[c] # n \/ e.node[c].fostered THEN e
                 ELSE IF e.node[c].type = "FosterBox" THEN MarkFosterBox(e, c)
                 ELSE IF IsMarkerMeta(e, c, "TransclusionShadow") THEN Detached(e, c)
                 ELSE MarkFosteredContent(e, c),
             d, d.kids[n])

-----------------------------------------------------------------------------
(* processTreeBuilderFixups *)

\* deleteShadowMeta: an empty text takes the place.
Blanked(d, n) == [d EXCEPT !.node[n] = Text(<<>>)]

\* The wikitext of a tag that has left no element: of its range of the source,
\* or of its name when it is literal HTML.
TagWidth(name, close) ==
    (CASE name = "DIV" -> 5 [] name = "SMALL" -> 7 [] name = "TABLE" -> 7 [] OTHER -> 4)
        + (IF close THEN 1 ELSE 0)

\* addPlaceholderMeta
WithPlaceholder(d, n, name, close) ==
    LET r == d.node[n]
        src == IF r.tsr # NoRange THEN r.tsr[2] - r.tsr[1]
               ELSE IF r.html THEN TagWidth(name, close) ELSE 0
    IN  IF IsFosterablePosition(d, n) \/ src = 0 THEN d
        ELSE Inserted(d, [Meta("StrippedTag") EXCEPT !.src = src, !.name = name], d.up[n], n)

\* findMetaShadowNode: of the end-tag metas that follow, the first that fits.
EndTagMeta(d, n) ==
    LET after == SubSeq(Siblings(d, n), Place(d, n) + 1, Len(Siblings(d, n)))
        run == SelectInSeq(after, LAMBDA m : ~IsMarkerMeta(d, m, "EndTag"))
        metas == IF run = 0 THEN after ELSE SubSeq(after, 1, run - 1)
    IN  FirstOf(SelectSeq(metas, LAMBDA m :
            d.node[m].name = d.node[n].tag /\ (d.node[n].html => d.node[m].html)))

\* The first node below n that is no element the builder added.
RECURSIVE FirstFromSource(_, _)
FirstFromSource(d, n) ==
    LET c == FirstChild(d, n)
    IN  IF IsElt(d, c) /\ d.node[c].autoStart THEN FirstFromSource(d, c) ELSE c

\* The name and number of the tag are compared as a prefix: td:1 fits td:12.
StartMetaOf(d, m, n) ==
    /\ IsElt(d, m) /\ IsMarkerMeta(d, m, "StartTag")
    /\ d.node[m].name = d.node[n].tag
    /\ d.node[n].tagId \in {d.node[m].tagId, d.node[m].tagId \div 10}

FindAutoInserted(d, n) ==
    LET meta == FirstFromSource(d, n)
        fits == d.node[n].tagId # 0 /\ StartMetaOf(d, meta, n)
        e == [d EXCEPT !.node[n].autoEnd = EndTagMeta(d, n) = None, !.node[n].autoStart = ~fits]
    IN  IF fits THEN Blanked(e, meta) ELSE e

\* An end-tag meta: the element before it closes, or the tag was dropped.
FindStrippedEnd(d, n) ==
    LET prev == PreviousSibling(d, n)
    IN  IF prev = None \/ d.node[prev].tag # d.node[n].name
        THEN WithPlaceholder(d, n, d.node[n].name, TRUE)
        ELSE IF d.node[n].html THEN [d EXCEPT !.node[prev].html = TRUE] ELSE d

RECURSIVE FindAutoInsertedTags(_, _)
FindAutoInsertedTags(d, n) ==
    FoldLeft(LAMBDA e, c :
                 IF ~IsElt(e, c) THEN e
                 ELSE IF IsMarkerMeta(e, c, "EndTag") THEN FindStrippedEnd(e, c)
                 ELSE IF e.node[c].tag \in {"META", "LINK", "TBODY"} THEN FindAutoInsertedTags(e, c)
                 ELSE FindAutoInserted(FindAutoInsertedTags(e, c), c),
             d, d.kids[n])

\* A start-tag meta that is still there: its tag has left no element.  Of the
\* tags of wikitext tables the source comes back as text.
FindDeletedStart(d, n) ==
    LET r == d.node[n]
        prev == PreviousSibling(d, n)
        owner == IF prev # None THEN prev ELSE d.up[n]
        width == IF r.tsr # NoRange THEN r.tsr[2] - r.tsr[1] ELSE IF r.name = "TR" THEN 2 ELSE 1
        source == Text([i \in 1..width |-> "x"])
    IN  IF d.node[owner].tag = r.name THEN d
        ELSE IF ~r.html /\ r.name \in {"TD", "TR"} THEN Inserted(d, source, d.up[n], n)
        ELSE WithPlaceholder(d, n, r.name, FALSE)

RECURSIVE FindDeletedStartTags(_, _)
FindDeletedStartTags(d, n) ==
    FoldLeft(LAMBDA e, c :
                 IF ~IsElt(e, c) THEN e
                 ELSE IF IsMarkerMeta(e, c, "StartTag") THEN Blanked(FindDeletedStart(e, c), c)
                 ELSE IF IsMarkerMeta(e, c, "EndTag") /\ e.node[c].tsr = NoRange THEN Blanked(e, c)
                 ELSE IF e.node[c].tag = "META" THEN e
                 ELSE FindDeletedStartTags(e, c),
             d, d.kids[n])

\* An element of which neither tag is in the source, and that is empty, goes;
\* whitespace in it takes its place.
RemoveIfEmpty(d, n) ==
    LET r == d.node[n]
        kids == d.kids[n]
        empty == kids = <<>> \/ (Len(kids) = 1 /\ IsIEW(d, kids[1]))
    IN  IF r.autoStart /\ r.autoEnd /\ empty
        THEN Detached(AllInserted(d, kids, d.up[n], n), n)
        ELSE d

RECURSIVE RemoveAutoInsertedEmptyTags(_, _)
RemoveAutoInsertedEmptyTags(d, n) ==
    FoldLeft(LAMBDA e, c : IF IsElt(e, c) THEN RemoveIfEmpty(RemoveAutoInsertedEmptyTags(e, c), c)
                           ELSE e,
             d, d.kids[n])

ProcessTreeBuilderFixups(d) ==
    RemoveAutoInsertedEmptyTags(FindDeletedStartTags(FindAutoInsertedTags(d, Body), Body), Body)

\* Node.normalize: empty texts go, texts side by side become one.
RECURSIVE Normalize(_, _)
Normalize(d, n) ==
    FoldLeft(LAMBDA e, c :
                 LET prev == PreviousSibling(e, c)
                 IN  IF IsElt(e, c) THEN Normalize(e, c)
                     ELSE IF e.node[c].data = <<>> THEN Detached(e, c)
                     ELSE IF IsText(e, prev)
                     THEN Detached([e EXCEPT !.node[prev].data = @ \o e.node[c].data], c)
                     ELSE e,
             d, d.kids[n])

-----------------------------------------------------------------------------
(* pWrap *)

\* The test of the node is where the one of its child should be: a block that
\* has no child itself is not seen.
RECURSIVE HasBlockTag(_, _)
HasBlockTag(d, n) ==
    \E i \in DOMAIN d.kids[n] : IsBlockNode(d, n) \/ HasBlockTag(d, d.kids[n][i])

EmitsSolTransparentWT(d, n) == IsIEW(d, n) \/ (IsElt(d, n) /\ IsRenderingTransparentNode(d, n))

\* mergeRuns: the runs of a formatting element, and the clones it takes.
MergeRuns(d, n, runs) ==
    LET origEnd == d.node[n].autoEnd
        merged == FoldLeft(LAMBDA acc, v :
            LET curr == LastOf(acc.ret)
                last == Len(acc.ret)
                fresh == Created([acc.d EXCEPT !.node[curr.node].autoEnd = TRUE],
                                 [d.node[n] EXCEPT !.autoStart = TRUE, !.autoEnd = TRUE])
                first == [acc EXCEPT !.ret = <<[pwrap |-> v.pwrap, node |-> n]>>]
                next == IF acc.ret = <<>> THEN first
                        ELSE IF curr.pwrap = "any"
                        THEN [acc EXCEPT !.ret[last].pwrap = v.pwrap]
                        ELSE IF v.pwrap \notin {curr.pwrap, "any"}
                        THEN [d |-> fresh,
                              ret |-> Append(acc.ret, [pwrap |-> v.pwrap, node |-> Len(fresh.node)])]
                        ELSE acc
            IN  [next EXCEPT !.d = AppendChild(@, LastOf(next.ret).node, v.node)],
            [d |-> d, ret |-> <<>>], runs)
    IN  [merged EXCEPT !.d.node[LastOf(merged.ret).node].autoEnd = origEnd]

\* split: [d, ret], ret the runs of n with whether a paragraph may hold them.
RECURSIVE Split(_, _)
Split(d, n) ==
    LET run(pwrap) == [d |-> d, ret |-> <<[pwrap |-> pwrap, node |-> n]>>]
        parts == FoldLeft(LAMBDA acc, c : LET r == Split(acc.d, c)
                                          IN  [d |-> r.d, ret |-> acc.ret \o r.ret],
                          [d |-> d, ret |-> <<>>], d.kids[n])
    IN  IF EmitsSolTransparentWT(d, n) THEN run("any")
        ELSE IF IsText(d, n) THEN run("yes")
        ELSE IF IsFormattingElt(d, n) /\ d.kids[n] # <<>> THEN MergeRuns(parts.d, n, parts.ret)
        ELSE run(IF IsBlockNode(d, n) \/ HasBlockTag(d, n) THEN "no" ELSE "yes")

\* One run of what was a child of root, put before `next`.
WrapRun(acc, v, root, next) ==
    LET fresh == Inserted(acc.d, Node("P"), root, next)
        at == InsertBefore(acc.d, root, v.node, next)
    IN  IF v.pwrap = "no" THEN [d |-> at, p |-> None]
        ELSE IF acc.p # None THEN [acc EXCEPT !.d = AppendChild(@, acc.p, v.node)]
        ELSE IF EmitsSolTransparentWT(acc.d, v.node) THEN [acc EXCEPT !.d = at]
        ELSE [d |-> AppendChild(fresh, Len(fresh.node), v.node), p |-> Len(fresh.node)]

PWrap(d, root) ==
    FoldLeft(LAMBDA acc, c :
                 LET next == NextSibling(acc.d, c)
                     runs == Split(acc.d, c)
                 IN  IF IsElt(acc.d, c) /\ IsBlockNode(acc.d, c) THEN [acc EXCEPT !.p = None]
                     ELSE FoldLeft(LAMBDA a, v : WrapRun(a, v, root, next),
                                   [acc EXCEPT !.d = runs.d], runs.ret),
             [d |-> d, p |-> None], d.kids[root]).d

-----------------------------------------------------------------------------
(* migrateTemplateMarkerMetas *)

\* The tags that have no width in wikitext, of Consts.WtTagWidths.
NoStartWidth == {"P", "UL", "TBODY"}
NoEndWidth == NoStartWidth \cup {"LI", "TR", "TD"}

\* The children up to the marker go before, or from the marker on behind, n.
OutBefore(d, n, marker) ==
    AllInserted(d, SubSeq(d.kids[n], 1, Place(d, marker)), d.up[n], n)
OutBehind(d, n, marker) ==
    AllInserted(d, SubSeq(d.kids[n], Place(d, marker), Len(d.kids[n])), d.up[n], NextSibling(d, n))

MigrateEnd(d, n) ==
    LET c == FirstNonSepChild(d, n)
        r == d.node[n]
    IN  IF c # None /\ IsTplEndMarkerMeta(d, c) /\ ((r.tag \in NoStartWidth /\ ~r.html) \/ r.autoStart)
        THEN OutBefore(d, n, c) ELSE d
MigrateStart(d, n) ==
    LET c == LastNonSepChild(d, n)
        r == d.node[n]
    IN  IF /\ c # None /\ IsTplStartMarkerMeta(d, c)
           /\ (r.tag \in NoEndWidth /\ ~r.html) \/ (r.autoEnd /\ r.tag # "TABLE")
        THEN OutBehind(d, n, c) ELSE d

RECURSIVE MigrateTemplateMarkerMetas(_, _)
MigrateTemplateMarkerMetas(d, n) ==
    LET below == FoldLeft(LAMBDA e, c : IF e.kids[c] = <<>> THEN e
                                        ELSE MigrateTemplateMarkerMetas(e, c),
                          d, d.kids[n])
    IN  IF n = Body THEN below ELSE MigrateStart(MigrateEnd(below, n), n)

-----------------------------------------------------------------------------
(* migrateTrailingNLs *)

EndsLineInWT(d, n) == d.node[n].tag \in {"TD", "TR", "LI", "UL", "P"} /\ ~d.node[n].html

\* The table a part of a table is of.
RECURSIVE TableParent(_, _)
TableParent(d, n) ==
    IF d.node[n].tag = "TABLE" THEN n
    ELSE IF d.node[n].tag \in {"TD", "TR", "TBODY"} THEN TableParent(d, d.up[n])
    ELSE None

RECURSIVE CanMigrateNLOutOf(_, _)
CanMigrateNLOutOf(d, n) ==
    LET table == TableParent(d, n)
        before == IF table = None THEN None ELSE PreviousSibling(d, table)
    IN  /\ d.node[n].tag \notin {"TABLE", "BODY"}
        /\ ~(IsElt(d, before) /\ d.node[before].fostered)
        /\ ~d.node[n].fostered
        /\ \/ EndsLineInWT(d, n) \/ d.node[n].autoEnd
           \/ NextSibling(d, n) = None /\ CanMigrateNLOutOf(d, d.up[n])

RECURSIVE HasZeroWidthWT(_, _)
HasZeroWidthWT(d, n) ==
    /\ IsElt(d, n)
    /\ LET tsr == d.node[n].tsr IN tsr # NoRange /\ tsr[1] # Nil /\ tsr[1] = tsr[2]
    /\ \A i \in DOMAIN d.kids[n] : HasZeroWidthWT(d, d.kids[n][i])

\* Mistake: the newlines go to the end of the parent.
MigrateNLsToEnd(d, n) ==
    LET kids == d.kids[n]
        other == SelectLastInSeq(kids, LAMBDA c : ~IsIEW(d, c))
        partial == other # 0 /\ IsText(d, kids[other]) /\ LastOf(d.node[kids[other]].data) = "n"
        cut == IF partial THEN SplitNLs(d, kids[other]) ELSE d
        nls == (IF partial THEN <<Len(cut.node)>> ELSE <<>>) \o SubSeq(kids, other + 1, Len(kids))
    IN  AllInserted(cut, nls, d.up[n], None)

\* The texts of newlines before the nodes of no width that end n, and the
\* newlines of the text before them, move behind n and its end-tag meta.
MigrateNLs(d, n) ==
    LET kids == d.kids[n]
        last == SelectLastInSeq(kids, LAMBDA c : ~HasZeroWidthWT(d, c))
        other == SelectLastInSeq(SubSeq(kids, 1, last), LAMBDA c : ~IsIEW(d, c))
        partial == other # 0 /\ IsText(d, kids[other]) /\ LastOf(d.node[kids[other]].data) = "n"
        cut == IF partial THEN SplitNLs(d, kids[other]) ELSE d
        nls == (IF partial THEN <<Len(cut.node)>> ELSE <<>>) \o SubSeq(kids, other + 1, last)
        width == FoldLeft(LAMBDA w, t : w + Len(cut.node[t].data), 0, nls)
        next == NextSibling(d, n)
        behind == IF IsElt(d, next) /\ IsMarkerMeta(d, next, "EndTag")
                        /\ d.node[next].name = d.node[n].tag
                  THEN NextSibling(d, next) ELSE next
        moved == AllInserted(cut, nls, d.up[n], behind)
    IN  IF nls = <<>> THEN d
        ELSE FoldLeft(LAMBDA e, z : [e EXCEPT !.node[z].tsr = <<@[1] - width, @[2] - width>>],
                      moved, SubSeq(kids, last + 1, Len(kids)))

RECURSIVE MigrateTrailingNLs(_, _)
MigrateTrailingNLs(d, n) ==
    LET below == FoldRight(LAMBDA c, e : IF IsElt(e, c) THEN MigrateTrailingNLs(e, c) ELSE e,
                           d.kids[n], d)
    IN  IF CanMigrateNLOutOf(below, n) THEN MigrateNLs(below, n) ELSE below
================================================================================
