-------------------------------- MODULE DomPasses --------------------------------
(***************************************************************************)
(* A page through the tree builder and the passes of DOMPostProcessor that *)
(* make of it a document that can be edited: an action is a pass.  A page  *)
(* is a sequence of lines, of the kinds below, and ends without a newline; *)
(* a SMALL is left open by the last of them only, since the tree builder   *)
(* here opens none again.                                                  *)
(***************************************************************************)
EXTENDS Integers, SequencesExt, FiniteSetsExt, TLC

CONSTANTS Pages    \* sequences of names of lines

VARIABLES page, dom, pass

vars == <<page, dom, pass>>

Builder == INSTANCE TreeBuilder
Fixups == INSTANCE TreeFixups
Ranges == INSTANCE SourceRanges
Wrapping == INSTANCE WrapTemplates
Ending == INSTANCE DomCleanup
Linting == INSTANCE Linter
INSTANCE DomTree

-----------------------------------------------------------------------------
(* The lines of a page *)

\* A token, w characters wide in the source.
Chars(data) == [k |-> "chars", w |-> Len(data), r |-> Text(data)]
X == Chars(<<"x">>)
XX == Chars(<<"x", "x">>)
NL == Chars(<<"n">>)
Open(tag, w) == [k |-> "open", w |-> w, r |-> [Node(tag) EXCEPT !.row = tag = "TR"]]
Close(tag, w) == [k |-> "close", w |-> w, r |-> Node(tag)]
Html(t) == [t EXCEPT !.r.html = TRUE]
EndOfCell == [k |-> "meta", w |-> 0, r |-> [Meta("TSRMarker") EXCEPT !.name = "TD"]]

Div == Html(Open("DIV", 5))
EndDiv == Html(Close("DIV", 6))
Table == Open("TABLE", 2)
EndTable == Close("TABLE", 2)
Row == Open("TR", 2)
Cell == Open("TD", 1)
Category == [k |-> "void", w |-> 6, r |-> Node("LINK")]
HtmlItem == Html(Open("LI", 4))
Nowrap == LET t == Html(Open("SPAN", 21)) IN [t EXCEPT !.r.nowrap = TRUE]

\* {{t}}, and what the template has.
TplWidth == 5
Tpl(content) == [k |-> "tpl", w |-> TplWidth, content |-> content]

\* {|{{t}}, of which the template has more lines than that of the tag: AttributeExpander
\* puts the marker before the tag, with what is of the tag alone.
TplAttribute(content) ==
    [k |-> "attribute", w |-> Table.w + TplWidth, tag |-> Table.r, content |-> content]

\* Of list items, what comes behind the bullets.
Lines ==
    [text |-> <<X>>,
     inline |-> <<Tpl(<<X>>)>>,
     mixed |-> <<X, Tpl(<<X>>), X>>,
     nothing |-> <<Tpl(<<>>)>>,
     category |-> <<Category>>,
     tplcategory |-> <<Tpl(<<Category>>)>>,
     div |-> <<Div>>,
     enddiv |-> <<EndDiv>>,
     block |-> <<Tpl(<<Div, X, EndDiv>>)>>,
     opens |-> <<Tpl(<<Div, X>>)>>,
     closes |-> <<Tpl(<<X, EndDiv>>)>>,
     table |-> <<Table>>,
     row |-> <<Row>>,
     cell |-> <<Cell, X, EndOfCell>>,
     endtable |-> <<EndTable>>,
     tpltable |-> <<Tpl(<<Table>>)>>,
     tplattr |-> <<TplAttribute(<<NL, Row, NL, Cell, X, EndOfCell>>)>>,
     tplrow |-> <<Tpl(<<Row, NL, Cell, X, EndOfCell>>)>>,
     tplcell |-> <<Tpl(<<Cell, X, EndOfCell>>)>>,
     double |-> <<Cell, Tpl(<<Cell, X, EndOfCell>>), EndOfCell>>,
     attribute |-> <<Cell, Tpl(<<Chars(<<"x", "p", "x">>)>>), EndOfCell>>,
     twocells |-> <<Cell, X, Tpl(<<Chars(<<"x", "p", "p", "x">>)>>), X, EndOfCell>>,
     tplend |-> <<Tpl(<<EndTable>>)>>,
     tplwhole |-> <<Tpl(<<Table, NL, Row, NL, Cell, X, EndOfCell, NL, EndTable>>)>>,
     heading |-> <<Open("H2", 2), X, Close("H2", 2)>>,
     item |-> <<X>>,
     subitem |-> <<X>>,
     htmlitem |-> <<HtmlItem, X>>,
     tplitem |-> <<Tpl(<<HtmlItem, X, Html(Close("LI", 5))>>)>>,
     span |-> <<Html(Open("SPAN", 6)), X>>,
     nowrap |-> <<Nowrap, X, NL, Html(Close("SPAN", 7)), X>>,
     flip |-> <<Nowrap, Div, X, EndDiv, Html(Close("SPAN", 7))>>,
     font |-> <<Html(Open("FONT", 18)), Category, Html(Close("FONT", 7))>>,
     unclosed |-> <<Html(Open("SMALL", 7)), X, Html(Open("SMALL", 7)), X>>,
     small |-> <<Html(Open("SMALL", 7)), X, Div, X, EndDiv, X, Html(Close("SMALL", 8))>>]

\* TokenStreamPatcher: a part of a table where no table is open is text.
Stray ==
    [row |-> <<XX>>, cell |-> <<XX>>, endtable |-> <<XX>>,
     double |-> <<X, Tpl(<<XX>>)>>, attribute |-> <<X, Tpl(<<Chars(<<"x", "p", "x">>)>>)>>,
     twocells |-> <<XX, Tpl(<<Chars(<<"x", "p", "p", "x">>)>>), X>>,
     tplrow |-> <<Tpl(<<XX, NL, XX>>)>>, tplcell |-> <<Tpl(<<XX>>)>>, tplend |-> <<Tpl(<<XX>>)>>]

Nesting(p, i) ==
    FoldLeft(LAMBDA depth, line : IF line \in {"table", "tpltable", "tplattr"} THEN depth + 1
                                  ELSE IF line \in {"endtable", "tplend"} THEN Max({0, depth - 1})
                                  ELSE depth,
             0, SubSeq(p, 1, i - 1))
IsStray(p, i) == p[i] \in DOMAIN Stray /\ Nesting(p, i) = 0
Content(p, i) == IF IsStray(p, i) THEN Stray[p[i]] ELSE Lines[p[i]]

-----------------------------------------------------------------------------
(* From lines to tokens *)

\* ListHandler: the tags between two lines.  The newline before a category is
\* none for it, so a category goes on with the item before it.
Bullets(line) ==
    CASE line \in {"item", "htmlitem", "tplitem"} -> 1 [] line = "subitem" -> 2 [] OTHER -> 0
IsCategory(line) == line \in {"category", "tplcategory"}

\* The depth of the list that is open where line i begins.
Depth(p, i) ==
    LET item == SelectLastInSeq(SubSeq(p, 1, i - 1), LAMBDA line : ~IsCategory(line))
    IN  IF item = 0 THEN 0 ELSE Bullets(p[item])

Repeated(n, tokens(_)) == FlattenSeq([i \in 1..n |-> tokens(i)])
CloseLists(n) == Repeated(n, LAMBDA i : <<Close("LI", 0), Close("UL", 0)>>)

Between(p, i) ==
    LET depth == Depth(p, i)
        bullets == IF i > Len(p) THEN 0 ELSE Bullets(p[i])
        shared == Min({depth, bullets})
        nl == IF i \in {1, Len(p) + 1} THEN <<>> ELSE <<NL>>
        same == <<Close("LI", 0)>> \o nl \o <<Open("LI", bullets)>>
        opened == Repeated(bullets - shared, LAMBDA j :
            <<Open("UL", 0), Open("LI", IF j = 1 THEN shared + 1 ELSE 1)>>)
    IN  IF i <= Len(p) /\ IsCategory(p[i]) THEN nl
        ELSE CloseLists(depth - shared) \o (IF shared > 0 /\ shared = bullets THEN same ELSE nl \o opened)

\* ParagraphWrapper puts paragraphs around lines that have no block; a table or
\* row begins that has no cell yet lets it put none.
IsInline(p, i) == p[i] \in {"text", "inline", "mixed", "span", "nowrap", "font", "unclosed"} \/ IsStray(p, i)
IsTransparent(line) == line = "nothing" \/ IsCategory(line)
IsPara(p, i) ==
    LET blocks == {j \in 1..i - 1 : ~IsInline(p, j) /\ ~IsTransparent(p[j])}
    IN  IsInline(p, i) /\ (blocks # {} => p[Max(blocks)] \notin {"table", "row", "tpltable"})
SameP(p, i, j) ==
    IsPara(p, i) /\ IsPara(p, j) /\ \A k \in i..j : IsInline(p, k) \/ IsTransparent(p[k])
Paragraph(tag) == [k |-> tag, w |-> -1, r |-> Node("P")]
LineTokens(p, i) ==
    Between(p, i)
        \o (IF IsPara(p, i) /\ ~\E j \in 1..i - 1 : SameP(p, j, i) THEN <<Paragraph("open")>> ELSE <<>>)
        \o Content(p, i)
        \o (IF IsPara(p, i) /\ ~\E j \in i + 1..Len(p) : SameP(p, i, j)
            THEN <<Paragraph("close")>> ELSE <<>>)

\* Tokens get their range of the source; those of a template and of paragraphs
\* have none, and neither has the end of a list, of width 0.
Placed(acc, t) ==
    LET to == acc.at + Max({t.w, 0})
        ranged == t.w >= 0 /\ ~(t.k = "close" /\ t.w = 0)
        marker(type, from) == [k |-> "meta", w |-> 0,
            r |-> [Meta(type) EXCEPT !.about = acc.tpls + 1, !.tsr = <<from, to>>]]
        start == marker("Transclusion", acc.at)
        hoisted == [start EXCEPT !.r.unwrapped = Table.w, !.r.firstWikitextNode = "table"]
        tag == [k |-> "open", r |-> [t.tag EXCEPT !.tsr = <<acc.at, to>>]]
    IN  IF t.k \in {"tpl", "attribute"}
        THEN [acc EXCEPT !.at = to, !.tpls = @ + 1,
                         !.out = @ \o (IF t.k = "tpl" THEN <<start>> ELSE <<hoisted, tag>>) \o t.content
                                   \o <<marker("Transclusion/End", Nil)>>]
        ELSE [acc EXCEPT !.at = to,
                         !.out = Append(@, IF ranged THEN [t EXCEPT !.r.tsr = <<acc.at, to>>] ELSE t)]

\* at is the length of the page in the end, and tpls the number of transclusions.
Tokenized(p) ==
    FoldLeft(Placed, [at |-> 0, tpls |-> 0, out |-> <<>>],
             FlattenSeq([i \in DOMAIN p |-> LineTokens(p, i)]) \o Between(p, Len(p) + 1))

-----------------------------------------------------------------------------
(* The passes *)

Init ==
    /\ page \in {[lines |-> p, at |-> 0, tpls |-> 0] : p \in Pages}
    /\ dom = EmptyDocument
    /\ pass = "build"

Pass(this, next, d) == pass = this /\ pass' = next /\ dom' = d /\ UNCHANGED page

Build ==
    /\ pass = "build" /\ pass' = "fostered"
    /\ \E read \in {Tokenized(page.lines)} :
          /\ page' = [page EXCEPT !.at = read.at, !.tpls = read.tpls]
          /\ dom' = Builder!Document(read.out)
Fostered == Pass("fostered", "fixups", Fixups!MarkFosteredContent(dom, Body))
Fix == Pass("fixups", "normalize", Fixups!ProcessTreeBuilderFixups(dom))
Norm == Pass("normalize", "pwrap", Fixups!Normalize(dom, Body))
Paragraphs == Pass("pwrap", "metas", Fixups!PWrap(dom, Body))
MigrateMetas == Pass("metas", "nls", Fixups!MigrateTemplateMarkerMetas(dom, Body))
MigrateNewlines == Pass("nls", "dsr", Fixups!MigrateTrailingNLs(dom, Body))
SourceRange == Pass("dsr", "tplwrap", Ranges!ComputeDSR(dom, page.at))
Wrap == Pass("tplwrap", "lists", Wrapping!WrapTemplates(dom))
\* Three of a DOMTraverser each.
Visitors == [lists |-> "lint", strip |-> "cleanup", cleanup |-> "done"]
Traverse ==
    pass \in DOMAIN Visitors /\ Pass(pass, Visitors[pass], Ending!Traversed(dom, Body, pass))
\* The linter is in use (env.conf.parsoid.linting).
Lint == Pass("lint", "strip", Linting!Linted(dom))
Idle == pass = "done" /\ UNCHANGED vars

Next ==
    \/ Build \/ Fostered \/ Fix \/ Norm \/ Paragraphs \/ MigrateMetas
    \/ MigrateNewlines \/ SourceRange \/ Wrap \/ Traverse \/ Lint \/ Idle

Spec == Init /\ [][Next]_vars

-----------------------------------------------------------------------------
(* Properties *)

Nodes == {n \in DOMAIN dom.node : Body \in ToSet(PathToRoot(dom, n))}
Elements == {n \in Nodes : IsElt(dom, n)}
Wrappers == {n \in Elements : dom.node[n].parts # <<>>}
Calls == 1..page.tpls
Length == page.at

\* Content fostered out of a table of which a later pass loses sight: a category
\* pWrap took into the paragraph before the table; a list whose categories
\* liFixups moved out; an element that had the start of a transclusion of the
\* table in it, and is itself not part of it; and a transclusion that has the
\* tables of two tags, one in the other in the source.
OutOfSight(n) ==
    LET next == NextSibling(dom, n)
        tables == {t \in ToSet(Siblings(dom, n)) :
                      dom.node[t].tag = "TABLE" /\ dom.node[t].about = dom.node[n].about}
    IN  /\ dom.node[n].fostered
        /\ \/ dom.node[dom.up[n]].tag = "P"
           \/ IsText(dom, next)
           \/ next # None /\ dom.node[n].about = 0 /\ dom.node[next].about # 0
           \/ n \in Wrappers /\ Cardinality(tables) > 1
AllInSight == \A n \in Elements \ {Body} : ~OutOfSight(n)

\* Of the parts, each begins where the one before it ends, the first and the last
\* where the wrapper does, unless that was fostered and has no width.  What is of the
\* tag a transclusion is in is a part of its own, and of that of the transclusion.
Tiled(n) ==
    LET r == dom.node[n]
    IN  /\ r.parts[1].from = r.dsr[1]
        /\ r.dsr[1] = r.dsr[2] \/ LastOf(r.parts).to = r.dsr[2]
        /\ \A i \in 2..Len(r.parts) : r.parts[i].from \in {r.parts[i - 1].to} \cup (IF r.parts[i - 1].tpl = None THEN {r.parts[i - 1].from} ELSE {})

\* Siblings with an about id have only their like, and whitespace, between them.
Together(m, n) ==
    /\ dom.up[m] = dom.up[n]
    /\ \A i \in Place(dom, m)..Place(dom, n) :
          LET k == Siblings(dom, m)[i] IN dom.node[k].about = dom.node[m].about \/ IsIEW(dom, k)

\* The wrapper of the outermost transclusion n is in; None when it is in none.
WrapperOf(n) ==
    LET path == PathToRoot(dom, n)
        of == SelectLastInSeq(path, LAMBDA m : dom.node[m].about # 0)
    IN  IF of = 0 THEN None ELSE FirstWrapper(dom, path[of])

\* A report of the linter has a range of the page: of what is in a transclusion, that
\* of the transclusion; and what is in none has no template.
LintsPlaced ==
    \A i \in DOMAIN dom.lints :
        LET l == dom.lints[i]
            w == WrapperOf(l.node)
        IN  /\ ValidDSR(l.dsr) /\ 0 <= l.dsr[1] /\ l.dsr[1] <= l.dsr[2] /\ l.dsr[2] <= Length
            /\ IF w = None THEN l.templateInfo = "none" ELSE l.dsr = dom.node[w].dsr

\* However the tags of a page and of its templates overlap, and whatever the tree
\* builder moves or drops, no pass throws, wrapTemplates finds both markers of
\* every transclusion, and puts it once among the parts of one wrapper.  The nodes
\* of a wrapper stay side by side, and its parts are the whole of its source; none
\* is in another, until tableFixups.js makes a cell one with all it has.  The linter
\* takes for templated what is in one of them, and nothing else.
EachCallWrappedOnce ==
    /\ ~dom.threw
    /\ pass = "strip" => LintsPlaced
    /\ pass \in {"lists", "done"} =>
          /\ \A n \in Elements : ~IsTplMarkerMeta(dom, n)
          /\ \A call \in Calls :
                Cardinality({w \in Wrappers : \E i \in DOMAIN dom.node[w].parts :
                                                  dom.node[w].parts[i].tpl = call}) = 1
          /\ \A w \in Wrappers : IsInjective(SelectSeq(dom.node[w].parts, LAMBDA q : q.tpl # None))
          /\ AllInSight => \A w \in Wrappers : Tiled(w)
          /\ pass = "lists" =>
                \A w \in Wrappers : \A m \in ToSet(PathToRoot(dom, dom.up[w])) : dom.node[m].about = 0
          /\ \A m, n \in Elements :
                dom.node[m].about # 0 /\ dom.node[m].about = dom.node[n].about => Together(m, n)

\* The place of the source reached behind a child of the body; Nil when the child
\* claims what another has, or leaves something out.  A tag that was stripped
\* leaves a gap when its placeholder goes.
Claimed(at, n) ==
    LET dsr == dom.node[n].dsr
    IN  IF at = Nil THEN Nil
        ELSE IF IsText(dom, n) THEN at + Len(dom.node[n].data)
        ELSE IF ~ValidDSR(dsr) THEN Nil
        ELSE IF dsr[1] = at \/ (pass = "done" /\ dsr[1] > at) THEN dsr[2]
        ELSE IF dsr[1] = dsr[2] THEN at
        ELSE Nil

\* The range of a node is in that of the node around it.
InRangeOfParent(n) ==
    LET r == dom.node[n].dsr
        around == dom.node[dom.up[n]].dsr
    IN  ValidDSR(r) /\ ValidDSR(around) =>
            around[1] <= r[1] /\ r[1] <= r[2] /\ r[2] <= around[2]

\* What selective serialization copies from the source it copies once, and misses
\* nothing of it: the ranges of the nodes at the top, of a transclusion that of the
\* wrapper, are the page from end to end, in order; what was fostered claims
\* nothing.  And outside of transclusions ranges nest as the nodes do.
SourceClaimedOnce ==
    pass \in {"strip", "done"} /\ AllInSight =>
        LET top == SelectSeq(dom.kids[Body], LAMBDA n : dom.node[n].about = 0 \/ n \in Wrappers)
            end == FoldLeft(Claimed, 0, top)
            own(n) == \A m \in ToSet(PathToRoot(dom, n)) : dom.node[m].about = 0 /\ ~dom.node[m].fostered
        IN  /\ IF pass = "strip" THEN end = Length ELSE end # Nil /\ end <= Length
            /\ \A n \in Elements \ {Body} : own(n) => InRangeOfParent(n)
================================================================================
