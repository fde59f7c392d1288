------------------------------ MODULE WrapSections ------------------------------
(***************************************************************************)
(* The pass of DOMPostProcessor that puts <section> elements around what   *)
(* headings head (lib/wt2html/pp/processors/wrapSections.js).  It walks    *)
(* the children of the body, and of each element in it, once: an action is *)
(* an iteration of that loop, `calls` the calls of wrapSectionsInDOM that  *)
(* have not returned.  What the loop has not come to it has not looked at, *)
(* so the page is chosen as it is read.                                    *)
(*                                                                         *)
(* A node is its place in the page, a section a negative number.  Text,    *)
(* literal <h*> tags and elements without headings are all plain nodes.    *)
(* Source offsets, and the wikitext that is added to data-mw by them, are  *)
(* left out.                                                               *)
(***************************************************************************)
EXTENDS Integers, SequencesExt, FiniteSetsExt, TLC

CONSTANTS
    Levels,        \* of the headings
    MaxNodes, MaxDepth, MaxTemplates   \* bounds of the page

ASSUME WrapSectionsAssumption ==
    /\ Levels \subseteq 1..6
    /\ {MaxNodes, MaxDepth, MaxTemplates} \subseteq Nat

VARIABLES
    page,          \* the nodes of the page, as they were
    dom,           \* kids, sections and about ids, as they are
    calls,
    state          \* sectionNumber, inTemplate, tplsAndExtsToExamine

vars == <<page, dom, calls, state>>

-----------------------------------------------------------------------------
(* The DOM *)

Body == 0
None == 0          \* no section, no template, no heading
Lead == -1

Nodes == 1..Len(page)
Sections == DOMAIN dom.section

\* Templates are numbered as they are met; the number is their about id.
Templates == Max({page[n].tpl : n \in Nodes} \cup {0})

Parent(d, x) == CHOOSE c \in DOMAIN d.kids : Contains(d.kids[c], x)

Moved(d, x, c) ==
    LET from == Parent(d, x)
    IN  [d EXCEPT !.kids = [[@ EXCEPT ![from] = Remove(@, x)] EXCEPT ![c] = Append(@, x)]]

PathToRoot(d, x) ==
    LET path[c \in Int] == IF c = Body THEN <<Body>> ELSE <<c>> \o path[Parent(d, c)]
    IN  path[x]

\* The nodes of x and below, in the order of the DOM, without sections.
Content(d, x) ==
    LET content[c \in Int] ==
            (IF c > 0 THEN <<c>> ELSE <<>>)
                \o (IF c \in DOMAIN d.kids
                    THEN FlattenSeq([i \in 1..Len(d.kids[c]) |-> content[d.kids[c][i]]])
                    ELSE <<>>)
    IN  content[x]

-----------------------------------------------------------------------------
(* createNewSection *)

\* Mistake: a section of the same level is taken for a higher one.
NestedInSameLevel(w, newLevel) ==
    LET level(s) == w.dom.section[s].level
        stack == w.call.stack
        higher == SubSeq(stack, 1, Max({i \in 1..Len(stack) : level(stack[i]) <= newLevel} \cup {0}))
    IN  IF w.call.curr # None /\ newLevel > level(w.call.curr)
        THEN Append(higher, w.call.curr) ELSE higher

\* Step 1: the sections the new one is nested in.
NestedIn(w, newLevel) ==
    LET level(s) == w.dom.section[s].level
        stack == w.call.stack
        higher == SubSeq(stack, 1, Max({i \in 1..Len(stack) : level(stack[i]) < newLevel} \cup {0}))
    IN  IF w.call.curr # None /\ newLevel > level(w.call.curr)
        THEN Append(higher, w.call.curr) ELSE higher

\* Mistake: with no parent it goes before all that is in the element.
PutFirst(d, root, stack, node, new) ==
    IF stack # <<>>
    THEN [d EXCEPT !.kids[Last(stack)] = Append(@, new)]
    ELSE [d EXCEPT !.kids[root] = <<new>> \o @]

\* Step 2: it goes to the end of its parent section, or where the node is.
Put(d, root, stack, node, new) ==
    IF stack # <<>>
    THEN [d EXCEPT !.kids[Last(stack)] = Append(@, new)]
    ELSE [d EXCEPT !.kids[root] = InsertAt(@, CHOOSE i \in 1..Len(@) : @[i] = node, new)]

\* Mistake: a section that begins in a template has no about id.
createNewSectionNoAbout(w, node, newLevel, id) ==
    LET new == -1 - Cardinality(DOMAIN w.dom.section)
        stack == NestedIn(w, newLevel)
        with == [w.dom EXCEPT !.section = @ @@ (new :> [level |-> newLevel, id |-> id]),
                              !.kids = @ @@ (new :> <<>>),
                              !.about = @ @@ (new :> None)]
    IN  [w EXCEPT !.dom = Moved(Put(with, w.call.root, stack, node, new), node, new),
                  !.call.stack = stack, !.call.curr = new]

createNewSection(w, node, newLevel, id) ==
    LET new == -1 - Cardinality(DOMAIN w.dom.section)
        stack == NestedIn(w, newLevel)
        about == IF w.call.tpl.first = node THEN None ELSE w.call.tpl.about
        with == [w.dom EXCEPT !.section = @ @@ (new :> [level |-> newLevel, id |-> id]),
                              !.kids = @ @@ (new :> <<>>),
                              !.about = @ @@ (new :> about)]
    IN  [w EXCEPT !.dom = Moved(Put(with, w.call.root, stack, node, new), node, new),
                  !.call.stack = stack, !.call.curr = new]

-----------------------------------------------------------------------------
(* wrapSectionsInDOM: the parts of an iteration. *)

NoTemplate ==
    [first |-> None, about |-> None, last |-> None, firstSection |-> None, lastSection |-> None]

Call(currSection, rootNode) ==
    [root |-> rootNode, curr |-> currSection, stack |-> <<>>, tpl |-> NoTemplate,
     highest |-> 7]

\* `node` is the next child of the element that is walked; templated output is
\* entered if a template begins with it.
Visited(w, node, isElement, first) ==
    LET tpl == IF first THEN [NoTemplate EXCEPT !.first = node, !.about = Templates + 1]
               ELSE w.call.tpl
    IN  [w EXCEPT !.dom.kids = [@ EXCEPT ![w.call.root] = Append(@, node)]
                                  @@ (IF isElement THEN node :> <<>> ELSE <<>>),
                  !.dom.about = @ @@ (node :> tpl.about),
                  !.dom.wraps = @ @@ (IF first THEN node :> tpl.about ELSE <<>>),
                  !.dom.added = @ @@ (IF first THEN node :> {} ELSE <<>>),
                  !.call.tpl = tpl,
                  !.state.inTemplate = @ \/ first]

\* What is not put in a new section goes to the current one.
Kept(w, node) ==
    IF w.call.curr = None THEN w ELSE [w EXCEPT !.dom = Moved(@, node, w.call.curr)]

\* Mistake: the number of the heading before it.
WithHeadingLate(w, node, level) ==
    createNewSection([w EXCEPT !.state.sectionNumber = @ + 1, !.call.highest = Min({@, level})],
                     node, level,
                     IF w.state.inTemplate THEN -1 ELSE w.state.sectionNumber)

\* Mistake: the highest level is that of the last heading.
WithHeadingLast(w, node, level) ==
    LET number == w.state.sectionNumber + 1
    IN  createNewSection([w EXCEPT !.state.sectionNumber = number, !.call.highest = level],
                         node, level, IF w.state.inTemplate THEN -1 ELSE number)

WithHeading(w, node, level) ==
    LET number == w.state.sectionNumber + 1
    IN  createNewSection([w EXCEPT !.state.sectionNumber = number,
                                   !.call.highest = Min({@, level})],
                         node, level, IF w.state.inTemplate THEN -1 ELSE number)

\* Mistake: the section before a pseudo-section stays editable.
WithElementEditable(w, node, nestedHighest) ==
    IF w.call.curr # None /\ nestedHighest <= w.dom.section[w.call.curr].level
    THEN createNewSection(w, node, nestedHighest, -2)
    ELSE Kept(w, node)

\* An element, with the highest level of the headings in it: if the current
\* section could not hold them, a pseudo-section is made for it.
WithElement(w, node, nestedHighest) ==
    IF w.call.curr # None /\ nestedHighest <= w.dom.section[w.call.curr].level
    THEN createNewSection([w EXCEPT !.dom.section[w.call.curr].id = -1], node, nestedHighest, -2)
    ELSE Kept(w, node)

\* Mistake: templated output is not left if it is in one section.
LeftExamined(w, node, last) ==
    LET tpl == IF w.call.tpl.first = node THEN [w.call.tpl EXCEPT !.firstSection = w.call.curr]
               ELSE w.call.tpl
        info == [tpl EXCEPT !.last = node, !.lastSection = w.call.curr]
        conflict == last /\ w.call.curr # tpl.firstSection
    IN  [w EXCEPT !.call.tpl = IF last THEN NoTemplate ELSE tpl,
                  !.state.inTemplate = @ /\ ~conflict,
                  !.state.toExamine = IF conflict THEN Append(@, info) ELSE @]

\* Where the first node of a template went is noted; and templated output is
\* left with its last node, to be examined if that is in another section.
Left(w, node, last) ==
    LET tpl == IF w.call.tpl.first = node THEN [w.call.tpl EXCEPT !.firstSection = w.call.curr]
               ELSE w.call.tpl
        info == [tpl EXCEPT !.last = node, !.lastSection = w.call.curr]
    IN  [w EXCEPT !.call.tpl = IF last THEN NoTemplate ELSE tpl,
                  !.state.inTemplate = @ /\ ~last,
                  !.state.toExamine = IF last /\ w.call.curr # tpl.firstSection
                                      THEN Append(@, info) ELSE @]

-----------------------------------------------------------------------------
(* wrapSectionsInDOM: the loop. *)

call == Last(calls)
Walk == [dom |-> dom, call |-> call, state |-> state]

Becomes(w, below) ==
    /\ dom' = w.dom
    /\ state' = w.state
    /\ calls' = Append(below, w.call)

\* The next node of the page, and whether a template begins or ends with it.
Read(level, first) ==
    /\ calls # <<>>
    /\ Len(page) < MaxNodes
    /\ first => ~state.inTemplate /\ Templates < MaxTemplates
    /\ page' = Append(page, [level |-> level, parent |-> call.root,
                             tpl |-> IF first THEN Templates + 1 ELSE call.tpl.about])

MayBeLast(w, last) == last => w.call.tpl # NoTemplate

VisitHeading ==
    \E level \in Levels, first, last \in BOOLEAN :
        /\ Read(level, first)
        /\ \E w \in {Visited(Walk, Len(page'), FALSE, first)} :
              /\ MayBeLast(w, last)
              /\ Becomes(Left(WithHeading(w, Len(page'), level), Len(page'), last), Front(calls))

VisitPlain ==
    \E first, last \in BOOLEAN :
        /\ Read(None, first)
        /\ \E w \in {Visited(Walk, Len(page'), FALSE, first)} :
              /\ MayBeLast(w, last)
              /\ Becomes(Left(Kept(w, Len(page')), Len(page'), last), Front(calls))

\* wrapSectionsInDOM calls itself.
EnterElement ==
    /\ Len(calls) < MaxDepth
    /\ \E first \in BOOLEAN :
          /\ Read(None, first)
          /\ \E w \in {Visited(Walk, Len(page'), TRUE, first)} :
                Becomes([w EXCEPT !.call = Call(None, Len(page'))], Append(Front(calls), w.call))

\* Mistake: the last section of an element stays editable.
ClosedEditable(d, ended) == d

\* The last section of an element ends with it: it is not editable.
Closed(d, ended) ==
    IF ended.curr # None THEN [d EXCEPT !.section[ended.curr].id = -1] ELSE d

\* And returns.
LeaveElement ==
    /\ Len(calls) > 1
    /\ call.tpl = NoTemplate
    /\ \E last \in BOOLEAN :
          \E w \in {[dom |-> Closed(dom, call), call |-> calls[Len(calls) - 1], state |-> state]} :
              /\ MayBeLast(w, last)
              /\ Becomes(Left(WithElement(w, call.root, call.highest), call.root, last),
                         SubSeq(calls, 1, Len(calls) - 2))
    /\ UNCHANGED page

\* The end of the body: the lead section goes before all others.
LeaveBody ==
    /\ Len(calls) = 1
    /\ call.tpl = NoTemplate
    /\ calls' = <<>>
    /\ dom' = [dom EXCEPT !.kids[Body] = <<Lead>> \o @]
    /\ UNCHANGED <<page, state>>

-----------------------------------------------------------------------------
(* resolveTplExtSectionConflicts: an action is a template of that list. *)

After(seq, x) == LET i == CHOOSE j \in 1..Len(seq) : seq[j] = x
                 IN  SubSeq(seq, i + 1, Len(seq))

\* The source from the end of one to the end of the other.
Source(d, from, upto) ==
    (Last(Content(d, from)) + 1)..Last(Content(d, upto))

\* Mistake: what follows gets no about id.
LastCoversPartUnmarked(d, info) ==
    LET rest == After(d.kids[Parent(d, info.last)], info.last)
    IN  IF rest = <<>> THEN d
        ELSE [d EXCEPT !.added[info.first] = @ \cup Source(d, info.last, info.lastSection)]

\* The last section is in the first one, or there is no first one: what follows
\* the template in its last section becomes a part of it.
LastCoversPart(d, info) ==
    LET rest == After(d.kids[Parent(d, info.last)], info.last)
    IN  IF rest = <<>> THEN d
        ELSE [d EXCEPT !.about = [x \in DOMAIN @ |-> IF Contains(rest, x) THEN info.about ELSE @[x]],
                       !.added[info.first] = @ \cup Source(d, info.last, info.lastSection)]

\* Mistake: the last of them is left out.
FromUntil(siblings, x, y) ==
    ({x} \cup Range(After(siblings, x))) \ ({y} \cup Range(After(siblings, y)))

\* Siblings, from one up to another.
From(siblings, x, y) ==
    ({x} \cup Range(After(siblings, x))) \ Range(After(siblings, y))

\* They are in different subtrees: the siblings from the one with the first to
\* the one with the last are wrapped as one template.
InDifferentSubtrees(d, info) ==
    LET path1 == PathToRoot(d, info.firstSection)
        path2 == PathToRoot(d, info.lastSection)
        i == Min({k \in 1..Len(path1) : Contains(path2, path1[k])})
        j == CHOOSE k \in 1..Len(path2) : path2[k] = path1[i]
        newS1 == path1[i - 1]
        newS2 == path2[j - 1]
        wrapped == From(d.kids[path1[i]], newS1, newS2)
        newAbout == -info.about
        parts == d.added[info.first] \cup (Head(Content(d, newS1))..Last(Content(d, newS2)))
    IN  [d EXCEPT !.about = [x \in DOMAIN @ |-> IF x \in wrapped THEN newAbout ELSE @[x]],
                  !.wraps = (newS1 :> d.wraps[info.first]) @@ @,
                  !.added = (newS1 :> parts) @@ @]

Resolve ==
    /\ calls = <<>>
    /\ state.resolved < Len(state.toExamine)
    /\ \E info \in {state.toExamine[state.resolved + 1]} :
          dom' = IF info.firstSection = None
                    \/ Contains(PathToRoot(dom, info.lastSection), info.firstSection)
                 THEN LastCoversPart(dom, info) ELSE InDifferentSubtrees(dom, info)
    /\ state' = [state EXCEPT !.resolved = @ + 1]
    /\ UNCHANGED <<page, calls>>

-----------------------------------------------------------------------------
Init ==
    /\ page = <<>>
    /\ dom = [kids |-> (Body :> <<>>) @@ (Lead :> <<>>),
              section |-> Lead :> [level |-> 6, id |-> 0],
              about |-> Lead :> None,
              wraps |-> <<>>,
              added |-> <<>>]
    /\ calls = <<Call(Lead, Body)>>
    /\ state = [sectionNumber |-> 0, inTemplate |-> FALSE, toExamine |-> <<>>, resolved |-> 0]

Next ==
    \/ VisitHeading
    \/ VisitPlain
    \/ EnterElement
    \/ LeaveElement
    \/ LeaveBody
    \/ Resolve

Spec == Init /\ [][Next]_vars

-----------------------------------------------------------------------------
(* Properties *)

\* The pass is over.
Wrapped == calls = <<>> /\ state.resolved = Len(state.toExamine)

\* The sections a call may still add to are nested by level, and templated
\* output is entered in one of the calls, or in none.
TypeOK ==
    /\ \A c \in DOMAIN dom.kids : IsInjective(dom.kids[c])
    /\ \A i \in 1..Len(calls) :
          LET c == calls[i]
              open == c.stack \o (IF c.curr = None THEN <<>> ELSE <<c.curr>>)
          IN  \A k \in 1..(Len(open) - 1) :
                  dom.section[open[k]].level < dom.section[open[k + 1]].level
    /\ state.inTemplate <=> \E i \in 1..Len(calls) : calls[i].tpl # NoTemplate

Begin(s) == Head(dom.kids[s])
Root(s) == page[Begin(s)].parent
Level(s) == dom.section[s].level
Headed == Sections \ {Lead}
InRoot(r) == {s \in Headed : Root(s) = r}
Within(x, c) == x # c /\ Contains(PathToRoot(dom, x), c)

\* A node's place in the source: every element has the children it had.
SourceKept ==
    /\ Content(dom, Body) = [n \in Nodes |-> n]
    /\ \A n \in Nodes :
          Head(SelectSeq(Tail(PathToRoot(dom, n)), LAMBDA x : x >= 0)) = page[n].parent

\* A section reaches to the next one, in the same element, of its level or a
\* higher one.
Outline ==
    \A s \in Headed : \A t \in InRoot(Root(s)) :
        Begin(s) < Begin(t) =>
            (Within(t, s) <=> \A u \in InRoot(Root(s)) :
                Begin(s) < Begin(u) /\ Begin(u) <= Begin(t) => Level(u) > Level(s))

\* A node is in the section that began last before it, in the same element.
InLastSection ==
    \A n \in Nodes :
        LET before == {s \in InRoot(page[n].parent) : Begin(s) <= n}
        IN  Parent(dom, n) =
               CASE before # {} -> CHOOSE s \in before : \A t \in before : Begin(t) <= Begin(s)
                 [] before = {} /\ page[n].parent = Body -> Lead
                 [] before = {} /\ page[n].parent # Body -> page[n].parent

\* The sections are the outline of the page, whatever levels its headings skip
\* and whatever elements and templates they come from; and the pass moves no
\* node past another, and none out of the element it was in.
SectionsAreOutline == Wrapped => SourceKept /\ Outline /\ InLastSection

Headings == {n \in Nodes : page[n].level # None}
Templated(n) == \E x \in Range(PathToRoot(dom, n)) : x > 0 /\ page[x].tpl # None

\* What is between the beginning of a section and the next heading of its level,
\* or a higher one, wherever in the page that is.
Extent(s) ==
    LET first == IF s = Lead THEN 1 ELSE Begin(s)
        ends == {h \in Headings : page[h].level <= Level(s) /\ (s = Lead \/ h > first)}
    IN  {n \in Nodes : n >= first /\ \A h \in ends : n < h}

\* The number of a section is the place of its heading among all those of the
\* page, and its heading is not of a template.  What is in an editable section of
\* the page is in the source of that number, and with no section in it is all of
\* that: the next heading is not in an element beside it.  The last section of an
\* element is not editable.
IdsAreForEditing ==
    Wrapped => \A s \in Sections :
        LET id == dom.section[s].id
        IN  /\ s # Lead /\ id > 0 =>
                  /\ ~Templated(Begin(s))
                  /\ id = Cardinality({h \in Headings : h <= Begin(s)})
                  /\ Root(s) = Body \/ \E t \in InRoot(Root(s)) : Begin(s) < Begin(t)
            /\ id >= 0 /\ (s = Lead \/ Root(s) = Body) =>
                  /\ Range(Content(dom, s)) \subseteq Extent(s)
                  /\ (\A t \in Headed : ~Within(t, s)) => Extent(s) \subseteq Range(Content(dom, s))

\* A template wrapper and the siblings after it with its about id.
AboutSiblings(x) ==
    LET following == After(dom.kids[Parent(dom, x)], x)
        n == Max({k \in 0..Len(following) : \A i \in 1..k : dom.about[following[i]] = dom.about[x]})
    IN  UNION {Range(Content(dom, y)) : y \in {x} \cup Range(SubSeq(following, 1, n))}

\* The same, after the serializer stripped the sections.
StrippedSiblings(x) ==
    LET siblings == {n \in Nodes : page[n].parent = page[x].parent /\ n >= x}
        group == {n \in siblings : \A m \in siblings : m <= n => dom.about[m] = dom.about[x]}
    IN  UNION {Range(Content(dom, y)) : y \in group}

\* What data-mw of a wrapper stands for.
Output(t) == {n \in Nodes : \E x \in Nodes : page[x].tpl = t /\ Contains(Content(dom, x), n)}
StandsFor(x) == Output(dom.wraps[x]) \cup dom.added[x]

\* Its wikitext was added to another template.
Swallowed(t) ==
    \E x \in DOMAIN dom.wraps : dom.wraps[x] # t /\ Output(t) \subseteq dom.added[x]

Wrappers(t) == {x \in DOMAIN dom.wraps : dom.wraps[x] = t}

\* WTUtils.js:435-438 says that the content of a template is "formed by adjacent
\* dom-nodes", a contract: on a page with no more than one template that sections
\* break up, what a wrapper of each template stands for is in the siblings with
\* its about id, and without the sections its own output, and what was added to
\* it up to another section, still is.
TemplatesStayTogether ==
    Wrapped /\ Len(state.toExamine) <= 1 =>
        \A t \in 1..Templates : Swallowed(t) \/
            /\ \E x \in Wrappers(t) : StandsFor(x) \subseteq AboutSiblings(x)
            /\ \E x \in Wrappers(t) \cap Nodes :
                  /\ Output(t) \subseteq StrippedSiblings(x)
                  /\ (\A s \in Headed : Begin(s) \notin dom.added[x])
                        => StandsFor(x) \subseteq StrippedSiblings(x)

\* parserTests.txt:32313-32316 says that template wrappers are such "that template
\* wrapping semantics are valid whether section tags are retained or stripped":
\* without the sections too all that data-mw stands for is in the template.
ValidWhenStripped ==
    Wrapped => \A t \in 1..Templates : Swallowed(t) \/
        \E x \in Wrappers(t) \cap Nodes : StandsFor(x) \subseteq StrippedSiblings(x)
=============================================================================
