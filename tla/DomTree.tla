-------------------------------- MODULE DomTree --------------------------------
(***************************************************************************)
(* The document the passes of DOMPostProcessor work on, and the questions  *)
(* they ask of it (lib/utils/DOMUtils.js, WTUtils.js).  A node is the      *)
(* number of its record; a node that was removed keeps the number and has  *)
(* no parent.  Text is a sequence of characters, of which the passes tell  *)
(* newlines ("n") and pipes ("p") from everything else ("x").  The fields  *)
(* tsr, dsr, html (stx), autoStart, autoEnd, fostered and the fields of    *)
(* tmp are those of data-parsoid.  A place of the source that is not known *)
(* is Nil.  Of the wikitext that stands before a transclusion in the tag   *)
(* it is in (unwrappedWT) the width is kept.  type is the typeof of a      *)
(* meta; of another element it is known whether that of a transclusion was *)
(* put before it (wrapped), and whether its style or class forbids to      *)
(* break lines (nowrap).                                                   *)
(***************************************************************************)
EXTENDS Integers, SequencesExt, TLC

Nil == -1000        \* null, where a place of the source may stand
None == 0           \* no node
Body == 1

NoRange == <<>>     \* a data-parsoid without tsr or dsr

Node(tag) ==
    [tag |-> tag, type |-> "", name |-> "", tagId |-> 0, about |-> 0, data |-> <<>>,
     tsr |-> NoRange, dsr |-> NoRange, html |-> FALSE, row |-> FALSE, src |-> 0,
     autoStart |-> FALSE, autoEnd |-> FALSE, fostered |-> FALSE,
     inTransclusion |-> FALSE, nowrap |-> FALSE, linted |-> FALSE, processed |-> FALSE, unwrapped |-> 0, wrapped |-> FALSE, firstWikitextNode |-> "",
     parts |-> <<>>]

Text(data) == [Node("#text") EXCEPT !.data = data]
Meta(type) == [Node("META") EXCEPT !.type = type]

EmptyDocument == [node |-> <<Node("BODY")>>, kids |-> << <<>> >>, up |-> <<None>>,
                  threw |-> FALSE, lints |-> <<>>]

-----------------------------------------------------------------------------
(* The tree *)

FirstOf(s) == IF s = <<>> THEN None ELSE s[1]
LastOf(s) == IF s = <<>> THEN None ELSE s[Len(s)]

FirstChild(d, n) == FirstOf(d.kids[n])
LastChild(d, n) == LastOf(d.kids[n])

Siblings(d, n) == d.kids[d.up[n]]
Place(d, n) == CHOOSE i \in DOMAIN Siblings(d, n) : Siblings(d, n)[i] = n
SiblingAt(d, n, i) == IF i \in DOMAIN Siblings(d, n) THEN Siblings(d, n)[i] ELSE None
NextSibling(d, n) == SiblingAt(d, n, Place(d, n) + 1)
PreviousSibling(d, n) == SiblingAt(d, n, Place(d, n) - 1)

\* From n up to the body.
PathToRoot(d, n) ==
    LET path[i \in 0..Len(d.node)] == IF i = None THEN <<>> ELSE <<i>> \o path[d.up[i]]
    IN  path[n]

\* A new node, not yet in the tree: its number is Len(d.node) then.
Created(d, r) ==
    [d EXCEPT !.node = Append(@, r), !.kids = Append(@, <<>>), !.up = Append(@, None)]

Detached(d, n) ==
    IF d.up[n] = None THEN d
    ELSE [d EXCEPT !.kids[d.up[n]] = Remove(@, n), !.up[n] = None]

\* removeChild of the parent of n, which throws when n has none.
Removed(d, n) == IF d.up[n] = None THEN [d EXCEPT !.threw = TRUE] ELSE Detached(d, n)

PutInto(d, p, n, before) ==
    LET at == IF before = None THEN Len(d.kids[p]) + 1
              ELSE CHOOSE i \in DOMAIN d.kids[p] : d.kids[p][i] = before
    IN  [d EXCEPT !.kids[p] = InsertAt(@, at, n), !.up[n] = p]

InsertBefore(d, p, n, before) == PutInto(Detached(d, n), p, n, before)
AppendChild(d, p, n) == InsertBefore(d, p, n, None)

\* A new node with record r, put before `before` in p.
Inserted(d, r, p, before) == PutInto(Created(d, r), p, Len(d.node) + 1, before)

\* The nodes of a list, one after the other, into p before `before`.
AllInserted(d, ns, p, before) ==
    FoldLeft(LAMBDA e, n : InsertBefore(e, p, n, before), d, ns)

TrailingNLs(data) == Len(data) - SelectLastInSeq(data, LAMBDA c : c # "n")

\* The newlines a text ends with, as a text of their own.
SplitNLs(d, n) ==
    LET data == d.node[n].data
        keep == Len(data) - TrailingNLs(data)
    IN  Created([d EXCEPT !.node[n].data = SubSeq(data, 1, keep)],
                Text(SubSeq(data, keep + 1, Len(data))))

-----------------------------------------------------------------------------
(* What a node is *)

IsText(d, n) == n # None /\ d.node[n].tag = "#text"
IsElt(d, n) == n # None /\ d.node[n].tag # "#text"
IsMarkerMeta(d, n, type) == d.node[n].tag = "META" /\ d.node[n].type = type
IsIEW(d, n) == IsText(d, n) /\ ToSet(d.node[n].data) \subseteq {"n"}

BlockTags == {"DIV", "P", "TABLE", "TBODY", "TR", "TD", "UL", "LI", "H2"}
IsBlockNode(d, n) == d.node[n].tag \in BlockTags
IsFormattingElt(d, n) == d.node[n].tag = "SMALL"

FosterablePosition == {"TABLE", "TBODY", "TR"}
IsFosterablePosition(d, n) == d.node[d.up[n]].tag \in FosterablePosition

FirstNonSepChild(d, n) == FirstOf(SelectSeq(d.kids[n], LAMBDA c : ~IsIEW(d, c)))
LastNonSepChild(d, n) == LastOf(SelectSeq(d.kids[n], LAMBDA c : ~IsIEW(d, c)))

InSiblingOrder(d, n1, n2) == d.up[n1] = d.up[n2] /\ Place(d, n1) <= Place(d, n2)

IsTplStartMarkerMeta(d, n) == IsMarkerMeta(d, n, "Transclusion")
IsTplEndMarkerMeta(d, n) == IsMarkerMeta(d, n, "Transclusion/End")
IsTplMarkerMeta(d, n) == IsTplStartMarkerMeta(d, n) \/ IsTplEndMarkerMeta(d, n)

IsCategoryLink(d, n) == IsElt(d, n) /\ d.node[n].tag = "LINK"

\* Metas of literal HTML apart, every meta is transparent; the start and end
\* tag metas copy the data-parsoid of their tag and count all the same.
IsRenderingTransparentNode(d, n) ==
    \/ IsCategoryLink(d, n)
    \/ d.node[n].tag = "META" /\ (d.node[n].type \in {"StartTag", "EndTag"} \/ ~d.node[n].html)

\* isFirstEncapsulationWrapperNode, and findFirstEncapsulationWrapperNode: the first
\* of the nodes of a transclusion, for one of them.
IsFirstWrapper(d, n) == d.node[n].wrapped
RECURSIVE FirstWrapper(_, _)
FirstWrapper(d, n) ==
    LET prev == PreviousSibling(d, n)
    IN  IF d.node[n].about = 0 THEN None
        ELSE IF IsElt(d, prev) /\ d.node[prev].about = d.node[n].about THEN FirstWrapper(d, prev)
        ELSE IF IsFirstWrapper(d, n) THEN n ELSE None

\* Util.isValidDSR
ValidDSR(r) == r # NoRange /\ r[1] # Nil /\ r[2] # Nil

\* null in a comparison or a sum of JavaScript.
Num(x) == IF x = Nil THEN 0 ELSE x
================================================================================
