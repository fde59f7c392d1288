-------------------------------- MODULE PageDOM --------------------------------
(***************************************************************************)
(* The DOM of a page as the serializer looks at it: what it asks of a node *)
(* in lib/utils/DOMUtils.js and WTUtils.js.  A DOM is a function from its  *)
(* nodes, integers, to records:                                            *)
(*   name, parent, kids                                                    *)
(*   text     of a text node, a sequence of characters                     *)
(*   stx      of data-parsoid: "", "html" or "row"                         *)
(*   dsr      of data-parsoid: start, end and widths of the tags, or <<>>  *)
(*   isNew    an element without data-parsoid                              *)
(*   about    of a template, 0 for none; `first` for the one with data-mw  *)
(*   startSrc the start tag of a table row was in the source               *)
(*   attr     the attributes that are compared, "" if there are none; of a *)
(*            link its target                                              *)
(*   tail     of a link, the letters behind the brackets                   *)
(*   marks    of the comparison with the original page                     *)
(* A comment is the character "C" in a separator.                          *)
(***************************************************************************)
EXTENDS Integers, SequencesExt, FiniteSetsExt

Body == 0
None == -1

NL == "\n"

Spaces == {NL, " "}

isText(d, n) == d[n].name = "#text"
isComment(d, n) == d[n].name = "#comment"
isElt(d, n) == ~isText(d, n) /\ ~isComment(d, n)
isDiffMarker(d, n) == n # None /\ d[n].name = "DIFF"
isIEW(d, n) == isText(d, n) /\ \A i \in 1..Len(d[n].text) : d[n].text[i] \in Spaces
isContentNode(d, n) == ~isComment(d, n) /\ ~isIEW(d, n) /\ ~isDiffMarker(d, n)

-----------------------------------------------------------------------------
(* Neighbours: the first of a sequence of nodes, or None. *)

Siblings(d, n) == d[d[n].parent].kids
Place(d, n) == CHOOSE i \in 1..Len(Siblings(d, n)) : Siblings(d, n)[i] = n
Following(d, n) ==
    IF n = Body THEN <<>> ELSE SubSeq(Siblings(d, n), Place(d, n) + 1, Len(Siblings(d, n)))
Preceding(d, n) ==
    IF n = Body THEN <<>> ELSE Reverse(SubSeq(Siblings(d, n), 1, Place(d, n) - 1))

FirstIn(s) == IF s = <<>> THEN None ELSE s[1]
OnlyContent(d, s) == SelectSeq(s, LAMBDA x : isContentNode(d, x))
OnlyThere(d, s) == SelectSeq(s, LAMBDA x : ~isDiffMarker(d, x))

nextSibling(d, n) == FirstIn(Following(d, n))
previousSibling(d, n) == FirstIn(Preceding(d, n))
firstChild(d, n) == FirstIn(d[n].kids)
lastChild(d, n) == FirstIn(Reverse(d[n].kids))
previousNonSepSibling(d, n) == FirstIn(OnlyContent(d, Preceding(d, n)))
nextNonSepSibling(d, n) == FirstIn(OnlyContent(d, Following(d, n)))
firstNonSepChild(d, n) == FirstIn(OnlyContent(d, d[n].kids))
lastNonSepChild(d, n) == FirstIn(OnlyContent(d, Reverse(d[n].kids)))
previousNonDeletedSibling(d, n) == FirstIn(OnlyThere(d, Preceding(d, n)))
nextNonDeletedSibling(d, n) == FirstIn(OnlyThere(d, Following(d, n)))
firstNonDeletedChild(d, n) == FirstIn(OnlyThere(d, d[n].kids))
lastNonDeletedChild(d, n) == FirstIn(OnlyThere(d, Reverse(d[n].kids)))

\* The ancestors, the nearest first.
Ancestors(d, n) ==
    LET up[x \in Int] == IF x = Body THEN <<>> ELSE <<d[x].parent>> \o up[d[x].parent]
    IN  up[n]
isAncestorOf(d, a, n) == a = n \/ a \in Range(Ancestors(d, n))

\* The characters of a node and all below it.
textContent(d, n) ==
    LET content[x \in Int] == d[x].text \o FlattenSeq([i \in 1..Len(d[x].kids) |-> content[d[x].kids[i]]])
    IN  content[n]
allChildrenAreText(d, n) ==
    \A i \in 1..Len(d[n].kids) : isDiffMarker(d, d[n].kids[i]) \/ isText(d, d[n].kids[i])

-----------------------------------------------------------------------------
(* Kinds of nodes *)

Headings == {"H1", "H2", "H3"}
Lists == {"UL", "OL", "DL"}
ListItems == {"LI", "DT", "DD"}
TableTags == {"TABLE", "TBODY", "TR", "TD", "TH", "CAPTION"}
BlockTags == {"DIV", "P", "HR", "PRE", "FIGURE", "BLOCKQUOTE"}
                 \cup Headings \cup Lists \cup ListItems \cup TableTags
ZeroWidthWikitextTags == {"P", "META", "DIFF", "BR", "TBODY"} \cup Lists
ChildTableTags == TableTags \ {"TABLE"}
TagsRequiringSOLContext == {"PRE"} \cup Headings \cup Lists \cup ListItems
SolSpaceSensitiveTags == Headings \cup Lists \cup ListItems
\* As elements of the page's HTML, these keep doBlockLevels from reading indents as PREs.
BlockScopeOpenTags == {"BLOCKQUOTE", "PRE", "P", "UL", "OL", "LI", "DL", "TABLE", "TR"} \cup Headings
WeakIndentPreSuppressingTags == {"TABLE", "TBODY", "TR"}
StrongIndentPreSuppressingTags == {"BLOCKQUOTE", "PRE", "P", "LI"} \cup Headings \cup Lists

isBody(d, n) == n = Body
isList(d, n) == n # None /\ d[n].name \in Lists
isListItem(d, n) == n # None /\ d[n].name \in ListItems
isListOrListItem(d, n) == isList(d, n) \/ isListItem(d, n)
isBlockNode(d, n) == d[n].name \in BlockTags
isFormattingElt(d, n) == d[n].name \in {"B", "I", "FONT"}
isQuoteElt(d, n) == n # None /\ d[n].name \in {"B", "I"}
isLiteralHTMLNode(d, n) == n # None /\ isElt(d, n) /\ d[n].stx = "html"
isZeroWidthWikitextElt(d, n) ==
    d[n].name \in ZeroWidthWikitextTags /\ ~isLiteralHTMLNode(d, n)
isBlockNodeWithVisibleWT(d, n) == isBlockNode(d, n) /\ ~isZeroWidthWikitextElt(d, n)
isSolTransparentLink(d, n) == d[n].name = "LINK"
emitsSolTransparentSingleLineWT(d, n) ==
    IF isText(d, n) THEN \A i \in 1..Len(d[n].text) : d[n].text[i] = " "
    ELSE isComment(d, n) \/ d[n].name \in {"META", "LINK", "DIFF"}
isNestedListOrListItem(d, n) ==
    isListOrListItem(d, n) /\ \E a \in Range(Ancestors(d, n)) : isListItem(d, a)
\* Of a table that is in HTML, or in a part of one that is.
inHTMLTableTag(d, n) ==
    LET in[p \in Int] == /\ d[p].name \in TableTags
                         /\ \/ isLiteralHTMLNode(d, p)
                            \/ d[p].name # "TABLE" /\ in[d[p].parent]
    IN  in[d[n].parent]

-----------------------------------------------------------------------------
(* Templates: adjacent nodes with one about id. *)

isEncapsulationWrapper(d, n) == isElt(d, n) /\ d[n].about # 0
isFirstEncapsulationWrapperNode(d, n) == isElt(d, n) /\ d[n].first
FirstWrapper(d, n) == CHOOSE x \in DOMAIN d : d[x].first /\ d[x].about = d[n].about
isNewElt(d, n) ==
    isElt(d, n) /\ d[IF isEncapsulationWrapper(d, n) THEN FirstWrapper(d, n) ELSE n].isNew
\* What follows the template that n begins.
skipOverEncapsulatedContent(d, n) ==
    LET after == Following(d, n)
        end == {i \in 1..Len(after) : d[after[i]].about # d[n].about}
    IN  IF d[n].about = 0 THEN nextSibling(d, n)
        ELSE IF end = {} THEN None ELSE after[Min(end)]

isValidDSR(dsr) == dsr # <<>>

hasMark(d, n, mark) == mark \in d[n].marks
hasDiffMarkers(d, n) == d[n].marks # {} \/ isDiffMarker(d, n)
\* For text the mark is a node of its own.
hasInsertedDiffMark(d, n) ==
    IF isElt(d, n) THEN hasMark(d, n, "inserted")
    ELSE LET p == previousSibling(d, n) IN isDiffMarker(d, p) /\ d[p].marks = {"inserted"}
onlySubtreeChanged(d, n) ==
    d[n].marks # {} /\ d[n].marks \subseteq {"subtree-changed", "children-changed"}
directChildrenChanged(d, n) == hasMark(d, n, "children-changed")
isDeletedMarker(d, n) == isDiffMarker(d, n) /\ "deleted" \in d[n].marks
isDeletedBlockNode(d, n) == isDeletedMarker(d, n) /\ "block" \in d[n].marks
=============================================================================
