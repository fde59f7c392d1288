------------------------------ MODULE DOMHandlers ------------------------------
(***************************************************************************)
(* What the serializer does for an element, by its tag                     *)
(* (lib/html2wt/DOMHandlers.js): how many newlines it wants between it and *)
(* what is beside it, and how it is written.  `s` is the state of the      *)
(* serializer (SerializerState); d the edited page.                        *)
(*                                                                         *)
(* Characters of the output are pairs <<c, p>>: p is the place in the      *)
(* source of the page it was taken from, or 0.  Attributes of tags are     *)
(* left out, and the tags of elements without wikitext are "<" and ">".    *)
(***************************************************************************)
EXTENDS PageDOM

Written(chars) == [i \in 1..Len(chars) |-> <<chars[i], 0>>]
Chars(out) == [i \in 1..Len(out) |-> out[i][1]]

\* From the source of the page: SerializerState.getOrigSrc.
Orig(s, from, to) == [i \in 1..Max({to - from, 0}) |-> <<s.src[from + i], from + i>>]

-----------------------------------------------------------------------------
(* WikitextSerializer._getDOMHandler: the name of the handler *)

Native == {"B", "I", "DL", "UL", "OL", "LI", "DT", "DD", "TABLE", "TBODY", "TR", "TH", "TD", "CAPTION",
           "P", "PRE", "META", "FIGURE", "HR", "BR", "A", "LINK"} \cup Headings

getDOMHandler(d, n) ==
    IF n = None \/ ~isElt(d, n) THEN "none"
    ELSE IF n = Body THEN "BODY"
    ELSE IF isFirstEncapsulationWrapperNode(d, n) THEN "encapsulated"
    ELSE IF d[n].name = "DD" /\ d[n].stx = "row" THEN "DD_ROW"
    ELSE IF d[n].name = "PRE" /\ d[n].stx = "html" THEN "PRE_HTML"
    ELSE IF \/ d[n].stx = "html" /\ d[n].name # "A"
            \/ d[n].name \in ChildTableTags \ ZeroWidthWikitextTags /\ inHTMLTableTag(d, n)
            \/ isListItem(d, n) /\ isList(d, d[n].parent) /\ isLiteralHTMLNode(d, d[n].parent)
    THEN "html"
    ELSE IF d[n].name \in Native THEN d[n].name ELSE "html"

forceSOL(handler) == handler \in Headings \cup Lists \cup ListItems \cup {"P"}

-----------------------------------------------------------------------------
(* Newlines: at least min, at most max, either None if the handler has no wish *)

C(min, max) == [min |-> min, max |-> max, force |-> FALSE]
AnyNumber == C(None, None)
Forced(min) == [min |-> min, max |-> None, force |-> TRUE]
Many == 99

wtListEOL(d, n, other) ==
    LET next == nextNonSepSibling(d, n)
    IN  IF ~isElt(d, other) \/ isBody(d, other) THEN C(0, 2)
        ELSE IF isFirstEncapsulationWrapperNode(d, other) THEN C(IF isList(d, n) THEN 1 ELSE 0, 2)
        ELSE IF next = other /\ d[other].stx = "html" THEN C(0, 2)
        ELSE IF next = other /\ isListOrListItem(d, other)
        THEN IF isList(d, n) /\ d[other].name = d[n].name THEN C(2, 2)
             ELSE IF isListItem(d, n) \/ d[d[n].parent].name \in {"LI", "DD"} THEN C(1, 1)
             ELSE C(1, 2)
        ELSE IF isList(d, other) \/ d[other].stx = "html" THEN AnyNumber
        ELSE IF isBlockNode(d, d[n].parent) /\ lastNonSepChild(d, d[n].parent) = n THEN C(1, 2)
        ELSE IF isFormattingElt(d, other) THEN C(1, 1)
        ELSE C(2, 2)

listBefore(d, n, other) ==
    IF isBody(d, other) THEN C(0, 0)
    ELSE IF isListItem(d, d[n].parent) /\ other # Body /\ d[other].parent = d[n].parent THEN C(1, 1)
    ELSE IF isBlockNode(d, d[n].parent) /\ firstNonSepChild(d, d[n].parent) = n THEN C(1, 2)
    ELSE IF isFormattingElt(d, other) THEN C(1, 1)
    ELSE C(2, 2)

headingBefore(d, n, other) ==
    IF \/ (isNewElt(d, n) /\ previousNonSepSibling(d, n) # None)
       \/ (isNewElt(d, other) /\ previousNonSepSibling(d, n) = other)
    THEN C(2, 2) ELSE C(1, 2)

maxNLsInTable(d, n, other) == IF isNewElt(d, n) \/ isNewElt(d, other) THEN 1 ELSE 2

\* Mistake: a row before which there is another one is not marked if the source had no mark.
trWikitextNeededSource(d, n) == d[n].startSrc

trWikitextNeeded(d, n) ==
    \/ d[n].startSrc
    \/ previousNonSepSibling(d, n) # None
    \/ LET p == previousNonSepSibling(d, d[n].parent) IN p # None /\ d[p].name # "CAPTION"

cellBefore(d, n, other) ==
    C(IF d[other].name = d[n].name /\ d[n].stx = "row" THEN 0 ELSE 1, maxNLsInTable(d, n, other))

-----------------------------------------------------------------------------
(* Paragraphs *)

treatAsPPTransition(d, n) ==
    \/ isText(d, n)
    \/ /\ ~isBody(d, n) /\ ~isBlockNode(d, n) /\ ~isLiteralHTMLNode(d, n)
       /\ ~isEncapsulationWrapper(d, n) /\ ~isSolTransparentLink(d, n)
isPPTransition(d, n) ==
    n # None /\ ((d[n].name = "P" /\ d[n].stx # "html") \/ treatAsPPTransition(d, n))

\* What is on the line before n, from n back: the siblings, the parent, its siblings ...
LineBefore(d, n) ==
    LET up[x \in Int] ==
            LET siblings == OnlyThere(d, Preceding(d, x))
                above == IF d[x].parent = Body THEN <<>> ELSE <<<<d[x].parent, FALSE>>>> \o up[d[x].parent]
            IN  [i \in 1..Len(siblings) |-> <<siblings[i], x # n \/ i > 1>>] \o above
    IN  IF n = Body THEN <<>> ELSE up[n]
HasNL(d, n) == Contains(textContent(d, n), NL)

\* The first node that decides is a block, and the line did not begin after it.
currWikitextLineHasBlockNode(d, first, n, skipNode) ==
    LET line == LineBefore(d, n)
        text == textContent(d, n)
        begins(p) == p[2] /\ first # None /\ isAncestorOf(d, p[1], first)
        decide == {i \in 1..Len(line) : \/ begins(line[i])
                                        \/ isBlockNodeWithVisibleWT(d, line[i][1])
                                        \/ HasNL(d, line[i][1])}
    IN  /\ ~(~skipNode /\ \E i \in 1..Len(text) - 1 : text[i] = NL /\ text[i + 1] \notin Spaces)
        /\ decide # {}
        /\ LET p == line[Min(decide)] IN ~begins(p) /\ isBlockNodeWithVisibleWT(d, p[1])

newWikitextLineMightHaveBlockNode(d, n) ==
    LET line == OnlyThere(d, Following(d, n))
        decide == {i \in 1..Len(line) : isElt(d, line[i]) \/ (isText(d, line[i]) /\ HasNL(d, line[i]))}
    IN  /\ decide # {}
        /\ LET x == line[Min(decide)]
           IN  /\ isElt(d, x)
               /\ ~(d[x].name \in TagsRequiringSOLContext /\ ~isLiteralHTMLNode(d, x))
               /\ isBlockNodeWithVisibleWT(d, x)

inBlockOther(d, n, other) ==
    isBlockNode(d, other) /\ d[other].name # "BLOCKQUOTE" /\ d[n].parent = other

pBefore(d, s, n, other) ==
    LET previous == previousNonDeletedSibling(d, n)
    IN  IF d[n].parent = other /\ (isListItem(d, other) \/ d[other].name \in {"TD", "TH", "BODY"})
        THEN C(0, IF d[other].name \in {"TD", "TH", "BODY"} THEN 1 ELSE 0)
        ELSE IF \/ other = previous /\ d[other].name = "P" /\ d[other].stx # "html"
                \/ /\ treatAsPPTransition(d, other)
                   /\ other = previousNonSepSibling(d, n)
                   /\ ~currWikitextLineHasBlockNode(d, s.line.first, other, FALSE)
        THEN C(2, 2)
        ELSE IF \/ treatAsPPTransition(d, other)
                \/ inBlockOther(d, n, other)
                \/ emitsSolTransparentSingleLineWT(d, other) /\ isNewElt(d, n)
        THEN C(1, 2) ELSE C(0, 2)

\* Mistake: what is on the line that the next paragraph begins is not looked at.
pAfterBlind(d, s, n, other) ==
    IF /\ ~(d[n].kids # <<>> /\ d[lastChild(d, n)].name = "BR")
       /\ isPPTransition(d, other)
       /\ ~currWikitextLineHasBlockNode(d, s.line.first, n, TRUE)
    THEN C(2, 2) ELSE C(0, 2)

pAfter(d, s, n, other) ==
    IF /\ ~(d[n].kids # <<>> /\ d[lastChild(d, n)].name = "BR")
       /\ isPPTransition(d, other)
       /\ ~currWikitextLineHasBlockNode(d, s.line.first, n, TRUE)
       /\ ~newWikitextLineMightHaveBlockNode(d, other)
    THEN C(2, 2)
    ELSE IF ~isBody(d, other) /\ (treatAsPPTransition(d, other) \/ inBlockOther(d, n, other))
    THEN C(1, 2) ELSE C(0, 2)

-----------------------------------------------------------------------------
(* Line breaks: <p><br/>.. and <p><br/></p> stand for empty lines. *)

SingleLine(s) == s.slc # <<>> /\ Last(s.slc)
isPbr(d, br) ==
    d[br].stx # "html" /\ d[d[br].parent].name = "P" /\ firstNonSepChild(d, d[br].parent) = br
isPbrP(d, br) == isPbr(d, br) /\ nextNonSepSibling(d, br) = None

MinSoFar(s) == IF s.sep.constrained THEN s.sep.constraints.min ELSE 0

brBefore(d, s, n) ==
    IF SingleLine(s) \/ ~isPbr(d, n) THEN AnyNumber ELSE Forced(Max({3, MinSoFar(s) + 1}))
brAfter(d, s, n) ==
    IF SingleLine(s) \/ ~isPPTransition(d, nextNonSepSibling(d, d[n].parent)) THEN AnyNumber
    ELSE IF isPbrP(d, n) THEN Forced(Max({4, MinSoFar(s) + 1}))
    ELSE IF isPbr(d, n) THEN Forced(Max({2, MinSoFar(s)}))
    ELSE AnyNumber

-----------------------------------------------------------------------------
(* The table: sepnls.before, after, firstChild and lastChild of each handler *)

NewOnly(d, n) == IF isNewElt(d, n) THEN C(1, None) ELSE AnyNumber
OwnLine(d, n, other) ==
    IF other # d[n].parent /\ ~isEncapsulationWrapper(d, n) THEN C(1, None) ELSE AnyNumber
PreBeside(d, other) == C(IF d[other].name = "PRE" /\ d[other].stx # "html" THEN 2 ELSE 1, None)

before(d, s, n, other) ==
    LET h == getDOMHandler(d, n)
    IN  CASE h \in Headings -> headingBefore(d, n, other)
          [] h \in Lists -> listBefore(d, n, other)
          [] h = "LI" -> IF \/ other = d[n].parent /\ d[other].name \in {"UL", "OL"}
                            \/ isLiteralHTMLNode(d, other)
                         THEN AnyNumber ELSE C(1, 2)
          [] h \in {"DT", "DD", "HR"} -> C(1, 2)
          [] h = "DD_ROW" -> C(0, 0)
          [] h = "TABLE" -> C(IF d[n].parent = other /\ d[other].name = "DD" THEN 0 ELSE 1, 2)
          [] h = "TR" -> C(IF trWikitextNeeded(d, n) THEN 1 ELSE 0, maxNLsInTable(d, n, other))
          [] h \in {"TH", "TD"} -> cellBefore(d, n, other)
          [] h = "CAPTION" -> C(IF d[other].name # "TABLE" THEN 1 ELSE 0, maxNLsInTable(d, n, other))
          [] h = "P" -> pBefore(d, s, n, other)
          [] h = "PRE" -> PreBeside(d, other)
          [] h = "META" -> NewOnly(d, n)
          [] h = "FIGURE" -> IF d[n].parent = Body THEN NewOnly(d, n) ELSE AnyNumber
          [] h = "BR" -> brBefore(d, s, n)
          [] h = "LINK" -> OwnLine(d, n, other)
          [] h = "encapsulated" -> C(0, 2)
          [] OTHER -> AnyNumber

after(d, s, n, other) ==
    LET h == getDOMHandler(d, n)
    IN  CASE h \in Headings -> C(1, 2)
          [] h \in Lists \cup {"LI", "DD", "DD_ROW"} -> wtListEOL(d, n, other)
          [] h = "DT" -> IF getDOMHandler(d, other) = "DD_ROW" THEN C(0, 0) ELSE wtListEOL(d, n, other)
          [] h = "TABLE" -> C(IF (isNewElt(d, n) \/ isNewElt(d, other)) /\ ~isBody(d, other) THEN 1 ELSE 0, 2)
          [] h \in {"TR", "TD"} -> C(0, maxNLsInTable(d, n, other))
          [] h = "TH" -> C(IF d[other].name = "TD" THEN 1 ELSE 0, maxNLsInTable(d, n, other))
          [] h = "CAPTION" -> C(1, maxNLsInTable(d, n, other))
          [] h = "P" -> pAfter(d, s, n, other)
          [] h = "PRE" -> PreBeside(d, other)
          [] h = "META" -> NewOnly(d, n)
          [] h = "FIGURE" -> IF d[n].parent = Body THEN NewOnly(d, n) ELSE AnyNumber
          [] h = "HR" -> C(0, 2)
          [] h = "BR" -> brAfter(d, s, n)
          [] h = "LINK" -> OwnLine(d, n, other)
          [] OTHER -> AnyNumber

first(d, s, n, other) ==
    LET h == getDOMHandler(d, n)
    IN  CASE h \in {"LI", "DT", "DD", "DD_ROW"} -> IF isList(d, other) THEN AnyNumber ELSE C(0, 0)
          [] h = "TABLE" -> C(1, maxNLsInTable(d, n, other))
          [] h = "PRE_HTML" -> C(None, Many)
          [] h = "BODY" -> C(0, 1)
          [] OTHER -> AnyNumber

last(d, s, n, other) ==
    LET h == getDOMHandler(d, n)
    IN  CASE h = "TABLE" -> C(1, maxNLsInTable(d, n, other))
          [] h = "PRE_HTML" -> C(None, Many)
          [] h = "BODY" -> C(0, 1)
          [] OTHER -> AnyNumber

-----------------------------------------------------------------------------
(* Tags *)

\* A space after the start tag, or before the end tag: of a new element, or as in the source.
getLeadingSpace(d, s, n, default) ==
    LET c == firstNonDeletedChild(d, n)
        at == d[n].dsr[1] + d[n].dsr[3]
    IN  IF isNewElt(d, n)
        THEN Written(IF c # None /\ ~(isText(d, c) /\ d[c].text[1] \in Spaces) THEN default ELSE <<>>)
        ELSE IF /\ s.selserMode /\ (c = None \/ ~isElt(d, c))
                /\ d[n].dsr # <<>> /\ at < d[n].dsr[2] - d[n].dsr[4] /\ s.src[at + 1] = " "
        THEN Orig(s, at, at + 1) ELSE <<>>
getTrailingSpace(d, s, n, default) ==
    LET c == lastNonDeletedChild(d, n)
        at == d[n].dsr[2] - d[n].dsr[4] - 1
    IN  IF isNewElt(d, n)
        THEN Written(IF c # None /\ ~(isText(d, c) /\ Last(d[c].text) \in Spaces) THEN default ELSE <<>>)
        ELSE IF /\ s.selserMode /\ (c = None \/ ~isElt(d, c))
                /\ d[n].dsr # <<>> /\ at > d[n].dsr[1] + d[n].dsr[3] /\ s.src[at + 1] = " "
        THEN Orig(s, at, at + 1) ELSE <<>>

\* The bullets of n and of the lists it is in, and a space.
Bullet(d, n) ==
    CASE d[n].name = "LI" -> LET in[x \in Int] == IF d[x].name \in {"UL", "OL"} THEN x ELSE in[d[x].parent]
                             IN  IF d[in[n]].name = "UL" THEN <<"*">> ELSE <<"#">>
      [] d[n].name = "DT" -> <<";">>
      [] d[n].name = "DD" -> <<":">>
      [] OTHER -> <<>>
getListBullets(d, s, n) ==
    LET bullets[x \in Int] ==
            IF isListOrListItem(d, x) /\ d[x].stx # "html" THEN bullets[d[x].parent] \o Bullet(d, x) ELSE <<>>
    IN  IF bullets[n] = <<>> THEN <<>>
        ELSE Written(bullets[n]) \o getLeadingSpace(d, s, n, <<" ">>)

\* Text of a list item, or of a list with nothing that has bullets of its own, begins with bullets.
HasBullets(d, n) ==
    LET c == firstNonSepChild(d, n)
    IN  IF isList(d, n)
        THEN c = None \/ ~isListItem(d, c) \/ isLiteralHTMLNode(d, c)
        ELSE ~isList(d, c) \/ isLiteralHTMLNode(d, c)

\* serializeTableTag: as it was in the source if only what is in it changed.
TableTag(d, s, n, chars, wrapperUnmodified) ==
    IF wrapperUnmodified THEN Orig(s, d[n].dsr[1], d[n].dsr[1] + d[n].dsr[3]) ELSE Written(chars)

\* A cell is on the line of the one before it if it was, and that is a cell of the kind.
OnRow(d, n) ==
    LET p == previousNonDeletedSibling(d, n)
    IN  d[n].stx = "row" /\ p # None /\ d[p].name = d[n].name
CellTag(d, s, n) ==
    LET th == d[n].name = "TH"
    IN  IF OnRow(d, n) /\ ~(s.onSOL \/ s.sep.constraints.min > 0)
        THEN <<IF th THEN "!!" ELSE "||">> ELSE <<IF th THEN "!" ELSE "|">>

\* Two quote elements run together if another one is within either.
precedingQuoteEltRequiresEscape(d, n) ==
    LET p == previousNonDeletedSibling(d, n)
    IN  isQuoteElt(d, p) /\ (isQuoteElt(d, lastNonDeletedChild(d, p)) \/ isQuoteElt(d, firstNonDeletedChild(d, n)))
Quotes(d, n) == IF d[n].name = "B" THEN <<"'''">> ELSE <<"''">>
=============================================================================
