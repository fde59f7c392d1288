--------------------------- MODULE WikitextSerializer ---------------------------
(***************************************************************************)
(* A page that was edited is written back as wikitext: it is compared with *)
(* the original (SelectiveSerializer.js, DOMDiff.js), and then walked; a   *)
(* node without marks is taken from the source, for others the handler of  *)
(* the tag is called (WikitextSerializer.js, SerializerState.js).          *)
(*                                                                         *)
(* `stack` are the elements whose children are being written, the calls of *)
(* serializeChildren that have not returned; an action is a call of        *)
(* _serializeNode, or what is left of one when the children are written.   *)
(* Of the escapes of text those of a bullet at the start of a line, of     *)
(* quotes, and of what is right behind the bar of a cell are kept.         *)
(***************************************************************************)
EXTENDS EmittedText

CONSTANT Requests      \* [orig, new, src, scrub]: the pages, and the source; orig is <<>> if it is not given

VARIABLES
    page,      \* the edited page, with marks
    request,
    s,         \* SerializerState
    stage      \* "idle", "diff", "normalize", "walk", "done"

vars == <<page, request, s, stage>>

N == INSTANCE DOMNormalizer

-----------------------------------------------------------------------------
(* SerializerState *)

Fresh(n) == [src |-> <<>>, constrained |-> FALSE, constraints |-> Unconstrained, last |-> n]

\* resetCurrLine: its first node, its last character, and its chunks.
Line(n) == [first |-> n, last |-> "", chunks |-> <<>>]
State(src, selser) ==
    [src |-> src, selserMode |-> selser, out |-> <<>>, sep |-> Fresh(Body),
     onSOL |-> TRUE, atStartOfOutput |-> TRUE, inIndentPre |-> FALSE, inPHPBlock |-> FALSE,
     hasQuoteNowikis |-> FALSE, hasIndentPreNowikis |-> FALSE,
     inModifiedContent |-> FALSE, prevNodeUnmodified |-> FALSE, currNodeUnmodified |-> FALSE,
     prevNode |-> Body, slc |-> <<>>, wikiTableNesting |-> 0,
     line |-> Line(None), stack |-> <<>>]

\* Comments apart, does it end a line?
EndsLine(chars) ==
    LET rest == SelectSeq(chars, LAMBDA c : c # "C") IN rest # <<>> /\ Last(rest) = NL
appendSep(t, sep) == [t EXCEPT !.sep.src = @ \o sep, !.onSOL = @ \/ EndsLine(Chars(sep))]

\* Newlines are spaces where there may be one line only.
OneLine(t, out) ==
    IF SingleLine(t) THEN [i \in 1..Len(out) |-> IF out[i][1] = NL THEN <<" ", out[i][2]>> ELSE out[i]]
    ELSE out
pushToCurrLine(t, chunk) == [t EXCEPT !.line.chunks = Append(@, chunk)]
flushLine(t) == [t EXCEPT !.out = @ \o escapeLine(t.line.chunks), !.line.chunks = <<>>]

emitSep(t, n, sep) ==
    LET line == OneLine(t, sep)
    IN  [pushToCurrLine(t, TextChunk(n, line, "")) EXCEPT !.sep = Fresh(n), !.onSOL = @ \/ EndsLine(Chars(line))]

\* Between two nodes that were both taken from the source it is used as it is.
emitSepForNode(d, t, n) ==
    LET p == t.prevNode
        both == isElt(d, p) /\ isElt(d, n)
        usable == /\ n # t.sep.last
                  /\ t.prevNodeUnmodified /\ ~nextToDeletedBlockNodeInWT(d, p, TRUE)
                  /\ t.currNodeUnmodified /\ ~nextToDeletedBlockNodeInWT(d, n, FALSE)
        orig == IF both THEN Orig(t, d[p].dsr[2], d[n].dsr[1]) ELSE t.sep.src
        Built(b) == emitSep(b.s, n, b.sep)
    IN  IF usable /\ (both \/ orig # <<>>) /\ isValidSep(orig) THEN emitSep(t, n, orig) ELSE Built(buildSep(d, t, n))

\* Text that would be read as a list item is escaped: where it is written anew, and where
\* a paragraph from the source now begins the line.
Escaped(out) == IF out # <<>> /\ out[1][1] = "*" THEN Wrapped(out, 1, 1) ELSE out

\* An apostrophe beside a quote, on either side of the text.
hasLeadingEscapableQuoteChar(d, n) ==
    LET p == previousNonDeletedSibling(d, n)
    IN  d[n].text # <<>> /\ d[n].text[1] = "'" /\ isQuoteElt(d, IF p = None THEN d[n].parent ELSE p)
hasTrailingEscapableQuoteChar(d, n) ==
    LET x == nextNonDeletedSibling(d, n)
    IN  d[n].text # <<>> /\ Last(d[n].text) = "'" /\ isQuoteElt(d, IF x = None THEN d[n].parent ELSE x)
\* Mistake: only the one before the text is looked at.
escapedIBSiblingNodeTextLeading(d, n, out) ==
    (IF hasLeadingEscapableQuoteChar(d, n) THEN Written(<<"<nowiki/>">>) ELSE <<>>) \o out
escapedIBSiblingNodeText(d, n, out) ==
    LET quotes == {i \in 1..Len(out) : out[i][1] = "'"}
    IN  IF \E i \in quotes : i + 1 \in quotes THEN Wrapped(out, Min(quotes), Max(quotes))
        ELSE (IF hasLeadingEscapableQuoteChar(d, n) THEN Written(<<"<nowiki/>">>) ELSE <<>>) \o out
                 \o (IF hasTrailingEscapableQuoteChar(d, n) THEN Written(<<"<nowiki/>">>) ELSE <<>>)
\* Right behind the bar that its line begins with.
AtBar(d, t, n, out) ==
    /\ out # <<>> /\ out[1][1] \in {"-", "+", "}"} /\ t.line.last = "|"
    /\ t.line.first # None /\ d[t.line.first].name = "TD" /\ t.line.first \in Range(Ancestors(d, n))
\* What follows in the line: a block, or a newline before the next one.
hasBlocksOnLine(d, n) ==
    LET First(seq) == IF seq = <<>> THEN "" ELSE seq[1]
        met[x \in Int] ==
            IF ~isElt(d, x) THEN IF Contains(d[x].text, NL) THEN "newline" ELSE ""
            ELSE IF isBlockNode(d, x)
            THEN IF d[x].name \in BlockScopeOpenTags \ {"BLOCKQUOTE"} /\ ~isLiteralHTMLNode(d, x) THEN "newline" ELSE "block"
            ELSE IF First(SelectSeq([i \in 1..Len(d[x].kids) |-> met[d[x].kids[i]]], LAMBDA m : m # "")) = "block"
            THEN "block" ELSE ""
        right == [i \in 1..Len(Following(d, n)) |-> met[Following(d, n)[i]]]
        content == textContent(d, n)
    IN  (\A i \in 2..Len(content) : content[i] # NL) /\ First(SelectSeq(right, LAMBDA m : m # "")) = "block"
indentPreUnsafe(d, t, out) ==
    /\ t.onSOL /\ ~t.inIndentPre /\ ~t.inPHPBlock
    /\ out # <<>> /\ out[1][1] = " " /\ Range(Chars(out)) # {" "}
    /\ ~hasBlocksOnLine(d, t.line.first)
escapeWikiText(d, t, n, out) ==
    IF AtBar(d, t, n, out) THEN Wrapped(out, 1, Len(out))
    ELSE IF indentPreUnsafe(d, t, out) THEN Wrapped(out, 1, 1)
    ELSE IF t.onSOL /\ ~t.inIndentPre /\ ~t.inPHPBlock /\ out # <<>> /\ out[1][1] = "*" THEN Escaped(out)
    ELSE escapedIBSiblingNodeText(d, n, out)
NowBeginsLine(d, t, n, out) ==
    /\ t.selserMode /\ t.onSOL /\ t.currNodeUnmodified /\ ~t.prevNodeUnmodified
    /\ d[n].name = "P" /\ ~isLiteralHTMLNode(d, n)
    /\ firstNonSepChild(d, n) # None /\ isText(d, firstNonSepChild(d, n))
    /\ ~Contains(Chars(out), NL)

\* The last of what is emitted: what is escaped is no longer a link.
Emitted(t, chunk, escapeText, out) ==
    LET rest == SelectSeq(Chars(out), LAMBDA c : c # "C")
        now == IF out = chunk.text THEN chunk ELSE TextChunk(chunk.n, out, "")
    IN  [pushToCurrLine(t, now) EXCEPT !.onSOL = @ /\ (rest = <<>> \/ EndsLine(Chars(out))),
                                !.atStartOfOutput = FALSE,
                                !.hasIndentPreNowikis = @ \/ (out # chunk.text /\ Chars(SubSeq(out, 1, 2)) = <<"<nowiki>", " ">>),
                                !.hasQuoteNowikis = @ \/ (escapeText /\ out # chunk.text /\ "<nowiki/>" \in Range(Chars(out))),
                                !.line.last = IF out = <<>> THEN @ ELSE Last(out)[1]]
InLine(d, t, chunk, escapeText) ==
    Emitted(t, chunk, escapeText, IF escapeText THEN escapeWikiText(d, t, chunk.n, chunk.text)
                                  ELSE IF NowBeginsLine(d, t, chunk.n, chunk.text) THEN Escaped(chunk.text)
                                  ELSE chunk.text)
BeginLine(t, n) == IF t.onSOL THEN [flushLine(t) EXCEPT !.line = Line(n)] ELSE t
emitChunk(d, t, chunk, escapeText) ==
    InLine(d, BeginLine(IF chunk.noSep THEN t ELSE emitSepForNode(d, t, chunk.n), chunk.n),
           [chunk EXCEPT !.text = OneLine(t, @)], escapeText)
EmitChunks(d, t, chunks) == FoldLeft(LAMBDA q, chunk : emitChunk(d, q, chunk, FALSE), t, chunks)
EmitAll(d, t, n, texts) == EmitChunks(d, t, [i \in 1..Len(texts) |-> TextChunk(n, texts[i], "")])

disable(t) == [t EXCEPT !.slc = Append(@, FALSE)]
pop(t) == [t EXCEPT !.slc = Front(@)]

updateModificationFlags(t, n) ==
    [t EXCEPT !.prevNodeUnmodified = t.currNodeUnmodified, !.currNodeUnmodified = FALSE, !.prevNode = n]

-----------------------------------------------------------------------------
(* _serializeText: white space with newlines at either end goes to the separators. *)

LeadingSep(text) ==
    LET ws == Max({i \in 0..Len(text) : \A j \in 1..i : text[j] \in Spaces})
    IN  IF \E j \in 1..ws : text[j] = NL THEN ws ELSE 0
TrailingSep(text) ==
    LET at == {i \in 1..Len(text) : text[i] = NL /\ \A j \in i..Len(text) : text[j] \in Spaces}
    IN  IF at = {} THEN Len(text) + 1 ELSE Min(at)

\* Of more than one newline in text, one is left, unless the text is all there is.
OneNewline(d, n, text) ==
    LET double == {i \in 2..Len(text) : text[i] = NL /\ text[i - 1] = NL}
    IN  IF ~allChildrenAreText(d, d[n].parent) \/ Cardinality(double) > 1
        THEN Chars(Without(Written(text), double)) ELSE text

WithTrailing(t, sep) == IF sep = <<>> \/ t.sep.src # <<>> THEN t ELSE appendSep(t, Written(sep))
serializeText(d, t, n, text) ==
    LET end == TrailingSep(text)
        front == SubSeq(text, 1, end - 1)
        begin == IF t.inIndentPre THEN 0 ELSE LeadingSep(front)
        body == SubSeq(front, begin + 1, Len(front))
        inner == IF begin = 0 THEN t ELSE appendSep(t, Written(SubSeq(front, 1, begin)))
        plain == Written(IF t.inIndentPre THEN body ELSE OneNewline(d, n, body))
    IN  WithTrailing(emitChunk(d, inner, TextChunk(n, plain, ""),
                               inner.onSOL \/ ~t.currNodeUnmodified),
                     SubSeq(text, end, Len(text)))

-----------------------------------------------------------------------------
(* The handlers of DOMHandlers: before the children, and after them.  A handler that  *)
(* has no children written is all in the first.                                      *)

nextUsesRowSyntax(d, n) == LET x == nextNonDeletedSibling(d, n) IN x # None /\ d[x].stx = "row"
EmptyCell(d, n) == nextUsesRowSyntax(d, n) /\ firstNonDeletedChild(d, n) = None
indentTable(d, n) == d[d[n].parent].name = "DD" /\ previousNonSepSibling(d, n) = None
Equals(d, n) == CASE d[n].name = "H1" -> <<"=">> [] d[n].name = "H2" -> <<"==">> [] OTHER -> <<"===">>

HtmlTag(d, n) == IF isBlockNode(d, n) THEN "<" ELSE IF d[n].name = "BR" THEN "<br>" ELSE "<font>"
HtmlEnd(d, n) == IF isBlockNode(d, n) THEN <<">">> ELSE IF d[n].name = "BR" THEN <<>> ELSE <<"</font>">>

Leaf(d, n) ==
    getDOMHandler(d, n) \in {"HR", "BR", "META", "LINK", "FIGURE", "A", "encapsulated"}
        \/ (getDOMHandler(d, n) \in {"TD", "TH"} /\ EmptyCell(d, n))

\* The content of an indented <pre> is written by itself: _serializeChildrenToString.
Nested(d, t, n) ==
    [t EXCEPT !.out = <<>>, !.sep = Fresh(n), !.onSOL = FALSE, !.atStartOfOutput = FALSE,
              !.inIndentPre = TRUE, !.currNodeUnmodified = FALSE, !.prevNodeUnmodified = FALSE,
              !.prevNode = n, !.line = Line(firstChild(d, n))]
\* The state after it, and what was written, with a space at the start of each line.
Unnested(t, saved) ==
    [t EXCEPT !.out = saved.out, !.sep = saved.sep, !.onSOL = saved.onSOL, !.line = saved.line,
              !.atStartOfOutput = saved.atStartOfOutput, !.inIndentPre = FALSE,
              !.currNodeUnmodified = saved.currNodeUnmodified,
              !.prevNodeUnmodified = saved.prevNodeUnmodified, !.prevNode = saved.prevNode]
WithNewline(t, more) == IF more THEN appendSep(t, Written(<<NL>>)) ELSE t
EndsInNewline(out) == out # <<>> /\ Last(out)[1] = NL
Indented(out) ==
    FlattenSeq([i \in 1..Len(out) + 1 |->
        IF i = 1 THEN Written(<<" ">>)
        ELSE IF out[i - 1][1] # NL THEN <<<<out[i - 1][1], out[i - 1][2]>>>>
        ELSE IF i = Len(out) + 1 THEN <<>> ELSE Written(<<NL, " ">>)])
ClosedPre(d, t, n, saved) ==
    LET Back(out) == WithNewline(emitChunk(d, Unnested(t, saved), TextChunk(n, Indented(out), ""), FALSE),
                                 EndsInNewline(out))
    IN  Back(flushLine(emitSepForNode(d, t, n)).out)

\* One line only: enforced in headings and items, not in lists and templates.
Scope(d, t, n, h) ==
    IF h \in Lists \cup {"encapsulated"} \/ (h = "TABLE" /\ indentTable(d, n)) THEN disable(t) ELSE t
OpeningChunks(d, t, n, h, wrapperUnmodified) ==
    LET Tag(chars) == TableTag(d, t, n, chars, wrapperUnmodified)
        W(cond, chars) == IF cond THEN <<Written(chars)>> ELSE <<>>
    IN  CASE h \in Headings -> <<Written(Equals(d, n)) \o getLeadingSpace(d, t, n, <<" ">>)>>
                                  \o W(d[n].kids = <<>>, <<"<nowiki/>">>)
          [] h = "DD_ROW" -> W(HasBullets(d, n), <<":">>)
          [] h \in Lists \cup {"LI", "DT", "DD"} -> IF HasBullets(d, n) THEN <<getListBullets(d, t, n)>> ELSE <<>>
          [] h = "TABLE" -> <<Tag(<<"{|">>)>>
          [] h = "TR" -> IF trWikitextNeeded(d, n) THEN <<Tag(<<"|-">>)>> ELSE <<>>
          [] h \in {"TD", "TH"} -> <<Tag(CellTag(d, t, n)) \o getLeadingSpace(d, t, n, <<>>)>>
                                    \o W(EmptyCell(d, n), <<" ">>)
          [] h = "CAPTION" -> <<Tag(<<"|+">>)>>
          [] h \in {"B", "I"} -> W(precedingQuoteEltRequiresEscape(d, n), <<"<nowiki/>">>) \o <<Written(Quotes(d, n))>>
          [] h = "HR" -> <<Written(<<"----">>)>>
          [] h = "BR" -> W(SingleLine(t) \/ d[d[n].parent].name # "P", <<"<br>">>)
          [] h \in {"META", "LINK", "FIGURE"} -> <<Written(<<"[]">>)>>
          [] h = "encapsulated" -> <<Written(<<"{{}}">>)>>
          [] h \in {"html", "PRE_HTML"} -> <<Written(<<HtmlTag(d, n)>>)>>
          [] OTHER -> <<>>

\* Mistake: what a heading asks of its line stays.
ClosingScopeNotHeadings(d, t, n, h) ==
    IF h \in Lists \cup {"LI", "DT", "DD", "DD_ROW", "encapsulated"} \/ (h = "TABLE" /\ indentTable(d, n))
    THEN pop(t) ELSE t
ClosingScope(d, t, n, h) ==
    IF h \in Headings \cup Lists \cup {"LI", "DT", "DD", "DD_ROW", "encapsulated"} \/ (h = "TABLE" /\ indentTable(d, n))
    THEN pop(t) ELSE t

Opened(d, t, n, h, wrapperUnmodified, modified) ==
    LET Inside(q) ==
            [q EXCEPT !.stack = Append(@,
                [n |-> n, next |-> IF Leaf(d, n) THEN None
                                   ELSE IF h \in Headings THEN firstNonDeletedChild(d, n) ELSE firstChild(d, n),
                 modified |-> modified, php |-> t.inPHPBlock,
                 saved |-> IF h = "PRE" THEN [t EXCEPT !.src = <<>>] ELSE <<>>]),
                      !.slc = IF h \in Headings \cup {"LI", "DT", "DD", "DD_ROW"} THEN Append(@, TRUE) ELSE @,
                      !.wikiTableNesting = IF h = "TABLE" THEN @ + 1 ELSE @,
                      !.inPHPBlock = @ \/ (h \in {"html", "PRE_HTML"} /\ d[n].name \in BlockScopeOpenTags)]
    IN  IF h = "PRE" THEN Inside(Nested(d, t, n))
        ELSE IF h = "A" THEN Inside(emitChunk(d, t, linkHandler(d, t, n), FALSE))
        ELSE Inside(EmitAll(d, Scope(d, t, n, h), n, OpeningChunks(d, t, n, h, wrapperUnmodified)))

ClosingChunks(d, t, n, h) ==
    CASE h \in Headings -> <<getTrailingSpace(d, t, n, <<" ">>) \o Written(Equals(d, n))>>
      [] h = "TABLE" -> <<Written(<<"|}">>)>>
      [] h \in {"B", "I"} -> (IF d[n].kids = <<>> THEN <<Written(<<"<nowiki/>">>)>> ELSE <<>>) \o <<Written(Quotes(d, n))>>
      [] h \in {"html", "PRE_HTML"} -> <<Written(HtmlEnd(d, n))>>
      [] OTHER -> <<>>
\* A space before the marks of the next cell of the row.
CellSpace(d, t, n) ==
    IF ~Leaf(d, n) /\ nextUsesRowSyntax(d, n) /\ t.line.last \notin Spaces THEN getTrailingSpace(d, t, n, <<>>)
    ELSE <<>>
\* The constraints between `|}` and what is before it when the table has no children with any.
InTable(t) ==
    IF t.sep.constrained THEN t
    ELSE [t EXCEPT !.sep.constrained = TRUE,
                   !.sep.constraints = [min |-> 1, max |-> 2, force |-> FALSE, aMin |-> None, info |-> NoInfo]]

\* serializeChildren ends with a modified node.
Closed(d, t0, n, h, frame) ==
    LET t == IF Leaf(d, n) THEN t0 ELSE [t0 EXCEPT !.currNodeUnmodified = FALSE]
        inner == CASE h = "TABLE" -> [InTable(t) EXCEPT !.wikiTableNesting = @ - 1]
                    [] h \in {"html", "PRE_HTML"} -> [t EXCEPT !.inPHPBlock = frame.php]
                    [] h \in {"TD", "TH"} -> appendSep(t, CellSpace(d, t, n))
                    [] OTHER -> t
    IN  IF h = "PRE" THEN ClosedPre(d, t, n, frame.saved)
        ELSE ClosingScope(d, EmitAll(d, inner, n, ClosingChunks(d, t, n, h)), n, h)

-----------------------------------------------------------------------------
(* _serializeNode, _serializeDOMNode *)

Top == Last(s.stack)
Node == Top.next
To(t, n) == [t EXCEPT !.stack[Len(t.stack)].next = n]

\* A template is one node of the walk.
After(d, n) ==
    IF isFirstEncapsulationWrapperNode(d, n) THEN skipOverEncapsulatedContent(d, n) ELSE nextSibling(d, n)

\* What is done before and after every node.
Enter(d, t, n) ==
    LET p == previousNonSepSibling(d, n)
    IN  updateSeparatorConstraints(d, t, IF p # None THEN p ELSE d[n].parent, n)
Leave(d, t, n, next) ==
    LET x == nextNonSepSibling(d, n)
    IN  To(updateModificationFlags(
               updateSeparatorConstraints(d, t, n, IF x # None THEN x ELSE d[n].parent), n), next)

\* Mistake: a node in what is new, which has its source elsewhere, is taken from there.
ReusableAnywhere(d, t, n) ==
    /\ t.selserMode
    /\ origSrcValidInEditedContext(d, n)
    /\ isValidDSR(d[n].dsr)
    /\ d[n].dsr[2] > d[n].dsr[1] \/ (d[n].dsr[2] = d[n].dsr[1] /\ d[n].name \in {"P", "BR"})

\* Its source can be used, if only as to its tags.
Reusable(d, t, n) ==
    /\ t.selserMode /\ ~t.inModifiedContent
    /\ origSrcValidInEditedContext(d, n)
    /\ isValidDSR(d[n].dsr)
    /\ d[n].dsr[2] > d[n].dsr[1] \/ (d[n].dsr[2] = d[n].dsr[1] /\ d[n].name \in {"P", "BR"})

\* The constraints of a node that is not in the wikitext go over to its first child.
FromSource(d, t0, n) ==
    LET t1 == [t0 EXCEPT !.currNodeUnmodified = TRUE]
        t == IF isZeroWidthWikitextElt(d, n) /\ d[n].kids # <<>> /\ t0.sep.constraints.info.type = "sibling"
             THEN [t1 EXCEPT !.sep.constraints.info =
                      [@ EXCEPT !.onSOL = t1.onSOL, !.type = "parent-child", !.a = n, !.b = firstChild(d, n)]]
             ELSE t1
        lines == \/ isFirstEncapsulationWrapperNode(d, n)
                 \/ isList(d, n)
                 \/ d[n].name = "TABLE" /\ indentTable(d, n)
        Out(q) == EmitChunks(d, q, fromSelSer(d, n, Orig(t, d[n].dsr[1], d[n].dsr[2])))
    IN  [Out(IF lines THEN disable(t) ELSE t) EXCEPT !.slc = t.slc]

Walk(step) == stage = "walk" /\ step /\ UNCHANGED <<page, request, stage>>

\* A mark of what was deleted is not written, but what was before it is forgotten.
SkipDiffMarker ==
    /\ Node # None /\ isDiffMarker(page, Node)
    /\ s' = To([updateModificationFlags(s, Node) EXCEPT !.sep.last = Node], nextSibling(page, Node))
\* White space and comments are kept for the separator.
Separator ==
    /\ Node # None
    /\ isComment(page, Node) \/ (isIEW(page, Node) /\ ~s.inIndentPre)
    /\ s' = To(appendSep(s, Written(page[Node].text)), nextSibling(page, Node))

UnmodifiedText(d, t, n) ==
    LET p == previousSibling(d, n)
    IN  IF t.selserMode
        THEN ~t.inModifiedContent /\ IF p = None THEN d[n].parent = Body ELSE ~isDiffMarker(d, p)
        ELSE t.currNodeUnmodified
Text ==
    /\ Node # None /\ isText(page, Node) /\ (~isIEW(page, Node) \/ s.inIndentPre)
    /\ LET t == Enter(page, [s EXCEPT !.currNodeUnmodified = UnmodifiedText(page, s, Node)], Node)
       IN  s' = Leave(page, serializeText(page, t, Node, page[Node].text), Node,
                      nextSibling(page, Node))

ElementNext == Node # None /\ isElt(page, Node) /\ ~isDiffMarker(page, Node)
Reuse ==
    /\ ElementNext
    /\ Reusable(page, s, Node) /\ ~hasDiffMarkers(page, Node)
    /\ s' = Leave(page, FromSource(page, Enter(page, s, Node), Node), Node,
                  After(page, Node))

Open ==
    /\ ElementNext
    /\ ~(Reusable(page, s, Node) /\ ~hasDiffMarkers(page, Node))
    /\ LET t == [Enter(page, s, Node) EXCEPT !.currNodeUnmodified = FALSE,
                     !.inModifiedContent = @ \/ (s.selserMode /\ hasInsertedDiffMark(page, Node))]
       IN  s' = Opened(page, t, Node, getDOMHandler(page, Node),
                       Reusable(page, s, Node) /\ onlySubtreeChanged(page, Node), s.inModifiedContent)

Close ==
    /\ Node = None /\ Len(s.stack) > 1
    /\ LET n == Top.n
           Out(t) == [t EXCEPT !.stack = Front(@), !.inModifiedContent = Top.modified]
       IN  s' = Leave(page, Out(Closed(page, s, n, getDOMHandler(page, n), Top)), n, After(page, n))

-----------------------------------------------------------------------------
(* serializeDOM, when all is written: nowikis that turn out not to be needed. *)

\* Of quotes side by side the tags that are looked for, and the apostrophes that are left.
Pairs(n) ==
    LET Few(k) == CASE k < 2 -> <<>> [] k = 2 -> <<"''">> [] k = 5 -> <<"'''''">> [] OTHER -> <<"'''">>
    IN  IF n < 5 THEN Few(n) ELSE <<"'''''">> \o Few(n - 5)
Left(n) == IF n \in {1, 4, 6, 9} THEN <<"'">> ELSE <<>>
EndTag == [t \in {"<", "<font>"} |-> IF t = "<" THEN ">" ELSE "</font>"]

\* The place of the last nowiki behind an apostrophe and before a quote, if all in the line
\* is in pairs; else 0.
UnnecessaryQuoteNowiki(line) ==
    LET us == Units(line)
        QuotesOpen(p) == Cardinality({i \in 1..Len(p.stack) : Apostrophes(p.stack[i]) > 0 \/ p.stack[i] = "'''''"})
        At(p, tag, text) == [p EXCEPT !.tag = tag, !.text = text]
        Tag(p, tag) ==
            IF p.stack # <<>> /\ Last(p.stack) = tag THEN [At(p, tag, <<>>) EXCEPT !.stack = Front(@)]
            ELSE [At(p, tag, <<>>) EXCEPT !.stack = Append(@, tag)]
        Strippable(p, k) ==
            /\ p.text # <<>> /\ Last(p.text) = "'" /\ ~(p.text = <<"'">> /\ p.tag \in {"''", "'''", "'''''"})
            /\ \/ QuotesOpen(p) = 0
               \/ /\ QuotesOpen(p) = 1 /\ k < Len(us)
                  /\ us[k + 1].n > 1 /\ Pairs(us[k + 1].n)[1] = Last(p.stack)
        Step(p, k) ==
            LET c == us[k].c
            IN  CASE p.ext -> [At(p, c, <<>>) EXCEPT !.ext = c # "</nowiki>"]
                  [] c = "<nowiki>" -> [At(p, c, <<>>) EXCEPT !.ext = TRUE]
                  [] us[k].n > 1 -> [FoldLeft(Tag, p, Pairs(us[k].n)) EXCEPT !.text = Left(us[k].n)]
                  [] c = "<nowiki/>" -> [At(p, c, <<>>) EXCEPT !.found = IF Strippable(p, k) THEN us[k].at ELSE @]
                  [] c \in {"[]", "{{}}", "<br>"} \cup Range(Simple) -> At(p, c, <<>>)
                  [] c \in Range(Piped) -> [At(p, c, <<>>) EXCEPT !.stack = Append(@, "[[")]
                  [] c = "]]" -> IF p.stack # <<>> /\ Last(p.stack) = "[[" THEN [At(p, c, <<>>) EXCEPT !.stack = Front(@)]
                                 ELSE [At(p, c, <<>>) EXCEPT !.bad = TRUE]
                  [] c \in DOMAIN EndTag -> [At(p, c, <<>>) EXCEPT !.stack = Append(@, c)]
                  [] c \in Range(EndTag) ->
                        IF p.stack # <<>> /\ Last(p.stack) \in DOMAIN EndTag /\ EndTag[Last(p.stack)] = c
                        THEN [At(p, c, <<>>) EXCEPT !.stack = Front(@)]
                        ELSE [At(p, c, <<>>) EXCEPT !.bad = TRUE]
                  [] OTHER -> [p EXCEPT !.text = Append(@, c)]
        end == FoldLeft(Step, [stack |-> <<>>, ext |-> FALSE, found |-> 0, text |-> <<>>, tag |-> "", bad |-> FALSE],
                        [k \in 1..Len(us) |-> k])
    IN  IF end.stack # <<>> \/ end.bad THEN 0 ELSE end.found

_stripUnnecessaryQuoteNowikis(t, line) ==
    IF t.hasQuoteNowikis THEN Without(line, {UnnecessaryQuoteNowiki(Chars(line))}) ELSE line
\* With those at the end of the line, unless there is an equals sign.
WithoutTrailing(line) ==
    LET end == {i \in 1..Len(line) : \A j \in i..Len(line) : line[j][1] \in {"<nowiki/>", " "}}
        from == {i \in end : line[i][1] = "<nowiki/>"}
    IN  IF from = {} \/ \E i \in 1..Len(line) : line[i][1] \in HeadingMarks THEN line
        ELSE SubSeq(line, 1, Min(from) - 1)
\* Of those that keep a space from the start of a line.
Transparent == {"C", "[]"}
_stripUnnecessaryIndentPreNowikis(line) ==
    LET Prefix(out, chars) == Max({i \in 0..Len(out) : \A j \in 1..i : out[j][1] \in chars})
        p == Prefix(line, Transparent)
        q == p + 1 + Prefix(SubSeq(line, p + 2, Len(line)), {" "})
        rest == SubSeq(line, q + 2, Len(line))
        words == SubSeq(rest, Prefix(rest, Transparent \cup {" "}) + 1, Len(rest))
        chars == Range(Chars(rest))
        needed == words # <<>> /\ (chars \cap {"<", ">"} = {} \/ chars \cap Nowikis # {})
    IN  IF ~(p + 1 < q /\ q < Len(line) /\ line[p + 1][1] = "<nowiki>" /\ line[q + 1][1] = "</nowiki>") THEN line
        ELSE IF ~needed THEN Without(line, {p + 1, q + 1})
        ELSE IF ~request.scrub THEN line
        ELSE SubSeq(line, 1, p) \o (IF words[1][1] \in Bullets \cup HeadingMarks THEN Written(<<"<nowiki/>">>) ELSE <<>>)
                 \o SelectSeq(SubSeq(rest, 1, Len(rest) - Len(words)), LAMBDA o : o[1] # " ") \o words
Stripped(t) ==
    LET Lines(out, Op(_)) ==
            LET bounds == LineBounds(Chars(out))
            IN  FlattenSeq([k \in 1..Len(bounds) |->
                    Op(SubSeq(out, bounds[k][1], bounds[k][2]))
                        \o (IF k = Len(bounds) THEN <<>> ELSE <<out[bounds[k][2] + 1]>>)])
        Kept(line) == WithoutTrailing(_stripUnnecessaryQuoteNowikis(t, line))
        safe == IF t.hasIndentPreNowikis THEN Lines(t.out, _stripUnnecessaryIndentPreNowikis) ELSE t.out
    IN  [t EXCEPT !.out = IF t.selserMode \/ t.hasQuoteNowikis THEN Lines(safe, Kept) ELSE safe]

\* The end of _kickOffSerialize.
Finish ==
    /\ stage = "walk" /\ Len(s.stack) = 1 /\ Node = None
    /\ s' = Stripped(flushLine(emitSepForNode(page, [s EXCEPT !.currNodeUnmodified = FALSE], Body)))
    /\ stage' = "done"
    /\ UNCHANGED <<page, request>>

-----------------------------------------------------------------------------
(* SelectiveSerializer.serializeDOM *)

Kickoff(d, src, selser) ==
    [State(src, selser) EXCEPT !.stack = <<[n |-> Body, next |-> firstChild(d, Body), modified |-> FALSE,
                                            php |-> FALSE, saved |-> <<>>]>>,
                               !.line = Line(firstChild(d, Body))]

\* Without the original page and its source all is written anew.
FullSerialize ==
    /\ stage = "diff" /\ request.orig = <<>>
    /\ s' = State(<<>>, FALSE)
    /\ stage' = "normalize"
    /\ UNCHANGED <<page, request>>

SelSerialize ==
    /\ stage = "diff" /\ request.orig # <<>>
    /\ \E diff \in {N!diff(request.orig, page)} :
           /\ page' = diff.b
           /\ IF diff.changed
              THEN s' = State(request.src, TRUE) /\ stage' = "normalize"
              ELSE /\ s' = [State(request.src, TRUE) EXCEPT
                                !.out = [i \in 1..Len(request.src) |-> <<request.src[i], i>>]]
                   /\ stage' = "done"
    /\ UNCHANGED request

serializeDOM ==
    /\ stage = "normalize"
    /\ \E d \in {N!normalized(page, s.selserMode, request.scrub)} :
           page' = d /\ s' = Kickoff(d, s.src, s.selserMode)
    /\ stage' = "walk"
    /\ UNCHANGED request

Receive ==
    /\ stage = "idle"
    /\ request' \in Requests
    /\ page' = request'.new
    /\ stage' = "diff"
    /\ UNCHANGED s

Init ==
    /\ request = <<>> /\ page = <<>>
    /\ s = State(<<>>, FALSE)
    /\ stage = "idle"

\* The wikitext was given back.
Idle == stage = "done" /\ UNCHANGED vars

Next ==
    \/ Receive \/ Idle \/ FullSerialize \/ SelSerialize \/ serializeDOM
    \/ Walk(SkipDiffMarker) \/ Walk(Separator) \/ Walk(Text)
    \/ Walk(Reuse) \/ Walk(Open) \/ Walk(Close)
    \/ Finish

\* WF_vars(Next): a step is there until the page is written, as the check for deadlocks
\* shows, and ENABLED of these steps is beyond TLC.  All that changes vars is such a step.
Fairness == []<>(stage = "done") \/ []<><<TRUE>>_vars

Spec == Init /\ [][Next]_vars /\ Fairness

-----------------------------------------------------------------------------
(* Properties *)

\* What is written is read as the page that was sent: every block is there once, in
\* its place and of its kind, whatever of it is from the source and whatever is new.
ReadsBack ==
    stage = "done" =>
        Meaning(ReadAs(Chars(s.out)), request.scrub) = Meaning(Shown(request.new), request.scrub)

\* The nodes of the body that stand where they stood, and are what they were.
Untouched(a, b, from, to) ==
    LET Same(n) == n \in Range(a[Body].kids) /\ N!TreesEqual(a, n, b, n)
        At(d, n) == CHOOSE i \in 1..Len(d[Body].kids) : d[Body].kids[i] = n
    IN  /\ \A i \in from..to : Same(b[Body].kids[i])
        /\ b[b[Body].kids[from]].dsr # <<>> /\ b[b[Body].kids[to]].dsr # <<>>
        /\ \A i \in from..to - 1 : At(a, b[Body].kids[i + 1]) = At(a, b[Body].kids[i]) + 1

\* What the client left alone is given back as it was in the source but for nowikis, with
\* all that is between two such nodes, and where nodes were moved but for spaces; nothing of
\* the source is used twice, or out of its order unless the client moved it.
InOrder(d) ==
    \A i, j \in 1..Len(d[Body].kids) :
        LET a == d[d[Body].kids[i]].dsr
            b == d[d[Body].kids[j]].dsr
        IN  i < j /\ a # <<>> /\ b # <<>> => a[2] <= b[1]
SourceKept ==
    stage = "done" /\ request.orig # <<>> =>
        LET kids == request.new[Body].kids
            used == SelectSeq(s.out, LAMBDA o : o[2] > 0)
        IN  /\ InOrder(request.new) => \A i \in 1..Len(used) - 1 : used[i][2] < used[i + 1][2]
            /\ \A i, j \in 1..Len(used) : i # j => used[i][2] # used[j][2]
            /\ \A i, j \in 1..Len(kids) :
                   (i = j \/ (i < j /\ InOrder(request.new))) /\ Untouched(request.orig, request.new, i, j) =>
                       LET from == request.new[kids[i]].dsr[1]
                           to == request.new[kids[j]].dsr[2]
                           Plain(chars) ==
                               SelectSeq(chars, LAMBDA c : c \notin Nowikis /\ (c = " " => InOrder(request.new)))
                           source == Plain(SubSeq(request.src, from + 1, to))
                           out == Plain(Chars(s.out))
                       IN  \E k \in 0..Len(out) - Len(source) : SubSeq(out, k + 1, k + Len(source)) = source

\* The walk ends, and what was opened on the way is closed.
Ends ==
    <>(/\ stage = "done"
       /\ s.slc = <<>> /\ s.wikiTableNesting = 0
       /\ ~s.inIndentPre /\ ~s.inPHPBlock /\ ~s.inModifiedContent)

-----------------------------------------------------------------------------
(***************************************************************************)
(* For TLC: pages laid out as the wikitext they come from, and what a      *)
(* client may do to them: delete a node, add one, change a text.           *)
(***************************************************************************)

\* An element, or a text: its tags in the wikitext, and what is in it.
Elt(name, open, kids, close) ==
    [name |-> name, stx |-> "", open |-> open, kids |-> kids, close |-> close, text |-> <<>>,
     pad |-> <<>>, about |-> 0, first |-> FALSE, attr |-> "", tail |-> <<>>]
\* With the white space that is not part of what is shown.
Padded(item) == [item EXCEPT !.pad = <<" ">>]
T(text) == [Elt("#text", <<>>, <<>>, <<>>) EXCEPT !.text = text]
Comment == [Elt("#comment", <<>>, <<>>, <<>>) EXCEPT !.text = <<"C">>]
Row(item) == [item EXCEPT !.stx = "row"]
NLT == T(<<NL>>)

\* The nodes of these items from node id and place `at` on, and their wikitext.
RECURSIVE Lay(_, _, _, _, _)
Lay(items, parent, id, at, new) ==
    IF items = <<>> THEN [d |-> <<>>, kids |-> <<>>, src |-> <<>>, id |-> id]
    ELSE LET i == Head(items)
             in == Lay(i.kids, id, id + 1, at + Len(i.open \o i.pad), new)
             src == i.open \o i.pad \o i.text \o (IF i.name = "A" THEN <<>> ELSE in.src) \o (IF i.close = <<>> THEN <<>> ELSE i.pad \o i.close)
             node == [name |-> i.name, parent |-> parent, kids |-> in.kids, text |-> i.text, stx |-> i.stx,
                      dsr |-> IF new \/ i.name \in {"#text", "#comment"} \/ (i.about # 0 /\ ~i.first) THEN <<>>
                              ELSE <<at, at + Len(src), Len(i.open), Len(i.close)>>,
                      isNew |-> new, about |-> i.about, first |-> i.first, attr |-> i.attr, tail |-> i.tail,
                      startSrc |-> ~new /\ i.name = "TR" /\ i.open # <<>>, marks |-> {}]
             rest == Lay(Tail(items), parent, in.id, at + Len(src), new)
         IN  [d |-> (id :> node) @@ in.d @@ rest.d, kids |-> <<id>> \o rest.kids,
              src |-> src \o rest.src, id |-> rest.id]

Page(items) ==
    LET l == Lay(items, Body, 1, 0, FALSE)
        body == [name |-> "BODY", parent |-> None, kids |-> l.kids, text |-> <<>>, stx |-> "",
                 dsr |-> <<0, Len(l.src), 0, 0>>, isNew |-> FALSE, about |-> 0, first |-> FALSE, attr |-> "",
                 tail |-> <<>>, startSrc |-> FALSE, marks |-> {}]
    IN  [d |-> (Body :> body) @@ l.d, src |-> l.src]

P(text) == Elt("P", <<>>, <<T(text)>>, <<>>)
Heading(text) == Padded(Elt("H2", <<"==">>, <<T(text)>>, <<"==">>))
Li(bullets, kids) == Padded(Elt("LI", bullets, kids, <<>>))
Li2(name, bullets, kids) == Elt(name, bullets, kids, <<>>)
P2(kids) == Elt("P", <<>>, kids, <<>>)
Quote(name, kids) ==
    LET mark == IF name = "B" THEN <<"'''">> ELSE <<"''">> IN Elt(name, mark, kids, mark)
List(name, kids) == Elt(name, <<>>, kids, <<>>)
Table(rows) == Elt("TABLE", <<"{|">>, <<NLT, Elt("TBODY", <<>>, rows, <<>>)>>, <<"|}">>)
Tr(open, cells) == Elt("TR", open, (IF open = <<>> THEN <<>> ELSE <<NLT>>) \o cells, <<>>)
Cell(name, open, kids) == Elt(name, open, kids, <<>>)
Html(name, kids) == [Elt(name, <<"<">>, kids, <<">">>) EXCEPT !.stx = "html"]
\* A link, and its source: the letters behind it are part of its text.
Link(stx, src, target, text, tail) ==
    [Elt("A", src \o tail, <<T(text \o tail)>>, <<>>) EXCEPT !.stx = stx, !.attr = target, !.tail = tail]
SimpleLink(target, tail) == Link("simple", <<Simple[target]>>, target, <<target>>, tail)
PipedLink(target, text, tail) == Link("piped", <<Piped[target]>> \o text \o <<"]]">>, target, text, tail)
URLLink == Link("url", <<"http:d">>, "http:d", <<"http:d">>, <<>>)
MagicLink == Link("magiclink", <<"RFC1">>, "rfc1", <<"RFC1">>, <<>>)
Templated == [Elt("P", <<>>, <<>>, <<>>) EXCEPT !.about = 1]
Template == [Elt("P", <<"{{}}">>, <<>>, <<>>) EXCEPT !.about = 1, !.first = TRUE]

Pages ==
    [outline |-> <<P(<<"a">>), NLT, NLT, P(<<"b", NL, "c">>), NLT, NLT, Heading(<<"d">>), NLT, P(<<"e">>)>>,
     lists |-> <<P(<<"a">>), NLT,
                 List("UL", <<Li(<<"*">>, <<T(<<"b">>)>>), NLT,
                              Li(<<"*">>, <<T(<<"c">>), NLT,
                                            List("UL", <<Li(<<"*", "*">>, <<T(<<"d">>)>>), NLT,
                                                         Li(<<"*", "*">>, <<T(<<"e">>)>>)>>)>>)>>), NLT,
                 P(<<"f">>)>>,
     table |-> <<P(<<"a">>), NLT,
                 Table(<<Tr(<<>>, <<Cell("TH", <<"!">>, <<T(<<"b">>)>>), NLT>>),
                         Tr(<<"|-">>, <<Cell("TD", <<"|">>, <<T(<<"c">>)>>),
                                        Row(Cell("TD", <<"||">>, <<T(<<"d">>)>>)), NLT,
                                        Cell("TD", <<"|">>, <<T(<<"e">>)>>), NLT>>)>>), NLT,
                 P(<<"f">>)>>,
     definitions |-> <<Heading(<<"a">>), NLT,
                       List("DL", <<Li2("DT", <<";">>, <<T(<<"b">>)>>),
                                    Row(Li2("DD", <<":">>, <<T(<<"c">>)>>)), NLT,
                                    Li2("DD", <<":">>, <<T(<<"d">>)>>)>>), NLT, NLT,
                       List("UL", <<Li(<<"*">>, <<T(<<"e">>)>>)>>), NLT,
                       List("OL", <<Li(<<"#">>, <<T(<<"f">>)>>)>>), NLT, Comment, NLT,
                       Elt("HR", <<"----">>, <<>>, <<>>), NLT, P(<<"g">>)>>,
     inline |-> <<P2(<<T(<<"a">>), Quote("B", <<T(<<"b">>)>>), Quote("I", <<T(<<"c">>)>>), Comment,
                       T(<<"d">>)>>), NLT, NLT,
                  Template, Templated, NLT, NLT, Comment, NLT,
                  Elt("PRE", <<" ">>, <<T(<<"e">>)>>, <<>>), NLT, P(<<"f">>)>>,
     html |-> <<P(<<"a">>), Html("DIV", <<T(<<"b">>)>>), P(<<"*", "c">>), NLT, NLT,
                Html("P", <<T(<<"d">>)>>), NLT, P2(<<T(<<"e">>)>>)>>,
     cells |-> <<Table(<<Elt("CAPTION", <<"|+">>, <<T(<<"a">>), NLT>>, <<>>),
                         Tr(<<"|-">>, <<Cell("TD", <<"|">>, <<T(<<"b">>), NLT, P(<<"c">>), NLT,
                                                               List("UL", <<Li(<<"*">>, <<T(<<"d">>)>>)>>), NLT>>),
                                        Cell("TH", <<"!">>, <<T(<<"e">>)>>),
                                        Row(Cell("TH", <<"!!">>, <<T(<<"f">>)>>)), NLT>>)>>),
                 NLT, Heading(<<"g">>), NLT, Heading(<<"h">>), NLT, NLT, P(<<"i">>), NLT, NLT, P(<<"j">>)>>,
     indented |-> <<List("DL", <<Li2("DD", <<":">>, <<T(<<"a">>), NLT,
                             List("DL", <<Li2("DD", <<":", ":">>, <<T(<<"b">>)>>)>>)>>), NLT,
                                 Li2("DD", <<":">>, <<Table(<<Tr(<<>>, <<Cell("TD", <<"|">>, <<T(<<"c">>)>>), NLT>>)>>)>>)>>),
                    NLT, P2(<<Quote("B", <<T(<<"d">>)>>), T(<<NL, "e">>)>>), NLT, NLT,
                    P2(<<T(<<"f">>), [Elt("BR", <<"<br>">>, <<>>, <<>>) EXCEPT !.stx = "html"], T(<<"g">>)>>)>>,
     quotes |-> <<P2(<<T(<<"'", "a", " ">>), Quote("B", <<T(<<"b">>)>>), T(<<" ", "c", " ">>),
                       Quote("I", <<T(<<"d", " ">>), Quote("B", <<T(<<"e">>)>>)>>), T(<<" ", "f">>), Quote("B", <<T(<<"g">>)>>)>>)>>,
     links |-> <<P2(<<T(<<"a", " ">>), SimpleLink("b", <<"c">>), T(<<" ">>), URLLink, T(<<" ", "e", " ">>),
                      MagicLink, T(<<" ", "f">>)>>), NLT, NLT,
                 P2(<<PipedLink("b", <<"g">>, <<>>), T(<<" ", "h", " ">>), Quote("B", <<SimpleLink("i", <<>>)>>)>>), NLT,
                 List("UL", <<Li(<<"*">>, <<URLLink, T(<<" ">>), SimpleLink("i", <<>>)>>)>>)>>]

-----------------------------------------------------------------------------
(* Edits *)

Removed(d, n) == N!normalize(N!Detached(d, n), d[n].parent)
Added(d, parent, place, items) ==
    LET l == Lay(items, parent, 100, 0, TRUE)
    IN  [d EXCEPT ![parent].kids = SubSeq(@, 1, place) \o l.kids \o SubSeq(@, place + 1, Len(@))] @@ l.d

\* With its last item a list is gone.
Deletions(d) ==
    LET gone == {n \in DOMAIN d \ {Body} :
                    isElt(d, n) /\ d[n].name # "TBODY" /\ (isListItem(d, n) => Len(Siblings(d, n)) > 1)}
    IN  {Removed(d, n) : n \in gone}
            \cup {Removed(Removed(d, n), nextSibling(d, n)) :
                     n \in {x \in gone : nextSibling(d, x) # None /\ isIEW(d, nextSibling(d, x))}}
Insertions(d) ==
    UNION {{Added(d, n, i, items) : i \in 0..Len(d[n].kids),
                items \in CASE n = Body -> {<<P(<<"x">>)>>, <<Heading(<<"x">>)>>,
                                            <<List("UL", <<Li(<<>>, <<T(<<"x">>)>>)>>)>>,
                                            <<P(<<"x">>), P(<<"y">>)>>}
                            [] d[n].name = "UL" -> {<<Li(<<>>, <<T(<<"x">>)>>)>>}
                            [] d[n].name = "TBODY" -> {<<Tr(<<>>, <<Cell("TD", <<>>, <<T(<<"x">>)>>)>>)>>}
                            [] d[n].name = "TR" -> {<<Cell("TD", <<>>, <<T(<<"x">>)>>)>>}
                            [] OTHER -> {}} : n \in {x \in DOMAIN d : isElt(d, x)}}
Changes(d) ==
    {[d EXCEPT ![n].text = <<"x">>] : n \in {x \in DOMAIN d : isText(d, x) /\ ~isIEW(d, x)}}

\* Quotes and texts among quotes.
HasQuotes(d, n) == \E k \in Range(d[n].kids) : isQuoteElt(d, k)
QuoteEdits(d) ==
    LET parents == {n \in DOMAIN d : isElt(d, n) /\ HasQuotes(d, n)}
        x == <<T(<<"x">>)>>
        new == {<<Quote("B", x)>>, <<Quote("I", x)>>, <<Quote("B", <<Quote("I", x)>>)>>, <<Quote("I", <<Quote("B", x)>>)>>}
        fits(n, items) == ({items[1].name} \cup {k.name : k \in Range(items[1].kids)})
                              \cap {d[m].name : m \in {n} \cup Range(Ancestors(d, n))} = {}
    IN  UNION {{Added(d, n, i, items) : i \in 0..Len(d[n].kids), items \in {f \in new : fits(n, f)}} : n \in parents}
            \cup UNION {{Removed(d, k) : k \in {y \in Range(d[n].kids) : isText(d, y)}} : n \in parents}
            \cup UNION {{[d EXCEPT ![k].text = text] : k \in {y \in Range(d[n].kids) : isText(d, y)},
                            text \in {<<"'", "x">>, <<"x", "'">>, <<"'">>, <<"'", "'">>}} : n \in parents}

\* Links and texts among links, and the texts of links.
HasLinks(d, n) == \E k \in Range(d[n].kids) : d[k].name = "A"
LinkEdits(d) ==
    LET parents == {n \in DOMAIN d : isElt(d, n) /\ HasLinks(d, n)}
        Linked(target, text) == <<[Elt("A", <<>>, <<T(text)>>, <<>>) EXCEPT !.attr = target]>>
        new == {<<T(<<"x">>)>>, <<T(<<"[">>)>>, Linked("x", <<"x">>), Linked("b", <<"y">>), Linked("http:d", <<"http:d">>),
                Linked("rfc1", <<"RFC1">>), Linked("b", <<"y", " ">>), Linked("i", <<>>)}
        texts == {n \in DOMAIN d : isText(d, n) /\ d[d[n].parent].name = "A"}
    IN  UNION {{Added(d, n, i, items) : i \in 0..Len(d[n].kids), items \in new} : n \in parents}
            \cup UNION {{Removed(d, k) : k \in {y \in Range(d[n].kids) : isText(d, y)}} : n \in parents}
            \cup {[d EXCEPT ![n].text = text] : n \in texts, text \in {<<"b">>, <<"x", "c">>}}
            \cup {Removed(d, n) : n \in texts}

\* What is of interest to a client that asks for it to be scrubbed.
Scrubs(d) ==
    LET link == Elt("LINK", <<>>, <<>>, <<>>)
        x == T(<<"x">>)
        empty == Elt("P", <<>>, <<>>, <<>>)
        new == {<<Elt("H2", <<>>, <<>>, <<>>)>>, <<Elt("H2", <<>>, <<link, T(<<" ", "x">>), link>>, <<>>)>>,
                <<Elt("H2", <<>>, <<x, Elt("BR", <<>>, <<>>, <<>>), x>>, <<>>)>>,
                <<empty>>, <<empty, empty>>, <<P2(<<Elt("FONT", <<>>, <<x>>, <<>>), Quote("B", <<>>)>>)>>}
        \* Not among the nodes of a template.
        places == {i \in 0..Len(d[Body].kids) : i < Len(d[Body].kids) => (d[d[Body].kids[i + 1]].about = 0 \/ d[d[Body].kids[i + 1]].first)}
    IN  {Added(d, Body, i, items) : i \in places, items \in new}
            \cup {[d EXCEPT ![d[c].kids[1]].text = <<"-", "x">>] :
                    c \in {y \in DOMAIN d : d[y].name = "TD" /\ d[y].kids # <<>> /\ isText(d, d[y].kids[1])}}

\* To another place in the page.
Moves(d) ==
    LET movable == {n \in Range(d[Body].kids) : isElt(d, n) /\ d[n].about = 0}
        Rest(n) == SelectSeq(d[Body].kids, LAMBDA x : x # n)
    IN  UNION {{[d EXCEPT ![Body].kids = InsertAt(Rest(n), i, n)] : i \in 1..Len(Rest(n)) + 1} : n \in movable}
\* Into a new element.
Wraps(d) ==
    {LET div == Added(d, Body, Place(d, n), <<Elt("DIV", <<>>, <<>>, <<>>)>>)
     IN  [Removed(div, n) EXCEPT ![100].kids = <<n>>, ![n].parent = 100] :
        n \in {x \in Range(d[Body].kids) : d[x].name = "P" /\ d[x].about = 0}}

\* A paragraph right beside a block, and on its other side a paragraph and white space:
\* the code takes both for one line (see the README).
Crowded(d) ==
    LET kids == d[Body].kids
        Para(i) == d[kids[i]].name = "P" /\ d[kids[i]].stx # "html"
        Block(i) == isBlockNodeWithVisibleWT(d, kids[i])
    IN  \E i \in 2..Len(kids) - 2 : \E j \in i..Len(kids) - 2 :
            \/ /\ Block(i - 1) /\ (\A m \in i..j : Para(m))
               /\ isIEW(d, kids[j + 1]) /\ Para(j + 2)
            \/ /\ i = j /\ Para(i - 1) /\ isIEW(d, kids[i]) /\ Para(i + 1) /\ Block(i + 2)

\* An apostrophe of a text, or a quote, that is as it was and now has a quote beside it:
\* nothing is put between the two (see the README).
Unescaped(d, e) ==
    \/ \E n \in DOMAIN d \cap DOMAIN e :
          /\ isText(d, n) /\ d[n].text = e[n].text /\ N!InTree(e, n)
          /\ hasLeadingEscapableQuoteChar(e, n) \/ hasTrailingEscapableQuoteChar(e, n)
    \/ \E n \in DOMAIN d : isQuoteElt(d, n) /\ N!InTree(e, n) /\ precedingQuoteEltRequiresEscape(e, n)
\* Of links two things are not read as they are written (see the README): the name of a
\* document right behind the letters of a link, and a link that has those but no text.
Unreadable(e) ==
    \E n \in DOMAIN e :
        /\ e[n].tail # <<>> /\ N!InTree(e, n)
        /\ \/ e[n].kids = <<>>
           \/ LET x == nextSibling(e, n) IN x # None /\ e[x].attr \in DOMAIN Magic

Kept(d, edits) == {e \in edits : ~Crowded(e) /\ ~Unescaped(d, e) /\ ~Unreadable(e)}
Edits(d) ==
    QuoteEdits(d) \cup LinkEdits(d) \cup Scrubs(d) \cup Deletions(d) \cup Insertions(d) \cup Changes(d)
        \cup Moves(d) \cup Wraps(d)

RequestsOf(base) ==
    {[orig |-> base.d, new |-> new, src |-> base.src, scrub |-> FALSE] : new \in {base.d} \cup Kept(base.d, Edits(base.d))}
        \cup {[orig |-> base.d, new |-> new, src |-> base.src, scrub |-> TRUE] :
                 new \in Kept(base.d, Scrubs(base.d) \cup QuoteEdits(base.d) \cup LinkEdits(base.d))}
        \cup {[orig |-> <<>>, new |-> base.d, src |-> <<>>, scrub |-> FALSE]}
MCRequests == UNION {RequestsOf(Page(Pages[name])) : name \in DOMAIN Pages}
=============================================================================
