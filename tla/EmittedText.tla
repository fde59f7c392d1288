------------------------------ MODULE EmittedText ------------------------------
(***************************************************************************)
(* What is written between two nodes (lib/html2wt/separators.js): the      *)
(* wishes of their handlers are put together as the serializer walks the   *)
(* page, and when there is something to write they are applied to the      *)
(* white space and comments met since, unless the white space of the       *)
(* source can be used.                                                     *)
(*                                                                         *)
(* `s.sep` is [src, constrained, constraints, last]; constraints are       *)
(* [min, max, force, aMin, info].  Start and end tags the tree builder     *)
(* made up are left out.                                                   *)
(***************************************************************************)
EXTENDS DOMHandlers

OrZero(x) == IF x = None THEN 0 ELSE x

\* The wishes of two handlers: in a conflict the second has its way.
getSepNlConstraints(a, b) ==
    LET low == IF b.min = None THEN [min |-> a.min, max |-> a.max]
               ELSE IF a.max # None /\ a.max < b.min THEN [min |-> b.min, max |-> b.min]
               ELSE [min |-> Max({OrZero(a.min), b.min}), max |-> a.max]
        high == IF b.max = None THEN low
                ELSE IF low.min # None /\ low.min > b.max THEN [min |-> b.max, max |-> b.max]
                ELSE [low EXCEPT !.max = IF @ = None THEN b.max ELSE Min({@, b.max})]
    IN  [min |-> high.min, max |-> IF high.max = None THEN 2 ELSE high.max,
         force |-> a.force \/ b.force, aMin |-> a.min]

\* What was wished so far, and what is now.
mergeConstraints(old, new) ==
    LET min == Max({OrZero(old.min), OrZero(new.min)})
        max == Min({old.max, new.max})
        less == ~old.force /\ new.max <= min /\ OrZero(new.min) # 0 /\ new.min < min
    IN  [min |-> IF min > max /\ less THEN new.min ELSE min,
         max |-> IF min <= max THEN max ELSE IF less THEN new.min ELSE min,
         force |-> old.force \/ new.force, aMin |-> old.aMin]

updateSeparatorConstraints(d, s, m, n) ==
    LET parentChild == d[n].parent = m
        childParent == d[m].parent = n
        a == IF parentChild THEN first(d, s, m, n) ELSE after(d, s, m, n)
        b == IF childParent THEN last(d, s, n, m) ELSE before(d, s, n, m)
        type == IF parentChild THEN "parent-child" ELSE IF childParent THEN "child-parent" ELSE "sibling"
        With(new) == IF s.sep.constrained THEN mergeConstraints(s.sep.constraints, new) ELSE new
    IN  [s EXCEPT !.sep.constrained = TRUE,
                  !.sep.constraints = With(getSepNlConstraints(a, b)) @@ [info |-> [onSOL |-> s.onSOL, forceSOL |-> forceSOL(getDOMHandler(d, n)),
                                                           type |-> type, a |-> m, b |-> n]]]

NoInfo == [onSOL |-> FALSE, forceSOL |-> FALSE, type |-> "", a |-> None, b |-> None]
Unconstrained == [min |-> None, max |-> 0, force |-> FALSE, aMin |-> None, info |-> NoInfo]

-----------------------------------------------------------------------------
(* makeSeparator *)

\* The newlines of a separator that count: not those before lines with comments only.
Counting(sep) ==
    {i \in 1..Len(sep) :
        /\ sep[i][1] = NL
        /\ ~\E j \in i + 1..Len(sep) : /\ sep[j][1] = NL
                                       /\ \E k \in i + 1..j - 1 : sep[k][1] = "C"
                                       /\ \A k \in i + 1..j - 1 : sep[k][1] # NL}

Without(sep, places) == LET keep == SelectSeq([i \in 1..Len(sep) |-> i], LAMBDA i : i \notin places)
                        IN  [i \in 1..Len(keep) |-> sep[keep[i]]]
\* The last n of these.
LastOf(places, n) == {i \in places : Cardinality({j \in places : j > i}) < n}

\* Where newlines are added: after the parent, or after what is before literal HTML.
Prepended(d, info) ==
    \/ /\ info.type = "parent-child"
       /\ LET c == firstNonDeletedChild(d, info.a) IN c = None \/ ~isContentNode(d, c)
       /\ ~(d[info.b].name \in ChildTableTags /\ ~isLiteralHTMLNode(d, info.b))
    \/ info.type = "sibling" /\ isLiteralHTMLNode(d, info.b)

makeSeparator(d, s, sep, cons) ==
    LET count == Cardinality(Counting(sep))
        min == IF s.atStartOfOutput /\ OrZero(cons.aMin) = 0 /\ OrZero(cons.min) > 0
               THEN cons.min - 1 ELSE OrZero(cons.min)
        added == Written([i \in 1..min - count |-> NL])
    IN  IF count < min
        THEN IF Prepended(d, cons.info) THEN added \o sep ELSE sep \o added
        ELSE Without(sep, LastOf(Counting(sep), count - cons.max))

-----------------------------------------------------------------------------
(* makeSepIndentPreSafe: a space at the start of the line would begin a <pre>. *)

precedingSpaceSuppressesIndentPre(d, n, sepNode) ==
    IF n # sepNode /\ isText(d, n)
    THEN LET text == d[n].text
         IN  \E i \in 1..Len(text) : text[i] = NL /\ \A j \in 1..i - 1 : text[j] = " "
    ELSE \/ d[n].name = "BR"
         \/ isFirstEncapsulationWrapperNode(d, n) /\ d[n].kids = <<>>
         \/ isBlockNodeWithVisibleWT(d, n)

\* The spaces that end a separator, but for a comment, and where the line they are on begins.
LineStart(sep) == Max({i \in 1..Len(sep) : sep[i][1] = NL} \cup {0}) + 1
FinalSpaces(sep) ==
    LET end == {i \in LineStart(sep) + 1..Len(sep) : sep[i][1] = "C" /\ sep[i - 1][1] = " "}
        to == IF end = {} THEN Len(sep) ELSE Min(end) - 1
    IN  {i \in LineStart(sep)..to : \A j \in i..to : sep[j][1] = " "}

Suppressed(d, n) ==
    n # None /\ n # Body /\
    LET up == SelectSeq(Ancestors(d, n), LAMBDA x : ~isZeroWidthWikitextElt(d, x))
    IN  \/ d[up[1]].name \in WeakIndentPreSuppressingTags
        \/ \E x \in Range(up) : x # Body /\ d[x].name \in StrongIndentPreSuppressingTags

\* In <nowiki> tags, from one place to another.
Wrapped(out, from, to) ==
    SubSeq(out, 1, from - 1) \o Written(<<"<nowiki>">>) \o SubSeq(out, from, to)
        \o Written(<<"</nowiki>">>) \o SubSeq(out, to + 1, Len(out))

makeSepIndentPreSafe(d, s, sep, cons) ==
    LET info == cons.info
        sol == info.onSOL \/ (info.forceSOL /\ info.type # "child-parent")
        spaces == FinalSpaces(sep)
        risk == spaces # {} /\ (sol \/ (LineStart(sep) > 1 /\ LineStart(sep) \in spaces))
        looked == IF info.b = None THEN <<>>
                  ELSE SelectSeq(<<info.b>> \o Following(d, info.b),
                                 LAMBDA x : ~isDiffMarker(d, x) /\ ~emitsSolTransparentSingleLineWT(d, x))
        \* Siblings only, or the first child of the body, are looked past.
        past == info.type = "sibling" \/ info.a = Body
        b == IF past THEN FirstIn(looked) ELSE info.b
        safe == IF b = None THEN past
                ELSE precedingSpaceSuppressesIndentPre(d, b, info.b) \/ Suppressed(d, b)
        strip == sol /\ b # None /\ d[b].name \in SolSpaceSensitiveTags
    IN  IF s.inPHPBlock \/ s.inIndentPre \/ ~risk \/ (safe /\ ~strip)
        THEN [s |-> s, sep |-> sep]
        ELSE IF strip THEN [s |-> s, sep |-> Without(sep, spaces)]
        ELSE [s |-> [s EXCEPT !.onSOL = FALSE, !.hasIndentPreNowikis = TRUE],
              sep |-> Wrapped(sep, Min(spaces), Max(spaces))]

-----------------------------------------------------------------------------
(* Use of the source *)

isValidSep(sep) == \A i \in 1..Len(sep) : sep[i][1] \in Spaces \cup {"C"}

\* Beside a block that was deleted, looking back or on, and up through what is not in the wikitext.
nextToDeletedBlockNodeInWT(d, n, back) ==
    LET beside[x \in Int] ==
            LET near == IF back THEN Preceding(d, x) ELSE Following(d, x)
                met == {i \in 1..Len(near) : \/ isDeletedMarker(d, near[i])
                                             \/ ~emitsSolTransparentSingleLineWT(d, near[i])}
            IN  IF met # {} THEN isDeletedBlockNode(d, near[Min(met)])
                ELSE isZeroWidthWikitextElt(d, d[x].parent) /\ beside[d[x].parent]
    IN  n # None /\ n # Body /\ beside[n]

\* What a node was written as may depend on what was before it.
origSrcValidInEditedContext(d, n) ==
    LET p == previousSibling(d, n)
    IN  IF n = Body THEN TRUE
        ELSE IF d[n].name \in {"TH", "TD"}
        THEN p # None /\ d[n].stx = "row" =>
                 ~isDiffMarker(d, p) /\ ~hasInsertedDiffMark(d, p) /\ ~directChildrenChanged(d, p)
        ELSE IF d[n].name = "TR" /\ ~d[n].startSrc THEN previousNonSepSibling(d, n) = None
        ELSE IF isNestedListOrListItem(d, n)
        THEN /\ p # None
             /\ \A x \in Range(Preceding(d, n)) : ~isDiffMarker(d, x) /\ ~hasInsertedDiffMark(d, x)
        ELSE TRUE

\* The place in the source of the last node that was written, of text by what is around it.
DsrA(d, m, n) ==
    LET p == d[m].parent
        before1 == previousSibling(d, m)
    IN  IF isElt(d, m) THEN d[m].dsr
        ELSE IF nextSibling(d, m) = None /\ p # n /\ d[p].dsr # <<>> /\ d[p].dsr[4] = 0 THEN d[p].dsr
        ELSE IF /\ before1 # None /\ isElt(d, before1) /\ d[before1].dsr # <<>>
                /\ n = Body \/ ~directChildrenChanged(d, d[n].parent)
        THEN <<d[before1].dsr[2], d[before1].dsr[2] + Len(d[m].text), 0, 0>>
        ELSE <<>>
\* ... and of the next one; the separator text before it is counted from its parent.
DsrB(d, m, n) ==
    LET p == d[n].parent
        text == Preceding(d, n)
    IN  IF ~isElt(d, n)
        THEN IF /\ p # m /\ d[p].dsr # <<>> /\ d[p].dsr[3] = 0
                /\ \A i \in 1..Len(text) : isIEW(d, text[i]) \/ isComment(d, text[i])
             THEN [d[p].dsr EXCEPT ![1] = @ + Len(FlattenSeq([i \in 1..Len(text) |-> d[text[i]].text]))]
             ELSE <<>>
        ELSE IF m # Body /\ d[m].parent = n
        THEN LET up[x \in Int] == IF nextSibling(d, x) = None /\ x # Body /\ d[x].dsr = <<>> THEN up[d[x].parent] ELSE x
             IN  d[up[n]].dsr
        ELSE d[n].dsr

\* What is between them: b in a, after it, or around it.  A set, empty if unknown.
Between(s, a, b) ==
    IF a = <<>> \/ b = <<>> THEN {}
    ELSE IF a[1] <= b[1]
    THEN IF b[2] <= a[2]
         THEN IF a[1] = b[1] /\ a[2] = b[2] THEN {<<>>} ELSE {Orig(s, a[1] + a[3], b[1])}
         ELSE IF a[2] <= b[1] THEN {Orig(s, a[2], b[1])} ELSE {Orig(s, a[2], b[2] - b[4])}
    ELSE IF a[2] <= b[2] THEN {Orig(s, a[2], b[2] - b[4])} ELSE {}

\* Mistake: the source is used beside what was deleted.
origSepUsableAnyway(d, s, n) ==
    LET m == s.sep.last IN n # m /\ s.selserMode /\ ~s.inModifiedContent

origSepUsable(d, s, n) ==
    LET m == s.sep.last
    IN  /\ n # m
        /\ s.selserMode /\ ~s.inModifiedContent
        /\ ~nextToDeletedBlockNodeInWT(d, m, TRUE)
        /\ ~nextToDeletedBlockNodeInWT(d, n, FALSE)
        /\ origSrcValidInEditedContext(d, m)
        /\ origSrcValidInEditedContext(d, n)

buildSep(d, s, n) ==
    LET orig == IF origSepUsable(d, s, n) THEN Between(s, DsrA(d, s.sep.last, n), DsrB(d, s.sep.last, n)) ELSE {}
        fits == {o \in orig : isValidSep(o) /\ (s.sep.src = <<>> \/ Chars(s.sep.src) = Chars(o))}
        cons == IF s.sep.constrained THEN s.sep.constraints ELSE Unconstrained
        sep == IF fits # {} THEN CHOOSE o \in fits : TRUE
               ELSE IF s.sep.constrained \/ s.sep.src # <<>> THEN makeSeparator(d, s, s.sep.src, cons)
               ELSE <<>>
    IN  makeSepIndentPreSafe(d, s, sep, cons)

-----------------------------------------------------------------------------
(***************************************************************************)
(* Links: how one is written (lib/html2wt/LinkHandler.js), and what may    *)
(* not be right beside it on its line (ConstrainedText.js).  The output is *)
(* kept as chunks until a line is complete; the chunk of a link knows its  *)
(* kind, so that a <nowiki/> is put where what is beside it would become   *)
(* part of the link, or undo it.                                           *)
(*                                                                         *)
(* `attr` of a link is its target: a title, a URL, or a document of which  *)
(* the name alone is a link ("RFC 1").  `tail` are the letters behind the  *)
(* brackets that were read as part of it.  Links have only text in them,   *)
(* and keep their target; categories, interwiki and language links, media, *)
(* prefixes of links, and titles that are not valid are left out.          *)
(***************************************************************************)

Letters == {"a", "b", "c", "d", "e", "f", "g", "h", "i", "j", "x", "y"}

\* The tokens of a link in wikitext, by its target.
Simple == [b |-> "[[b]]", i |-> "[[i]]", x |-> "[[x]]"]
Piped == [b |-> "[[b|", i |-> "[[i|", x |-> "[[x|"]
Titles == DOMAIN Simple
Magic == "rfc1" :> "RFC1"
Bracketed == ("rfc1" :> "[rfc1") @@ ("http:d" :> "[http:d")
URLs == {"http:d"}

WordChars == Letters \cup URLs \cup Range(Magic)
LinkTrail == Letters \cup URLs
\* What no URL goes over: white space, brackets and tags.
URLStops == {NL, " ", "C", "<", ">", "<br>", "<font>", "</font>", "<nowiki>", "</nowiki>", "<nowiki/>",
             "[]", "[", "]", "]]", "''", "'''", "'''''"}
                \cup Range(Simple) \cup Range(Piped) \cup Range(Bracketed)
BeginsQuote(chars) == Len(chars) > 1 /\ chars[1] = "'" /\ chars[2] \in {"'", "''", "'''", "'''''"}
\* One bracket too many before those of a link.
BracketsBefore(chars) ==
    Max({k \in 0..Len(chars) : \A j \in 1..k : chars[Len(chars) + 1 - j] = "["})

-----------------------------------------------------------------------------
(* ConstrainedText: a chunk of the output, for the node n *)

TextChunk(n, text, kind) == [n |-> n, text |-> text, kind |-> kind, noSep |-> FALSE]

\* The kind of a link in the source.
KindOf(d, n) ==
    IF d[n].name # "A" THEN ""
    ELSE CASE d[n].stx \in {"simple", "piped"} /\ d[n].attr \in Titles -> "wiki"
           [] d[n].stx = "url" -> "url"
           [] d[n].stx = "magiclink" -> "magic"
           [] OTHER -> ""

\* Its letters are taken by it, and can be part of nothing that follows.
Greedy(c) == c.kind = "wiki" /\ c.text # <<>> /\ Last(c.text)[1] \notin {"]]"} \cup Range(Simple)
badPrefix(kind, left) ==
    CASE kind = "wiki" -> BracketsBefore(left) % 2 = 1
      [] kind \in {"url", "magic"} -> left # <<>> /\ Last(left) \in WordChars
      [] OTHER -> FALSE
badSuffix(kind, right) ==
    /\ right # <<>>
    /\ CASE kind = "wiki" -> right[1] \in LinkTrail
         [] kind = "url" -> right[1] \notin URLStops /\ ~BeginsQuote(right)
         [] kind = "magic" -> right[1] \in WordChars
         [] OTHER -> FALSE

\* Mistake: what was written after a link is not looked at.
escapeLinePrefix(chunks) ==
    LET Nowiki(bad) == IF bad THEN Written(<<"<nowiki/>">>) ELSE <<>>
    IN  FoldLeft(LAMBDA out, c : out \o Nowiki(badPrefix(c.kind, Chars(out))) \o c.text, <<>>, chunks)

\* A line: left of a chunk is what was written of it, right of it what will be.
escapeLine(chunks) ==
    LET Texts(from) == FlattenSeq([k \in 1..Len(chunks) + 1 - from |-> chunks[from + k - 1].text])
        Nowiki(bad) == IF bad THEN Written(<<"<nowiki/>">>) ELSE <<>>
        Escaped(k, left) ==
            LET c == chunks[k]
            IN  Nowiki(badPrefix(c.kind, left)) \o c.text \o Nowiki(badSuffix(c.kind, Chars(Texts(k + 1))))
        With(q, k, text) ==
            [out |-> q.out \o text, left |-> IF Greedy(chunks[k]) THEN <<>> ELSE q.left \o Chars(text)]
    IN  IF \A k \in 1..Len(chunks) : chunks[k].kind = "" THEN Texts(1)
        ELSE FoldLeft(LAMBDA q, k : With(q, k, Escaped(k, q.left)), [out |-> <<>>, left |-> <<>>],
                      [k \in 1..Len(chunks) |-> k]).out

\* Mistake: what is from the source is one chunk, of no kind.
fromSelSerPlain(d, n, text) == <<TextChunk(n, text, "")>>

\* The source of a node that is used as it is: the first and the last node in it, if they
\* begin and end where it does, have beside them what is beside it.
RECURSIVE ChunksOf(_, _, _, _)
ChunksOf(d, n, text, exposed) ==
    LET f == firstNonDeletedChild(d, n)
        l == lastNonDeletedChild(d, n)
        Meets(side, k, at) ==
            side \in exposed /\ k # None /\ isValidDSR(d[k].dsr) /\ d[k].dsr[at] = d[n].dsr[at]
        left == Meets("left", f, 1)
        right == Meets("right", l, 2) /\ l # f
        Length(k) == d[k].dsr[2] - d[k].dsr[1]
        from == IF left THEN Length(f) ELSE 0
        \* A slice of no length from the end is all of it.
        to == IF ~right THEN Len(text) ELSE IF Length(l) = 0 THEN from ELSE Len(text) - Length(l)
    IN  IF KindOf(d, n) # "" THEN <<TextChunk(n, text, KindOf(d, n))>>
        ELSE (IF left THEN ChunksOf(d, f, SubSeq(text, 1, from), {"left"}) ELSE <<>>)
                 \o <<TextChunk(n, SubSeq(text, from + 1, to), "")>>
                 \o (IF right THEN ChunksOf(d, l, SubSeq(text, to + 1, Len(text)), {"right"}) ELSE <<>>)
\* Only before the first of them, which is of the node itself, is there a separator.
fromSelSer(d, n, text) ==
    LET chunks == ChunksOf(d, n, text, {"left", "right"})
        all == (IF chunks[1].n # n THEN <<TextChunk(n, <<>>, "")>> ELSE <<>>) \o chunks
    IN  [i \in 1..Len(all) |-> [all[i] EXCEPT !.noSep = i > 1]]

-----------------------------------------------------------------------------
(* LinkHandler *)

\* The tail stays behind the link if its text still ends in it.
splitLinkContentString(text, tail) ==
    IF tail # <<>> /\ IsSuffix(tail, text) THEN [content |-> SubSeq(text, 1, Len(text) - Len(tail)), tail |-> tail]
    ELSE [content |-> text, tail |-> <<>>]

getLinkRoundTripData(d, n) ==
    LET text == textContent(d, n)
    IN  IF d[n].kids = <<>> THEN [content |-> <<>>, tail |-> d[n].tail]
        ELSE IF text = <<d[n].attr>> THEN [content |-> text, tail |-> <<>>]
        ELSE splitLinkContentString(text, d[n].tail)

contentModified(d, s, n) == s.inModifiedContent \/ hasMark(d, n, "subtree-changed")
isSimpleWikiLink(d, s, n, content) ==
    (contentModified(d, s, n) \/ d[n].stx # "piped") /\ content = <<d[n].attr>>
isURLLink(d, n) == textContent(d, n) = <<d[n].attr>> /\ d[n].attr \in URLs

\* Without text it would have its target filled in when the page is saved.
serializeAsWikiLink(d, s, n) ==
    LET data == getLinkRoundTripData(d, n)
        content == IF data.content = <<>> THEN <<"<nowiki/>">> ELSE data.content
        text == IF isSimpleWikiLink(d, s, n, data.content) THEN <<Simple[d[n].attr]>>
                ELSE <<Piped[d[n].attr]>> \o content \o <<"]]">>
    IN  TextChunk(n, Written(text \o data.tail), "wiki")

serializeAsExtLink(d, n) ==
    LET text == textContent(d, n)
        target == d[n].attr
        Anchor(content) == TextChunk(n, Written(<<Bracketed[target]>> \o content \o <<"]">>), "")
    IN  IF isURLLink(d, n) THEN TextChunk(n, Written(<<target>>), "url")
        ELSE IF target \in DOMAIN Magic
        THEN IF text = <<Magic[target]>> THEN TextChunk(n, Written(text), "magic") ELSE Anchor(<<" ">> \o text)
        ELSE Anchor(IF text = <<>> THEN <<>> ELSE <<" ">> \o text)

linkHandler(d, s, n) ==
    IF d[n].attr \in Titles THEN serializeAsWikiLink(d, s, n) ELSE serializeAsExtLink(d, n)

-----------------------------------------------------------------------------
(***************************************************************************)
(* For the properties: what a page shows and what wikitext is read as,     *)
(* both as a sequence of blocks: a page that is written and read again is  *)
(* the same page.  A block is <<kind, content>>: "p", a heading, the       *)
(* bullets of a list item, "|", "row" ..., and the words in it and what is *)
(* inline, without white space.  The reading goes line by line, as the     *)
(* tokenizer, ListHandler and ParagraphWrapper do together.                *)
(***************************************************************************)
Bullets == {"*", "#", ":", ";"}
HeadingMarks == {"=", "==", "==="}
CellMarks == {"|", "!", "||", "!!"}
Solid(chars) == SelectSeq(chars, LAMBDA c : c \notin Spaces \cup {"C"})

-----------------------------------------------------------------------------
(* The page *)

Inline(d, n) ==
    ~isElt(d, n) \/ isFormattingElt(d, n) \/ d[n].name \in {"A", "BR", "META", "LINK", "FIGURE"}
        \/ d[n].about # 0

Words(d, n) ==
    LET words[x \in Int] ==
            LET inner == FlattenSeq([i \in 1..Len(d[x].kids) |-> words[d[x].kids[i]]])
            IN  CASE isText(d, x) -> Solid(d[x].text)
                  [] ~isElt(d, x) -> <<>>
                  [] d[x].about # 0 -> IF d[x].first THEN <<"{{}}">> ELSE <<>>
                  [] d[x].name = "B" -> <<"'''">> \o inner \o <<"'''">>
                  [] d[x].name = "I" -> <<"''">> \o inner \o <<"''">>
                  [] d[x].name = "FONT" -> <<"<font>">> \o inner \o <<"</font>">>
                  [] d[x].name = "BR" -> IF d[x].stx = "html" \/ d[d[x].parent].name # "P" THEN <<"<br>">> ELSE <<>>
                  [] d[x].name = "A" -> <<"<a", d[x].attr>> \o inner \o <<"</a>">>
                  [] d[x].name \in {"META", "LINK", "FIGURE"} -> <<"[]">>
                  [] OTHER -> inner
    IN  words[n]
\* Of what is inline before the first block in n, and after it.
InlineKids(d, n) ==
    LET kids == d[n].kids
        blocks == {i \in 1..Len(kids) : ~Inline(d, kids[i])}
        to == IF blocks = {} THEN Len(kids) ELSE Min(blocks) - 1
    IN  [own |-> FlattenSeq([i \in 1..to |-> Words(d, kids[i])]), rest |-> SubSeq(kids, to + 1, Len(kids))]

BulletsOf(d, n) ==
    LET bullets[x \in Int] ==
            IF ~isListOrListItem(d, x) THEN <<>>
            ELSE bullets[d[x].parent] \o
                 (CASE d[x].name = "DT" -> <<";">> [] d[x].name = "DD" -> <<":">>
                    [] d[x].name = "LI" -> IF d[d[x].parent].name = "UL" THEN <<"*">> ELSE <<"#">>
                    [] OTHER -> <<>>)
    IN  bullets[n]

\* A list item that goes on with the list before it.
Continues(d, n) ==
    LET list == d[n].parent IN isListItem(d, d[list].parent) \/ previousNonSepSibling(d, n) # None

Shown(d) ==
    LET shown[n \in Int] ==
            LET name == d[n].name
                in == InlineKids(d, n)
                All(kids) == FlattenSeq([i \in 1..Len(kids) |-> shown[kids[i]]])
                Block(kind) == IF in.own = <<>> THEN <<>> ELSE <<<<kind, in.own>>>>
            IN  CASE ~isElt(d, n) -> IF Words(d, n) = <<>> THEN <<>> ELSE <<<<"line", Words(d, n)>>>>
                  [] d[n].about # 0 -> IF d[n].first THEN <<<<"{{}}", <<>>>>>> ELSE <<>>
                  [] ~Inline(d, n) /\ (d[n].stx = "html" \/ name = "DIV") -> <<<<"<", <<>>>>>> \o Block("line") \o All(in.rest) \o <<<<">", <<>>>>>>
                  [] name = "P" -> Block("p") \o All(in.rest)
                  [] name \in Headings -> <<<<CASE name = "H1" -> "=" [] name = "H2" -> "==" [] OTHER -> "===", in.own>>>>
                  [] name = "PRE" -> Block("pre")
                  [] name = "HR" -> <<<<"hr", <<>>>>>>
                  [] name \in ListItems ->
                        (IF in.own = <<>> /\ in.rest # <<>> /\ isList(d, in.rest[1]) THEN <<>>
                         ELSE <<<<"item", BulletsOf(d, n), Continues(d, n), in.own>>>>) \o All(in.rest)
                  [] name = "TABLE" -> <<<<"{|", <<>>>>>> \o All(d[n].kids) \o <<<<"|}", <<>>>>>>
                  [] name = "CAPTION" -> <<<<"|+", in.own>>>> \o All(in.rest)
                  [] name = "TR" -> LET cells == All(d[n].kids) IN IF cells = <<>> THEN <<>> ELSE <<<<"row", <<>>>>>> \o cells
                  [] name \in {"TD", "TH"} -> <<<<IF name = "TD" THEN "|" ELSE "!", in.own>>>> \o All(in.rest)
                  [] Inline(d, n) -> <<<<"line", Words(d, n)>>>>
                  [] OTHER -> All(d[n].kids)
    IN  shown[Body]

-----------------------------------------------------------------------------
(* The wikitext *)

\* <<first, last>> of each line.
LineBounds(chars) ==
    LET ends == SelectSeq([i \in 1..Len(chars) + 1 |-> i], LAMBDA i : IF i > Len(chars) THEN TRUE ELSE chars[i] = NL)
    IN  [k \in 1..Len(ends) |-> <<IF k = 1 THEN 1 ELSE ends[k - 1] + 1, ends[k] - 1>>]

\* A line with its quotes side by side in one: n is the number of them, 0 for what is none.
Apostrophes(c) == CASE c = "'" -> 1 [] c = "''" -> 2 [] c = "'''" -> 3 [] OTHER -> 0
Units(line) ==
    FoldLeft(LAMBDA us, i :
                 LET n == Apostrophes(line[i])
                 IN  IF n > 0 /\ us # <<>> /\ Last(us).n > 0 THEN [us EXCEPT ![Len(us)].n = @ + n]
                     ELSE Append(us, [c |-> line[i], n |-> n, at |-> i]),
             <<>>, [i \in 1..Len(line) |-> i])

\* The tags they are read as, of which one bold may be an apostrophe and italic
\* (QuoteTransformer.doQuotes); what is still open ends with the line.
Nowikis == {"<nowiki/>", "<nowiki>", "</nowiki>"}
Apart(n) ==
    CASE n < 2 -> [i \in 1..n |-> "'"]
      [] n = 2 -> <<"''">>
      [] n = 3 -> <<"'''">>
      [] n = 4 -> <<"'", "'''">>
      [] OTHER -> [i \in 1..n - 5 |-> "'"] \o <<"'''''">>
QuoteTags(line) ==
    LET read == FoldLeft(LAMBDA r, u :
                    [ext |-> (r.ext \/ u.c = "<nowiki>") /\ u.c # "</nowiki>",
                     out |-> r.out \o (IF u.n = 0 THEN <<u.c>> ELSE IF r.ext THEN [i \in 1..u.n |-> "'"] ELSE Apart(u.n))],
                    [ext |-> FALSE, out |-> <<>>], Units(line)).out
        At(tags) == {i \in 1..Len(read) : read[i] \in tags}
        Odd(tag) == Cardinality(At({tag, "'''''"})) % 2 = 1
        Before(i, k) == IF i > k THEN read[i - k] ELSE ""
        After(how) ==
            {i \in At({"'''"}) :
                how = (IF Before(i, 1) = " " THEN "space" ELSE IF Before(i, 2) = " " THEN "single" ELSE "multi")}
        bold == CASE After("single") # {} -> Min(After("single"))
                  [] After("multi") # {} -> Min(After("multi"))
                  [] After("space") # {} -> Min(After("space"))
                  [] OTHER -> 0
        split == Odd("''") /\ Odd("'''") /\ bold # 0
    IN  (IF split THEN SubSeq(read, 1, bold - 1) \o <<"'", "''">> \o SubSeq(read, bold + 1, Len(read)) ELSE read)
            \o (IF ~split /\ Odd("''") THEN <<"''">> ELSE <<>>) \o (IF ~split /\ Odd("'''") THEN <<"'''">> ELSE <<>>)

\* Links, as <a, the target, the text, /a>: letters behind the brackets are part of it, one of
\* a bracket before it makes it none; a URL goes on, and that or "RFC 1" is none in a word.
Target(tokens, c) == CHOOSE t \in DOMAIN tokens : tokens[t] = c
LinksIn(line) ==
    LET Closed(q) == IF q.mode = "" THEN q
                     ELSE [q EXCEPT !.mode = "", !.out = @ \o <<"<a", q.target>> \o q.text \o <<"</a>">>]
        Opened(q, mode, target, text) == [q EXCEPT !.mode = mode, !.target = target, !.text = text]
        Begins(q, i) ==
            LET c == line[i]
                left == SubSeq(line, 1, i - 1)
                right == SubSeq(line, i + 1, Len(line))
                bracketed == BracketsBefore(left) % 2 = 1
                inWord == left # <<>> /\ Last(left) \in WordChars
            IN  CASE c \in Range(Simple) /\ ~bracketed -> Opened(q, "trail", Target(Simple, c), <<Target(Simple, c)>>)
                  [] c \in Range(Piped) /\ ~bracketed -> Opened(q, "]]", Target(Piped, c), <<>>)
                  [] c \in Range(Bracketed) -> Opened(q, "]", Target(Bracketed, c), <<>>)
                  [] c \in URLs /\ ~inWord -> Opened(q, "url", c, <<c>>)
                  [] c \in Range(Magic) /\ ~inWord /\ (right = <<>> \/ right[1] \notin WordChars) ->
                        Closed(Opened(q, "magic", Target(Magic, c), <<c>>))
                  [] OTHER -> [q EXCEPT !.out = Append(@, c)]
        Step(q, i) ==
            LET c == line[i]
            IN  IF q.mode = c THEN IF c = "]]" THEN [q EXCEPT !.mode = "trail"] ELSE Closed(q)
                ELSE IF \/ q.mode \in {"]]", "]"} \/ (q.mode = "trail" /\ c \in Letters)
                        \/ (q.mode = "url" /\ c \notin URLStops)
                THEN [q EXCEPT !.text = Append(@, c)]
                ELSE Begins(Closed(q), i)
    IN  Closed(FoldLeft(Step, [mode |-> "", target |-> "", text |-> <<>>, out |-> <<>>], [i \in 1..Len(line) |-> i])).out

\* Words, and where it changes whether they are bold or italic.
Formatted(words) ==
    LET Name(b, i) == (IF b THEN (IF i THEN "+bi" ELSE "+b") ELSE (IF i THEN "+i" ELSE "+"))
    IN  FoldLeft(LAMBDA f, w :
                    IF w \in {"''", "'''", "'''''"}
                    THEN [f EXCEPT !.b = @ # (w # "''"), !.i = @ # (w # "'''")]
                    ELSE [f EXCEPT !.last = Name(f.b, f.i),
                                   !.out = @ \o (IF f.last # Name(f.b, f.i) THEN <<Name(f.b, f.i)>> ELSE <<>>) \o <<w>>],
                 [b |-> FALSE, i |-> FALSE, last |-> "+", out |-> <<>>], words).out

\* Has the last block more of the words of a paragraph?
Opens(r, kind) == [r EXCEPT !.blocks = Append(@, <<kind, <<>>>>)]
More(r, words) ==
    LET at == Len(r.blocks[Len(r.blocks)])
    IN  [r EXCEPT !.blocks[Len(r.blocks)][at] = @ \o SelectSeq(words, LAMBDA x : x \notin Nowikis)]

\* Words in a line with tags, marks of cells, or the ":" after a term.
Marked(r, words) ==
    FoldLeft(LAMBDA q, w :
                 CASE w = "<" -> [Opens(q, w) EXCEPT !.open = FALSE, !.tags = @ + 1]
                   [] w = ">" -> [Opens(q, w) EXCEPT !.open = FALSE, !.tags = @ - 1]
                   [] w \in {"||", "!!"} /\ q.cell -> [Opens(q, IF w = "||" THEN "|" ELSE "!") EXCEPT !.open = TRUE]
                   [] w = "{|" -> [Opens(q, w) EXCEPT !.row = FALSE]
                   [] w = ":" /\ q.list # <<>> /\ Last(q.list) = ";" ->
                        [q EXCEPT !.list = Front(@) \o <<":">>,
                                  !.blocks = Append(@, <<"item", Front(q.list) \o <<":">>, TRUE, <<>>>>)]
                   [] OTHER -> IF q.open THEN More(q, <<w>>)
                               ELSE [More(Opens(q, IF q.tags > 0 THEN "line" ELSE "p"), <<w>>) EXCEPT !.open = TRUE],
             r, words)

\* A row begins with its first cell; one without cells is not shown.
InRow(r) == IF r.row THEN r ELSE [Opens(r, "row") EXCEPT !.row = TRUE]

\* A bar and what is right behind it.
Bars(line) ==
    IF Len(line) > 1 /\ line[1] = "|" /\ line[2] \in {"-", "+", "}"}
    THEN <<CASE line[2] = "-" -> "|-" [] line[2] = "+" -> "|+" [] OTHER -> "|}">> \o SubSeq(line, 3, Len(line))
    ELSE line

ReadLine(r, line, words) ==
    LET w == words[1]
        rest == Tail(words)
        plain == [r EXCEPT !.para = FALSE, !.list = <<>>, !.cell = FALSE, !.open = FALSE, !.pre = FALSE]
        bullets == SubSeq(words, 1, Max({i \in 0..Len(words) : \A j \in 1..i : words[j] \in Bullets}))
        indented == SelectSeq(line, LAMBDA c : c # "C")[1] = " "
    IN  CASE words = <<>> -> IF Contains(line, "C") THEN r ELSE plain
          [] indented /\ ~Contains(words, "<") /\ w \notin {"{|", "|", "|-", "|}", "!"} ->
                [More(IF r.pre THEN r ELSE Opens(plain, "pre"), words) EXCEPT !.pre = TRUE]
          [] w \in Bullets ->
                LET goes == r.list # <<>> /\ (r.list[1] = w \/ {r.list[1], w} = {":", ";"})
                    item == [plain EXCEPT !.blocks = Append(@, <<"item", bullets, goes, <<>>>>),
                                          !.list = bullets, !.open = TRUE]
                IN  Marked(item, SubSeq(words, Len(bullets) + 1, Len(words)))
          [] w \in HeadingMarks /\ Len(words) > 1 /\ Last(words) = w -> More(Opens(plain, w), Front(rest))
          [] words = <<"{{}}">> -> Opens(plain, w)
          [] w = "----" -> Marked(Opens(plain, "hr"), rest)
          [] w \in {"{|", "|}"} -> Marked([Opens(plain, w) EXCEPT !.row = FALSE], IF w = "{|" THEN <<>> ELSE rest)
          [] w = "|-" -> [plain EXCEPT !.row = FALSE]
          [] w = "|+" -> Marked([Opens(plain, "|+") EXCEPT !.open = TRUE], rest)
          [] w \in CellMarks ->
                Marked([Opens(InRow(plain), IF w \in {"|", "||"} THEN "|" ELSE "!") EXCEPT !.open = TRUE, !.cell = TRUE],
                       rest)
          [] Contains(words, "<") \/ Contains(words, ">") -> Marked(plain, words)
          [] OTHER -> More(IF r.para THEN r ELSE [Opens(plain, "p") EXCEPT !.para = TRUE], words)

ReadAs(chars) ==
    FoldLeft(LAMBDA r, line : ReadLine(r, line, Solid(line)),
             [blocks |-> <<>>, para |-> FALSE, list |-> <<>>, cell |-> FALSE, row |-> FALSE, pre |-> FALSE,
              open |-> FALSE, tags |-> 0],
             [k \in 1..Len(LineBounds(chars)) |-> LinksIn(QuoteTags(Bars(SubSeq(chars, LineBounds(chars)[k][1], LineBounds(chars)[k][2]))))]).blocks

-----------------------------------------------------------------------------
\* What is the same in the page and in the wikitext.  Of a page that is scrubbed, line breaks
\* and fonts may go, what is not rendered may be elsewhere, and blocks with nothing else are gone,
\* and so are links without text to a title; links to the same target side by side are one.
LinksJoined(words) ==
    LET Link(q, i) == [q EXCEPT !.target = words[i + 1], !.skip = 1]
        Step(q, i) ==
            IF q.skip > 0 THEN [q EXCEPT !.skip = @ - 1]
            ELSE IF words[i] # "<a" THEN [q EXCEPT !.out = Append(@, words[i])]
            ELSE IF words[i + 1] \in Titles /\ words[i + 2] = "</a>" THEN [q EXCEPT !.skip = 2]
            ELSE IF q.out # <<>> /\ Last(q.out) = "</a>" /\ q.target = words[i + 1]
            THEN [Link(q, i) EXCEPT !.out = Front(@)]
            ELSE [Link(q, i) EXCEPT !.out = @ \o <<"<a", words[i + 1]>>]
    IN  FoldLeft(Step, [out |-> <<>>, target |-> "", skip |-> 0], [i \in 1..Len(words) |-> i]).out
Meaning(blocks, scrub) ==
    LET Apart2(words) == SelectSeq(words, LAMBDA w : ~(scrub /\ w \in {"[]", "<br>", "<font>", "</font>"}))
        Joined(words) == IF scrub THEN LinksJoined(words) ELSE words
        Kept(b) == [b EXCEPT ![Len(b)] = Formatted(Joined(Apart2(@)))]
        words(b) == b[Len(b)]
        Links(b) == SelectSeq(words(b), LAMBDA w : w = "[]")
    IN  [blocks |-> SelectSeq([i \in 1..Len(blocks) |-> Kept(blocks[i])],
                              LAMBDA b : ~(scrub /\ words(b) = <<>> /\ b[1] \in {"p", "line", "=", "==", "==="})),
         links |-> IF scrub THEN FlattenSeq([i \in 1..Len(blocks) |-> Links(blocks[i])]) ELSE <<>>]
=============================================================================
