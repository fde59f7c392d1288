---------------------------------- MODULE Linter ----------------------------------
(***************************************************************************)
(* linter.js: a walk over the finished document that reports what in the   *)
(* wikitext should be mended.  It goes from a node to the next, with       *)
(* tplInfo of the transclusion it is in, and from fostered content it goes *)
(* straight on to the table that was left.                                 *)
(*                                                                         *)
(* A report that reaches the buffer of LintLogger is a record: its type,   *)
(* the node, the range, what is known of the template, and whether the     *)
(* element is in a table.  Left out are quotes, links and figures,         *)
(* paragraphs and tables of HTML, the <big> tag, and extensions.           *)
(***************************************************************************)
EXTENDS DomTree

NoTpl == [first |-> None, last |-> None, dsr |-> NoRange]

\* getAboutSiblings: the last node of the transclusion that n is the first of.
LastAboutSibling(d, n) ==
    LET nodes == SubSeq(Siblings(d, n), Place(d, n), Len(Siblings(d, n)))
        of(m) == \/ IsElt(d, m) /\ d.node[m].about = d.node[n].about
                 \/ IsFosterablePosition(d, m) /\ IsIEW(d, m)
        end == SelectInSeq(Tail(nodes), LAMBDA m : ~of(m))
        run == IF end = 0 THEN nodes ELSE SubSeq(nodes, 1, end)
    IN  IF d.node[n].about = 0 THEN n ELSE LastOf(SelectSeq(run, LAMBDA m : ~IsIEW(d, m)))

NextNonSepSibling(d, n) ==
    FirstOf(SelectSeq(SubSeq(Siblings(d, n), Place(d, n) + 1, Len(Siblings(d, n))), LAMBDA m : ~IsIEW(d, m)))
PreviousNonSepSibling(d, n) ==
    LastOf(SelectSeq(SubSeq(Siblings(d, n), 1, Place(d, n) - 1), LAMBDA m : ~IsIEW(d, m)))

\* All the text below n.
RECURSIVE TextBelow(_, _)
TextBelow(d, n) ==
    IF IsText(d, n) THEN d.node[n].data
    ELSE FlattenSeq([i \in DOMAIN d.kids[n] |-> TextBelow(d, d.kids[n][i])])

-----------------------------------------------------------------------------
(* A report *)

\* findEnclosingTemplateName
TemplateInfo(d, tpl) ==
    IF tpl = NoTpl \/ ~IsFirstWrapper(d, tpl.first) THEN "none"
    ELSE IF Len(d.node[tpl.first].parts) = 1 THEN "name" ELSE "multiPartTemplateBlock"

\* findLintDSR: in a transclusion, that of all of it.
LintDSR(info, tpl, dsr) == IF info # "none" \/ (tpl # NoTpl /\ ~ValidDSR(dsr)) THEN tpl.dsr ELSE dsr

\* LintLogger.linterBackend reports nothing that has no range.
Report(d, type, n, tpl, dsr, inTable) ==
    LET info == TemplateInfo(d, tpl)
        lint == [type |-> type, node |-> n, dsr |-> LintDSR(info, tpl, dsr),
                 templateInfo |-> info, inTable |-> inTable]
    IN  IF lint.dsr = NoRange THEN d ELSE [d EXCEPT !.lints = Append(@, lint)]
Logged(d, type, n, tpl) == Report(d, type, n, tpl, d.node[n].dsr, FALSE)

-----------------------------------------------------------------------------
(* logTreeBuilderFixup *)

\* getTagsWithChangedMisnestingBehavior, endTagOptional and Consts.HTML.FormattingTags,
\* of the tags here; these are void, or no concern of the linter.
TagsWithChangedMisnestingBehavior == {"SPAN"}
EndTagOptional == {"TR", "TD", "LI"}
FormattingTags == {"SMALL", "FONT"}
Unchecked == {"META", "LINK", "TBODY"}

\* getNextMatchingNode, leftMostDescendent: the rest of an element that closed too
\* early, or its end tag that was stripped, in what follows it.
RECURSIVE NextMatchingNode(_, _, _), LeftMostDescendent(_, _, _)
LeftMostDescendent(d, n, match) ==
    LET r == d.node[n]
        m == d.node[match]
        rest == r.tag = m.tag /\ r.html = m.html /\ r.autoStart
    IN  IF ~IsElt(d, n) THEN None
        ELSE IF IsMarkerMeta(d, n, "StrippedTag") THEN IF r.name = m.tag THEN n ELSE None
        ELSE IF rest THEN IF r.autoEnd THEN NextMatchingNode(d, n, match) ELSE n
        ELSE LeftMostDescendent(d, FirstChild(d, n), match)
NextMatchingNode(d, n, match) ==
    IF n = Body THEN None
    ELSE IF NextSibling(d, n) # None THEN LeftMostDescendent(d, NextNonSepSibling(d, n), match)
    ELSE NextMatchingNode(d, d.up[n], match)

\* hasIdenticalNestedTag goes down the first element.  The flag it asks of the
\* nested tag, autoInsertedInd, no node has.
RECURSIVE HasIdenticalNestedTag(_, _, _)
HasIdenticalNestedTag(d, n, tag) ==
    LET at == SelectInSeq(d.kids[n], LAMBDA c : IsElt(d, c))
        c == d.kids[n][at]
    IN  at # 0 /\ (d.node[c].tag = tag \/ HasIdenticalNestedTag(d, c, tag))

RECURSIVE HasMisnestableContent(_, _, _)
HasMisnestableContent(d, n, tag) ==
    LET next == NextNonSepSibling(d, n)
        paragraph == next # None /\ d.node[next].tag = "P" /\ ~d.node[next].html
        content == IF paragraph THEN FirstNonSepChild(d, next) ELSE next
    IN  IF n = Body \/ d.node[n].tag \in {"TD", "H2"} THEN FALSE
        ELSE IF next = None THEN HasMisnestableContent(d, d.up[n], tag)
        ELSE content # None /\ ~(IsMarkerMeta(d, content, "StrippedTag") /\ d.node[content].name = tag)

\* An unclosed tag that was meant to close the one n is of.
MatchedOpenTagPairExists(d, n) ==
    LET last == LastChild(d, n)
        r == d.node[last]
        prev == PreviousSibling(d, last)
    IN  /\ last # None /\ r.tag = d.node[n].tag
        /\ r.autoEnd /\ r.html = d.node[n].html
        /\ IsText(d, prev) /\ LastOf(d.node[prev].data) # "n"

HasAncestorOfName(d, n, tag) == \E m \in ToSet(PathToRoot(d, n)) : d.node[m].tag = tag

LogMissingEnd(d, n, tpl) ==
    LET r == d.node[n]
        inTable == HasAncestorOfName(d, n, "TABLE")
        missing == Report(d, "missing-end-tag", n, tpl, r.dsr, inTable)
    IN  IF r.tag \in EndTagOptional \/ r.autoStart THEN d
        ELSE IF r.tag \in FormattingTags /\ MatchedOpenTagPairExists(d, n)
        THEN Report(missing, "multiple-unclosed-formatting-tags", n, tpl, r.dsr, inTable)
        ELSE missing

IsMisnested(d, n, tag) ==
    /\ tag \in TagsWithChangedMisnestingBehavior
    /\ HasMisnestableContent(d, n, tag) /\ ~HasIdenticalNestedTag(d, n, tag)

\* The rest of what is misnested needs no report of its own.
LogRest(d, n, tpl, rest) ==
    IF rest = None THEN LogMissingEnd(d, n, tpl)
    ELSE Logged([d EXCEPT !.node[rest].linted = TRUE], "misnested-tag", n, tpl)

LogUnclosed(d, n, tpl) ==
    IF IsMisnested(d, n, d.node[n].tag) THEN Logged(d, "html5-misnesting", n, tpl)
    ELSE LogRest(d, n, tpl, NextMatchingNode(d, n, n))

LogTreeBuilderFixup(d, n, tpl) ==
    LET r == d.node[n]
        dsr == LintDSR(TemplateInfo(d, tpl), tpl, r.dsr)
        stripped == IF IsMarkerMeta(d, n, "StrippedTag") THEN Logged(d, "stripped-tag", n, tpl) ELSE d
    IN  IF r.linted THEN d
        ELSE IF /\ r.tag \notin Unchecked /\ r.html /\ r.autoEnd
                /\ tpl # NoTpl \/ (dsr # NoRange /\ dsr[3] > 0)
        THEN LogUnclosed(stripped, n, tpl)
        ELSE stripped

-----------------------------------------------------------------------------
(* The other reports *)

\* logDeletableTables: a table that the next one closed, in its midst.
LogDeletableTables(d, n, tpl) ==
    LET prev == PreviousNonSepSibling(d, n)
        dsr == d.node[n].dsr
        tag == IF dsr[3] \in {Nil, 0} THEN dsr ELSE <<dsr[1], dsr[1] + dsr[3], 0, 0>>
    IN  IF d.node[n].tag = "TABLE" /\ prev # None /\ d.node[prev].tag = "TABLE" /\ d.node[prev].autoEnd
        THEN Report(d, "deletable-table-tag", n, tpl, tag, FALSE) ELSE d

\* logObsoleteHTMLTags.  A <font> has a colour here, and only links, or what is
\* not seen, may be in it: that there is one is not asked.
LogObsoleteHTMLTags(d, n, tpl) ==
    LET r == d.node[n]
        font == r.tag = "FONT"
        onlyLinks == d.kids[n] # <<>> /\ \A c \in ToSet(d.kids[n]) : IsElt(d, c) /\ IsRenderingTransparentNode(d, c)
        old == IF font /\ ~(r.autoStart /\ r.autoEnd) THEN Logged(d, "obsolete-tag", n, tpl) ELSE d
    IN  IF font /\ onlyLinks THEN Logged(old, "tidy-font-bug", n, tpl) ELSE old

\* logTidyDivSpanFlip, of a span or a block with a class or a style.
LogTidyDivSpanFlip(d, n, tpl) ==
    LET c == FirstNonSepChild(d, n)
    IN  IF /\ d.node[n].tag = "SPAN" /\ c # None /\ d.node[c].tag = "DIV"
           /\ d.node[n].nowrap \/ d.node[c].nowrap
        THEN Logged(d, "misc-tidy-replacement-issues", n, tpl) ELSE d

\* logTidyWhitespaceBug: a node that may not be broken, or what comes before
\* whitespace in another; whether Tidy moved whitespace out of it, and whether it
\* begins with some.
Unbroken(d, n, text, ws) ==
    LET plain == IsText(d, n) \/ ~d.node[n].nowrap
        last == LastChild(d, n)
    IN  [node |-> n, breaks |-> plain /\ ws # 0, hasLeadingWS |-> plain /\ ws = 1,
         length |-> IF plain /\ ws # 0 THEN ws - 1 ELSE Len(text),
         tidybug |-> ~plain /\ IsText(d, last) /\ LastOf(d.node[last].data) = "n"]
UnbrokenAt(d, n, text) == Unbroken(d, n, text, SelectInSeq(text, LAMBDA c : c = "n"))

\* Those from n on, up to whitespace or to where a transclusion begins or ends.
RECURSIVE NowrapRun(_, _, _), RunOn(_, _, _, _)
NowrapRun(d, n, tpl) ==
    IF n = None \/ IsBlockNode(d, n) THEN <<>>
    ELSE RunOn(d, n, tpl, UnbrokenAt(d, n, TextBelow(d, n)))
RunOn(d, n, tpl, o) ==
    LET edge == IF tpl # NoTpl THEN tpl.last = n ELSE FirstWrapper(d, n) # None
    IN  IF o.breaks \/ edge THEN <<o>> ELSE <<o>> \o NowrapRun(d, NextSibling(d, n), tpl)

\* The text before the run, back to whitespace.
RECURSIVE LengthBefore(_, _)
LengthBefore(d, n) ==
    LET text == TextBelow(d, n)
        ws == SelectLastInSeq(text, LAMBDA c : c = "n")
    IN  IF n = None \/ IsBlockNode(d, n) THEN 0
        ELSE IF ws # 0 THEN Len(text) - ws
        ELSE Len(text) + LengthBefore(d, PreviousSibling(d, n))

\* 100 in the configuration, for texts of words; here they have a few characters.
TidyWhitespaceBugMaxLength == 2

RunLength(nodes) == FoldLeft(LAMBDA length, o : length + o.length, 0, nodes)

Processed(d, nodes) ==
    FoldLeft(LAMBDA e, o : [e EXCEPT !.node[o.node].processed = IsElt(d, o.node)], d, nodes)

LogTidyBugs(d, nodes, tpl) ==
    LET bugs == SelectSeq([i \in DOMAIN nodes |-> i],
                          LAMBDA i : i < Len(nodes) /\ nodes[i].tidybug /\ ~nodes[i + 1].hasLeadingWS)
    IN  FoldLeft(LAMBDA e, i : Logged(e, "tidy-whitespace-bug", nodes[i].node, tpl), d, bugs)

LogNowrapRun(d, n, tpl, nodes) ==
    IF RunLength(nodes) + LengthBefore(d, PreviousSibling(d, n)) < TidyWhitespaceBugMaxLength
    THEN Processed(d, nodes)
    ELSE LogTidyBugs(Processed(d, nodes), nodes, tpl)

LogTidyWhitespaceBug(d, n, tpl) ==
    IF d.node[n].processed THEN d ELSE LogNowrapRun(d, n, tpl, NowrapRun(d, n, tpl))

-----------------------------------------------------------------------------
(* logFosteredContent: [d, next, tpl].  The walk goes on with the table, or with   *)
(* the first node of the transclusion the table is of.                             *)

LogFosteredBefore(d, n, tpl, after, at) ==
    LET table == after[at]
        first == FirstWrapper(d, table)
    IN  IF at = 0 THEN [d |-> d, next |-> None, tpl |-> tpl]
        ELSE IF tpl = NoTpl /\ ~IsFirstWrapper(d, table) /\ first # None
        THEN [d |-> d, next |-> first, tpl |-> tpl]
        ELSE [d |-> Report(d, "fostered", n, tpl, d.node[table].dsr, FALSE), next |-> table,
              tpl |-> IF tpl.last \in ToSet(SubSeq(after, 1, at - 1)) THEN NoTpl ELSE tpl]
LogFosteredAmong(d, n, tpl, after) ==
    LogFosteredBefore(d, n, tpl, after, SelectInSeq(after, LAMBDA m : d.node[m].tag = "TABLE"))
LogFosteredContent(d, n, tpl) ==
    IF d.node[n].fostered /\ ~IsRenderingTransparentNode(d, n)
    THEN LogFosteredAmong(d, n, tpl, SubSeq(Siblings(d, n), Place(d, n) + 1, Len(Siblings(d, n))))
    ELSE [d |-> d, next |-> None, tpl |-> tpl]

-----------------------------------------------------------------------------
(* findLints *)

LogWikitextFixups(d, n, tpl) ==
    LogFosteredContent(
        LogTidyDivSpanFlip(LogTidyWhitespaceBug(LogObsoleteHTMLTags(
            LogDeletableTables(LogTreeBuilderFixup(d, n, tpl), n, tpl), n, tpl), n, tpl), n, tpl),
        n, tpl)

Entered(d, n, tpl) ==
    IF tpl = NoTpl /\ IsFirstWrapper(d, n)
    THEN [first |-> n, last |-> LastAboutSibling(d, n), dsr |-> d.node[n].dsr] ELSE tpl

\* Mistake: the transclusion is not left behind its last node.
AfterNever(n, tpl) == tpl
After(n, tpl) == IF tpl.last = n THEN NoTpl ELSE tpl

\* n, what is below it, and the siblings behind it.
RECURSIVE FindLints(_, _, _), FindMore(_, _)
FindLints(d, n, tpl) ==
    IF n = None THEN d
    ELSE IF ~IsElt(d, n) THEN FindLints(d, NextSibling(d, n), tpl)
    ELSE FindMore(LogWikitextFixups(d, n, Entered(d, n, tpl)), n)
FindMore(logged, n) ==
    IF logged.next # None THEN FindLints(logged.d, logged.next, After(n, logged.tpl))
    ELSE FindLints(FindLints(logged.d, FirstChild(logged.d, n), logged.tpl),
                   NextSibling(logged.d, n), After(n, logged.tpl))

\* detectMultipleUnclosedFormattingTags: a report of the first of them.
LogMultipleUnclosed(d, unclosed) ==
    IF Len(unclosed) < 2 THEN d
    ELSE [d EXCEPT !.lints = Append(@, [unclosed[1] EXCEPT !.type = "multiple-unclosed-formatting-tags"])]
DetectMultipleUnclosed(d) ==
    LogMultipleUnclosed(d, SelectSeq(d.lints, LAMBDA l : /\ l.type = "missing-end-tag" /\ ~l.inTable
                                                         /\ d.node[l.node].tag = "SMALL"))

Linted(d) == DetectMultipleUnclosed(FindLints(d, FirstChild(d, Body), NoTpl))
================================================================================
