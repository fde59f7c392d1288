--------------------------- MODULE ParagraphWrapper ---------------------------
(***************************************************************************)
(* lib/wt2html/tt/ParagraphWrapper.js: the last stage before the tree      *)
(* builder puts paragraphs around lines of text.  The line under way is    *)
(* held until it is known whether it has a block tag, newlines are held    *)
(* until it is known how many there are, and the lines before them until   *)
(* it is known where a paragraph is to be closed.                          *)
(*                                                                         *)
(* The input is what the stages before may send: an indented block starts  *)
(* at the start of a line, has text before its first newline and no block  *)
(* tag, and is closed.                                                     *)
(***************************************************************************)
EXTENDS Integers, SequencesExt, FiniteSetsExt

CONSTANTS
    MaxLine,      \* bound: tokens of a line
    MaxHeld,      \* bound: tokens held from before the line
    MaxNewlines   \* bound: newlines in a row

VARIABLES
    handler,  \* the fields of the handler: see NewHandler
    input,    \* the token it was last given
    output,   \* the tokens it returned for it
    sent      \* of the tokens returned: whether a paragraph and a block are open
              \* in them; of the input: where in a line or a block it is

vars == <<handler, input, output, sent>>

-----------------------------------------------------------------------------
(***************************************************************************)
(* Kinds.  "ws" is white space, a comment or an mw:EmptyLine; "sol" a      *)
(* category link or the like.  "<block>" makes the line one that opens a   *)
(* block, </td> for one, and "</block>" one that closes it or that a block *)
(* does not suppress, <td> or <div> for example; "word" is all that can be *)
(* wrapped besides.  "<pre>" and "</pre>" are those of the PreHandler.     *)
(***************************************************************************)
NlTk == "nl"
EOFTk == "eof"
Opens == "<block>"
Closes == "</block>"
TplStart == "mw:Transclusion"
TplEnd == "mw:Transclusion/End"
P == "<p>"
EndP == "</p>"
Br == "<br>"
PreTag == "<pre>"
EndPre == "</pre>"
Blank == "blank"   \* the ' ' put in the place of a <pre>

isSolTransparent(t) == t \in {"ws", "sol", TplStart, TplEnd, Blank}

NewLine == [tokens |-> <<>>, hasWrappableTokens |-> FALSE, openMatch |-> FALSE, closeMatch |-> FALSE]

NewHandler ==
    [inPre |-> FALSE, hasOpenPTag |-> FALSE, inBlockElem |-> FALSE,
     tokenBuffer |-> <<>>, nlWsTokens |-> <<>>, newLineCount |-> 0,
     currLine |-> NewLine,
     onNewLine |-> TRUE]   \* registered for newlines

Result(h, out) == [handler |-> h, out |-> out]

-----------------------------------------------------------------------------
(* Where a paragraph starts and ends *)

Transparent(t) == isSolTransparent(t) \/ t = NlTk
ContentAt(out) == {i \in 1..Len(out) : ~Transparent(out[i])}
MarksIn(out, places) == {i \in places : out[i] \in {TplStart, TplEnd}}

\* Before the first token that is not transparent, or the mark of the template
\* that this token comes from.
openPTag(h, out) ==
    LET first == Min(ContentAt(out) \cup {Len(out) + 1})
        marks == MarksIn(out, 1..(first - 1))
        at    == IF marks # {} /\ out[Max(marks)] = TplStart THEN Max(marks) ELSE first
    IN  IF h.hasOpenPTag THEN Result(h, out)
        ELSE Result([h EXCEPT !.hasOpenPTag = TRUE], InsertAt(out, at, P))

\* After the last token that is not transparent, or the mark that ends the
\* template this token comes from.
closeOpenPTag(h, out) ==
    LET last  == Max(ContentAt(out) \cup {0})
        marks == MarksIn(out, (last + 1)..Len(out))
        at    == IF marks # {} /\ out[Min(marks)] = TplEnd THEN Min(marks) ELSE last
    IN  IF ~h.hasOpenPTag THEN Result(h, out)
        ELSE Result([h EXCEPT !.hasOpenPTag = FALSE], InsertAt(out, at + 1, EndP))

-----------------------------------------------------------------------------
(* The buffers *)

resetBuffers(h) == [h EXCEPT !.tokenBuffer = <<>>, !.nlWsTokens = <<>>, !.newLineCount = 0]

Matched(line) == line.openMatch \/ line.closeMatch

resetCurrLine(h) ==
    [h EXCEPT !.inBlockElem = IF Matched(h.currLine) THEN ~h.currLine.closeMatch ELSE @,
              !.currLine = NewLine]

\* At the end of the page.
reset(h) == [NewHandler EXCEPT !.onNewLine = h.onNewLine \/ h.inPre]

\* Up to and without the first newline that is held, the newline and the rest.
UpToNl(toks) ==
    LET i == Min({k \in 1..Len(toks) : toks[k] = NlTk})
    IN  [before |-> SubSeq(toks, 1, i - 1), rest |-> SubSeq(toks, i + 1, Len(toks))]

\* The tokens before the next newline are passed on, and `then` with it.
PassNl(r, then) ==
    LET nl == UpToNl(r.handler.nlWsTokens)
    IN  Result([r.handler EXCEPT !.nlWsTokens = nl.rest], r.out \o nl.before \o then \o <<NlTk>>)

\* A newline, the left-th from the last, of those after the first: it starts a
\* paragraph of its own, or is a line break in it.
EmptyLine(r, nl) ==
    LET starts == nl.left % 2 = nl.of % 2
        tags   == IF starts
                  THEN (IF r.handler.hasOpenPTag THEN <<EndP>> ELSE <<>>)
                         \o (IF nl.left > 1 THEN <<P>> ELSE <<>>)
                  ELSE <<Br>>
        passed == PassNl(r, tags)
    IN  IF starts THEN [passed EXCEPT !.handler.hasOpenPTag = nl.left > 1] ELSE passed

\* Two newlines or more end a paragraph, and more are empty ones.
EmptyLines(h) ==
    LET n == h.newLineCount - 1
        closed == closeOpenPTag(h, h.tokenBuffer)
    IN  FoldLeft(EmptyLine, PassNl(closed, <<>>), [j \in 1..n |-> [left |-> n + 1 - j, of |-> n]])

PassEmptyLines(h) ==
    IF h.newLineCount >= 2 /\ ~h.inBlockElem THEN [EmptyLines(h) EXCEPT !.handler.newLineCount = 0]
    ELSE Result(h, h.tokenBuffer)

\* Mistake: a paragraph stays open before a block.
CloseBeforeBlockNever(r) == r

\* A line with a block tag ends the paragraph, and the newline before it is not
\* in it.
CloseBeforeBlock(r) ==
    LET closed == closeOpenPTag(r.handler, r.out)
    IN  CASE ~Matched(r.handler.currLine) -> r
          [] Matched(r.handler.currLine) /\ r.handler.newLineCount = 1 -> PassNl(closed, <<>>)
          [] OTHER -> closed

PassHeld(r) == Result(resetBuffers(r.handler), r.out \o r.handler.nlWsTokens)

processPendingNLs(h) == PassHeld(CloseBeforeBlock(PassEmptyLines(h)))

Push(h, token) == [h EXCEPT !.currLine.tokens = Append(@, token)]

PushInto(r, token) == Result(Push(r.handler, token), r.out)

processBuffers(h, token, flushCurrentLine) ==
    LET r == PushInto(processPendingNLs(h), token)
    IN  IF flushCurrentLine THEN Result(resetCurrLine(r.handler), r.out \o r.handler.currLine.tokens)
        ELSE r

flushBuffers(h) == Result(resetBuffers(h), h.tokenBuffer \o h.nlWsTokens)

-----------------------------------------------------------------------------
(* The handlers *)

onNewLineOrEOF(h, token) ==
    LET line == CASE Matched(h.currLine) -> closeOpenPTag(h, h.currLine.tokens)
                  [] ~Matched(h.currLine) /\ ~h.inBlockElem /\ h.currLine.hasWrappableTokens ->
                       openPTag(h, h.currLine.tokens)
                  [] OTHER -> Result(h, h.currLine.tokens)
        buffered == [line.handler EXCEPT !.tokenBuffer = @ \o line.out]
    IN  IF token = EOFTk
        THEN LET closed == closeOpenPTag(buffered, buffered.tokenBuffer)
                 last   == [closed.handler EXCEPT !.tokenBuffer = closed.out,
                                                  !.nlWsTokens = Append(@, token)]
                 r      == processPendingNLs(last)
             IN  Result(reset(r.handler), r.out)
        ELSE Result([resetCurrLine(buffered) EXCEPT !.newLineCount = @ + 1,
                                                    !.nlWsTokens = Append(@, token)], <<>>)

\* <pre> and </pre>: none inside a block.
AnyPre(h) ==
    IF h.inBlockElem THEN Result(Push(h, Blank), <<>>)
    ELSE processBuffers([h EXCEPT !.onNewLine = FALSE, !.inPre = TRUE, !.currLine.openMatch = TRUE],
                        PreTag, TRUE)

\* Mistake: newlines stay unregistered.
AnyEndPreNoNewline(h) ==
    IF h.inBlockElem /\ ~h.inPre THEN Result(h, <<>>)
    ELSE Result([h EXCEPT !.inPre = FALSE, !.currLine.closeMatch = TRUE], <<EndPre>>)

AnyEndPre(h) ==
    IF h.inBlockElem /\ ~h.inPre THEN Result(h, <<>>)
    ELSE Result([h EXCEPT !.onNewLine = @ \/ h.inPre, !.inPre = FALSE, !.currLine.closeMatch = TRUE],
                <<EndPre>>)

AnySpace(h, token) ==
    IF h.newLineCount = 0 THEN flushBuffers(Push(h, token))
    ELSE Result([h EXCEPT !.nlWsTokens = Append(@, token)], <<>>)

AnySol(h, token) ==
    CASE h.newLineCount = 0 -> flushBuffers(Push(h, token))
      [] h.newLineCount = 1 ->
           Result(Push(resetCurrLine([h EXCEPT !.tokenBuffer = @ \o h.nlWsTokens \o h.currLine.tokens,
                                               !.newLineCount = 0, !.nlWsTokens = <<>>]), token), <<>>)
      [] h.newLineCount > 1 -> processBuffers(h, token, FALSE)

AnyOther(h, token) ==
    processBuffers([h EXCEPT !.currLine.openMatch = @ \/ token = Opens,
                             !.currLine.closeMatch = @ \/ token = Closes,
                             !.currLine.hasWrappableTokens = TRUE], token, FALSE)

onAny(h, token) ==
    CASE token = PreTag -> AnyPre(h)
      [] token = EndPre -> AnyEndPre(h)
      [] token \notin {PreTag, EndPre} /\ h.inPre -> Result(h, <<token>>)
      [] token = "ws" /\ ~h.inPre -> AnySpace(h, token)
      [] token \in {"sol", TplStart, TplEnd} /\ ~h.inPre -> AnySol(h, token)
      [] token \in {"word", Opens, Closes, NlTk} /\ ~h.inPre -> AnyOther(h, token)

-----------------------------------------------------------------------------
(* The stage *)

\* The paragraph and the indented block open after the tokens, or "bad" from the
\* first tag on that does not fit.
After(open, tokens) ==
    FoldLeft(LAMBDA o, t :
                 CASE t = P -> IF o = "none" THEN "p" ELSE "bad"
                   [] t = EndP -> IF o = "p" THEN "none" ELSE "bad"
                   [] t = PreTag -> IF o = "none" THEN "pre" ELSE "bad"
                   [] t = EndPre -> IF o = "pre" THEN "none" ELSE "bad"
                   [] t \in {Opens, Closes} -> IF o = "none" THEN "none" ELSE "bad"
                   [] OTHER -> o,
             open, tokens)

Init ==
    /\ handler = NewHandler
    /\ input = <<>>
    /\ output = <<>>
    /\ sent = [open |-> "none", place |-> "sol", tpl |-> FALSE]

Handle(h, token) ==
    IF token = EOFTk \/ (token = NlTk /\ h.onNewLine) THEN onNewLineOrEOF(h, token) ELSE onAny(h, token)

Give(token, place, tpl) ==
    \E r \in {Handle(handler, token)} :
        /\ handler' = r.handler
        /\ input' = <<token>>
        /\ output' = r.out
        /\ sent' = [open |-> IF token = EOFTk THEN "none" ELSE After(sent.open, r.out),
                    place |-> place, tpl |-> tpl]

\* Places: "sol" at the start of a line, "line" in it, "pre" in an indented block
\* and "pre0" there before any text.
InLine == IF sent.place \in {"pre", "pre0"} THEN "pre" ELSE "line"
Room == Len(handler.currLine.tokens) < MaxLine /\ Len(handler.tokenBuffer) + Len(handler.nlWsTokens) < MaxHeld

GiveWord == Room /\ Give("word", InLine, sent.tpl)
GiveTransparent == Room /\ \E t \in {"ws", "sol"} : Give(t, sent.place, sent.tpl)
GiveTemplateMark == Room /\ Give(IF sent.tpl THEN TplEnd ELSE TplStart, sent.place, ~sent.tpl)
GiveBlock == Room /\ sent.place \in {"sol", "line"} /\ \E t \in {Opens, Closes} : Give(t, "line", sent.tpl)

GiveNewline ==
    /\ sent.place # "pre0" /\ Room /\ handler.newLineCount < MaxNewlines
    /\ Give(NlTk, IF sent.place = "pre" THEN "pre" ELSE "sol", sent.tpl)

GivePre == sent.place = "sol" /\ Room /\ Give(PreTag, "pre0", sent.tpl)
GiveEndPre == sent.place = "pre" /\ Give(EndPre, "line", sent.tpl)
GiveEnd == sent.place \in {"sol", "line"} /\ Give(EOFTk, "sol", FALSE)

Next ==
    \/ GiveWord \/ GiveTransparent \/ GiveTemplateMark \/ GiveBlock
    \/ GiveNewline \/ GivePre \/ GiveEndPre \/ GiveEnd

Spec == Init /\ [][Next]_vars

-----------------------------------------------------------------------------
(* Properties *)

HeldBack(h) == h.tokenBuffer \o h.nlWsTokens \o h.currLine.tokens

\* Newlines are counted as they are held, and are not seen while an indented
\* block is open.
TypeOK ==
    /\ handler.newLineCount = Len(SelectSeq(handler.nlWsTokens, LAMBDA t : t = NlTk))
    /\ handler.onNewLine <=> ~handler.inPre
    /\ handler.inPre => HeldBack(handler) = <<>> /\ ~handler.hasOpenPTag

\* "Failed assertion": newlines are not pending once the line has tokens, besides
\* the blank that an indented block in another block leaves.
NoFailedAssertion ==
    handler.newLineCount > 0 => ToSet(handler.currLine.tokens) \subseteq {Blank}

\* Paragraphs are closed before the next is opened, before a block tag and before
\* an indented block; hasOpenPTag is what will be open after all that is held.
ParagraphsPair ==
    LET after == After(sent.open, HeldBack(handler))
    IN  /\ after # "bad"
        /\ after = "p" <=> handler.hasOpenPTag
        /\ after = "pre" <=> handler.inPre

Content(tokens) == SelectSeq(tokens, LAMBDA t : t \notin {P, EndP, Br, PreTag, EndPre, Blank})

\* All but the tags of paragraphs comes out in order.
OrderKept == Content(HeldBack(handler) \o input') = Content(output' \o HeldBack(handler'))

KeepsOrder == [][OrderKept]_vars

\* The end of the page leaves nothing in the handler for the next.
EndLeavesNothing == input = <<EOFTk>> => handler = NewHandler
=============================================================================
