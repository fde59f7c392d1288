-------------------------- MODULE TokenStreamPatcher --------------------------
(***************************************************************************)
(* lib/wt2html/tt/TokenStreamPatcher.js: the first handler of the last     *)
(* token stage.  On the page itself it turns a {| that only now stands at  *)
(* the start of a line into a table, and what looked like parts of a table *)
(* outside of any into text; everywhere it hides the newlines before a     *)
(* category link from the handlers after it.                               *)
(***************************************************************************)
EXTENDS Integers, SequencesExt

CONSTANTS
    MaxBuffered,  \* bound: newlines and what follows them held back
    MaxNesting    \* bound: tables, and cells, open at once

VARIABLES
    handler,  \* the fields of the handler: see NewHandler
    input,    \* the token it was last given
    output,   \* the tokens it returned for it
    sent      \* of the input: cells whose marker is to come, and whether a
              \* transclusion is open; of the output: tables open in it, and
              \* whether it had a part of a table outside of one

vars == <<handler, input, output, sent>>

-----------------------------------------------------------------------------
(***************************************************************************)
(* Tokens are their kinds.  Parts of tables are those of wikitext, without *)
(* a source of their own when a template made them; "other" is every tag   *)
(* and meta that ends the start of a line.  What an mw:EmptyLine holds is  *)
(* written in its place.                                                   *)
(***************************************************************************)
Nl == "nl"
Space == "space"
TableStart == "{|"
Text == "text"
Comment == "comment"
Meta == "meta"
Category == "category"
EOFTk == "eof"
Table == "<table>"
EndTable == "</table>"
EndCaption == "</caption>"
TplStart == "mw:Transclusion"
TplEnd == "mw:Transclusion/End"

Cells == {"td", "th"}
Start == [td |-> "<td>", th |-> "<th>", tr |-> "<tr>", caption |-> "<caption>"]
Marker == [td |-> "mw:TSRMarker td", th |-> "mw:TSRMarker th"]
Parts == {Start[n] : n \in DOMAIN Start}
NameOf(part) == CHOOSE n \in DOMAIN Start : Start[n] = part

EmptyLine == [nl |-> "mw:EmptyLine nl", space |-> "mw:EmptyLine space"]

NewHandler(atTopLevel) ==
    [atTopLevel |-> atTopLevel, sol |-> TRUE, tokenBuf |-> <<>>, wikiTableNesting |-> 0,
     lastConvertedTableCellToken |-> "none"]

\* What an answer leaves in the handler, and the tokens of it.
Result(h, tokens) == [handler |-> h, tokens |-> tokens]

clearSOL(h) == [h EXCEPT !.sol = FALSE]

\* What a part of a table becomes: its source, as text, or nothing at all.
ConvertedTo == {<<"source">>, <<"nothing">>}

-----------------------------------------------------------------------------
(* The handlers *)

onNewline(h) == Result([h EXCEPT !.sol = TRUE, !.tokenBuf = Append(@, Nl)], <<>>)

\* Buffered tokens are emitted before what is answered.
Flush(r) == Result([r.handler EXCEPT !.tokenBuf = <<>>], r.handler.tokenBuf \o r.tokens)

\* Mistake: the nesting is not counted for a table that is reparsed.
AnyTableStartUncounted(h, retoks) ==
    IF h.sol /\ retoks = <<Table>> THEN Result([h EXCEPT !.lastConvertedTableCellToken = "none"], retoks)
    ELSE Result(clearSOL(h), <<TableStart>>)

\* The string {|: `retoks` is the table it is, or itself where there is an error.
AnyTableStart(h, retoks) ==
    IF h.sol /\ retoks = <<Table>>
    THEN Result([h EXCEPT !.wikiTableNesting = @ + 1, !.lastConvertedTableCellToken = "none"], retoks)
    ELSE Result(clearSOL(h), <<TableStart>>)

\* Mistake: what follows the mark of a transclusion is forgotten.
TunnelledDrops(buf) ==
    LET tunnel(t) == IF t = TplStart THEN t ELSE EmptyLine[t]
        toks == [i \in 1..Len(buf) |-> tunnel(buf[i])]
    IN  IF Contains(buf, TplStart) THEN SubSeq(toks, 1, CHOOSE i \in 1..Len(buf) : buf[i] = TplStart)
        ELSE toks

\* Newlines and spaces before a category, in an mw:EmptyLine before and one after
\* the mark of the transclusion among them.
Tunnelled(buf) == [i \in 1..Len(buf) |-> IF buf[i] = TplStart THEN TplStart ELSE EmptyLine[buf[i]]]

AnyCategory(h) == Result(clearSOL([h EXCEPT !.tokenBuf = <<>>]), Append(Tunnelled(h.tokenBuf), Category))

\* <td>, <th>, <tr> and <caption> of wikitext.
AnyPart(h, name, converted) ==
    CASE ~h.atTopLevel -> Result(clearSOL(h), <<Start[name]>>)
      [] h.atTopLevel /\ h.wikiTableNesting > 0 ->
           Result(clearSOL([h EXCEPT !.lastConvertedTableCellToken = "none"]), <<Start[name]>>)
      [] h.atTopLevel /\ h.wikiTableNesting = 0 ->
           Result(clearSOL([h EXCEPT !.lastConvertedTableCellToken = IF name \in Cells THEN name ELSE @]), converted)

AnyTable(h) ==
    Result(clearSOL(IF h.atTopLevel THEN [h EXCEPT !.wikiTableNesting = @ + 1, !.lastConvertedTableCellToken = "none"]
                    ELSE h), <<Table>>)

\* The end of a table, or of its caption.
AnyPartEnd(h, token, converted) ==
    CASE ~h.atTopLevel -> Result(clearSOL(h), <<token>>)
      [] h.atTopLevel /\ h.wikiTableNesting > 0 ->
           Result(clearSOL(IF token = EndTable
                           THEN [h EXCEPT !.wikiTableNesting = @ - 1, !.lastConvertedTableCellToken = "none"]
                           ELSE h), <<token>>)
      [] h.atTopLevel /\ h.wikiTableNesting = 0 -> Result(clearSOL(h), converted)

\* Whether the token is held back, or swallowed.
Buffers(h, token) == h.tokenBuf # <<>> /\ token \in {Space, TplStart}
Swallows(h, token) ==
    h.lastConvertedTableCellToken # "none" /\ token = Marker[h.lastConvertedTableCellToken]

\* Mistake: the cell stays remembered.
SwallowedAgain(h) == Result(h, <<>>)

Swallowed(h) == Result([h EXCEPT !.lastConvertedTableCellToken = "none"], <<>>)

\* `converted` is what a part of a table becomes, if it does.
onAny(h, token, converted) ==
    CASE Buffers(h, token) -> Result([h EXCEPT !.tokenBuf = Append(@, token)], <<>>)
      [] Swallows(h, token) -> Swallowed(h)
      [] token = TableStart -> Flush(AnyTableStart(h, IF h.atTopLevel THEN converted ELSE <<TableStart>>))
      [] token \in {Text, "other"} -> Flush(Result(clearSOL(h), <<token>>))
      [] token = Category -> Flush(AnyCategory(h))
      [] token = Table -> Flush(AnyTable(h))
      [] token \in Parts -> Flush(AnyPart(h, NameOf(token), converted))
      [] token \in {EndTable, EndCaption} -> Flush(AnyPartEnd(h, token, converted))
      [] OTHER -> Flush(Result(h, <<token>>))

\* Mistake: the nesting stays as it was at the end of the page.
onEndKeepsNesting(h) == [NewHandler(h.atTopLevel) EXCEPT !.wikiTableNesting = h.wikiTableNesting]

\* onAny was given the end of the page before, and has flushed what was held.
onEnd(h) == NewHandler(h.atTopLevel)

-----------------------------------------------------------------------------
(* The stage *)

NothingSent == [cells |-> <<>>, tpl |-> FALSE, tables |-> 0, outside |-> FALSE]

Init ==
    /\ \E top \in BOOLEAN : handler = NewHandler(top)
    /\ input = <<>>
    /\ output = <<>>
    /\ sent = NothingSent

Count(tokens, t) == Cardinality({i \in 1..Len(tokens) : tokens[i] = t})

Answer(token, r, cells, tpl) ==
    /\ handler' = r.handler
    /\ input' = <<token>>
    /\ output' = r.tokens
    /\ sent' = [cells |-> cells, tpl |-> tpl,
                tables |-> sent.tables + Count(r.tokens, Table) - Count(r.tokens, EndTable),
                outside |-> sent.tables = 0 /\ ToSet(r.tokens) \cap (Parts \cup {EndTable}) # {}]

Give(token) == Answer(token, onAny(handler, token, <<token>>), sent.cells, sent.tpl)

Room == Len(handler.tokenBuf) < MaxBuffered
GiveNewline == Room /\ Answer(Nl, onNewline(handler), sent.cells, sent.tpl)
GiveSpace == Room /\ Give(Space)
GiveOther == \E t \in {Text, Comment, Meta, Category, "other"} : Give(t)

GiveTableStart ==
    /\ handler.wikiTableNesting < MaxNesting
    /\ \E retoks \in {<<Table>>, <<TableStart>>} :
          Answer(TableStart, onAny(handler, TableStart, retoks), sent.cells, sent.tpl)

GiveTable == sent.tables < MaxNesting /\ Give(Table)

GivePartEnd ==
    \E t \in {EndTable, EndCaption}, text \in ConvertedTo :
        /\ ~handler.atTopLevel => sent.tables > 0
        /\ Answer(t, onAny(handler, t, text), sent.cells, sent.tpl)

\* A cell, until its marker.
GivePart ==
    /\ Len(sent.cells) < MaxNesting
    /\ \E n \in DOMAIN Start, text \in ConvertedTo :
          LET r == onAny(handler, Start[n], text)
          IN  Answer(Start[n], r,
                     IF n \in Cells THEN Append(sent.cells, [name |-> n, kept |-> Contains(r.tokens, Start[n])])
                     ELSE sent.cells, sent.tpl)

GiveMarker ==
    /\ sent.cells # <<>>
    /\ LET marker == Marker[Last(sent.cells).name]
       IN  Answer(marker, onAny(handler, marker, <<marker>>), Front(sent.cells), sent.tpl)

GiveTemplateMark ==
    /\ Room
    /\ LET mark == IF sent.tpl THEN TplEnd ELSE TplStart
       IN  Answer(mark, onAny(handler, mark, <<mark>>), sent.cells, ~sent.tpl)

GiveEnd ==
    LET r == onAny(handler, EOFTk, <<EOFTk>>)
    IN  /\ handler' = onEnd(r.handler)
        /\ input' = <<EOFTk>>
        /\ output' = r.tokens
        /\ sent' = NothingSent

\* Before the handler is used for another page or a part of one.
resetState ==
    /\ input = <<EOFTk>>
    /\ \E top \in BOOLEAN : handler' = [handler EXCEPT !.atTopLevel = top]
    /\ input' = <<>> /\ output' = <<>>
    /\ UNCHANGED sent

Next ==
    \/ GiveNewline \/ GiveSpace \/ GiveOther \/ GiveTableStart \/ GiveTable \/ GivePart
    \/ GivePartEnd \/ GiveMarker \/ GiveTemplateMark \/ GiveEnd \/ resetState

Spec == Init /\ [][Next]_vars

-----------------------------------------------------------------------------
(* Properties *)

TypeOK ==
    /\ handler.sol \in BOOLEAN /\ handler.atTopLevel \in BOOLEAN /\ handler.wikiTableNesting \in Nat
    /\ handler.tokenBuf \in Seq({Nl, Space, TplStart})
    /\ handler.tokenBuf # <<>> => Head(handler.tokenBuf) = Nl
    /\ handler.lastConvertedTableCellToken # "none" => handler.wikiTableNesting = 0

\* On the page itself a part of a table is only ever emitted inside of one, as the
\* nesting that is counted is that of the tables emitted.
PartsInTables ==
    handler.atTopLevel => ~sent.outside /\ handler.wikiTableNesting = sent.tables

\* A marker is swallowed only if the cell it marks was: the source range of a cell
\* that is kept is not lost.
OwnMarker == input' \in {<<Marker[n]>> : n \in Cells} /\ output' = <<>> => ~Last(sent.cells).kept

MarkersOfCells == [][OwnMarker]_vars

\* But for parts of tables, and what becomes of them, everything comes out in
\* order, hidden in an mw:EmptyLine or not.
Shown(t) == IF t \in Range(EmptyLine) THEN CHOOSE u \in DOMAIN EmptyLine : EmptyLine[u] = t ELSE t

Content(tokens) ==
    SelectSeq([i \in 1..Len(tokens) |-> Shown(tokens[i])],
              LAMBDA t : t \notin Parts \cup Range(Marker) \cup {Table, TableStart, EndTable, EndCaption, "source", "nothing"})

OrderKept ==
    input' # <<>> => Content(handler.tokenBuf \o input') = Content(output' \o handler'.tokenBuf)

KeepsOrder == [][OrderKept]_vars

\* The end of the page leaves nothing in the handler for the next.
EndLeavesNothing == input = <<EOFTk>> => handler = NewHandler(handler.atTopLevel)
=============================================================================
