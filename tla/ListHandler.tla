----------------------------- MODULE ListHandler -----------------------------
(***************************************************************************)
(* lib/wt2html/tt/ListHandler.js: the stage that turns the bullets of      *)
(* wikitext list items into list and item tags.  It holds back newlines    *)
(* and what is transparent to them until it knows whether the list goes    *)
(* on, and keeps a frame per list: a table inside a list item starts on a  *)
(* stack of frames of its own.                                             *)
(*                                                                         *)
(* A token is its type and, for a tag, its name; of names only those that  *)
(* the handler tells apart are used.  Source ranges are left out.          *)
(***************************************************************************)
EXTENDS Integers, SequencesExt

CONSTANTS
    Bullets,    \* the bullets of the list items of the page
    MaxTables,  \* bound: tables open at once
    MaxTags,    \* bound: block tags, and inline tags, open at once in a list item
    MaxHeld,    \* bound: tokens held back before another transparent one comes
    Miscounts   \* whether the page has what the handler miscounts tables for: see Miscounted

VARIABLES
    handler,  \* the fields of the handler: see NewHandler
    input,    \* the token it was last given
    output,   \* the tokens it returned for it
    open,     \* list and table tags opened and not closed in all it returned
    tables,   \* tables open in the input
    nested    \* every list and table tag it closed was the last one opened

vars == <<handler, input, output, open, tables, nested>>

-----------------------------------------------------------------------------
(* Tokens *)

Token(type, name) == [type |-> type, name |-> name, bullets |-> <<>>]

TagTk(name) == Token("TagTk", name)
EndTagTk(name) == Token("EndTagTk", name)
Text  == Token("String", "none")
NlTk  == Token("NlTk", "none")
SolTk == Token("CommentTk", "none")  \* transparent to the start of a line
EOFTk == Token("EOFTk", "none")
ListItem(bullets) == [type |-> "listItem", name |-> "none", bullets |-> bullets]

BlockTags == {"div"}
ListTags  == {"ul", "ol", "dl", "li", "dt", "dd"}

listOf == [b \in {"*", "#", ";", ":"} |->
             CASE b = "*" -> "ul" [] b = "#" -> "ol" [] OTHER -> "dl"]
itemOf == [b \in {"*", "#", ";", ":"} |->
             CASE b = ";" -> "dt" [] b = ":" -> "dd" [] OTHER -> "li"]

Tags(names) == [i \in 1..Len(names) |-> TagTk(names[i])]
EndTags(names) == [i \in 1..Len(names) |-> EndTagTk(names[i])]

-----------------------------------------------------------------------------
(* The state of the handler *)

newListFrame ==
    [atEOL |-> TRUE, nlTk |-> <<>>, solTokens |-> <<>>, bstack |-> <<>>,
     endtags |-> <<>>, numOpenBlockTags |-> 0, numOpenTags |-> 0]

\* currListFrame: one frame, or none.
NewHandler == [currListFrame |-> <<>>, listFrames |-> <<>>, nestedTableCount |-> 0, any |-> FALSE]

Frame(h) == h.currListFrame[1]

\* What the frame holds back.
Held(f) == f.solTokens \o f.nlTk

\* What a method returns, with the new state.
Ret(h, tokens) == [h |-> h, tokens |-> tokens]

WithFrame(h, f) == [h EXCEPT !.currListFrame = <<f>>]

-----------------------------------------------------------------------------
(* List items *)

commonPrefixLength(x, y) == Len(LongestCommonPrefix({x, y}))

\* The end tags of the n innermost lists and their items, as popTags returns them.
popTags(f, n) == EndTags(Reverse(SubSeq(f.endtags, Len(f.endtags) - 2 * n + 1, Len(f.endtags))))

Popped(f, n) == SubSeq(f.endtags, 1, Len(f.endtags) - 2 * n)

\* The tags that pushList opens for the bullets.
ListNames(bullets) ==
    [i \in 1..2 * Len(bullets) |-> IF i % 2 = 1 THEN listOf[bullets[(i + 1) \div 2]]
                                   ELSE itemOf[bullets[i \div 2]]]

isDtDd(a, b) == {a, b} = {":", ";"}

\* No nesting change: the item is closed and another one opened.
SameNesting(f, bn) ==
    LET item == Last(f.endtags)
    IN  [endtags |-> f.endtags, tokens |-> <<EndTagTk(item)>> \o Held(f) \o <<TagTk(item)>>]

\* Mistake: the end tag of the item that is closed stays on the stack.
DtDdTransitionKeepsEnd(f, bn, prefix) ==
    LET levels  == Len(f.bstack) - prefix - 1
        left    == Popped(f, levels)
        newName == itemOf[bn[prefix + 1]]
        more    == ListNames(SubSeq(bn, prefix + 2, Len(bn)))
    IN  [endtags |-> Append(left, newName) \o more,
         tokens  |-> f.solTokens \o popTags(f, levels) \o <<EndTagTk(Last(left))>>
                       \o f.nlTk \o <<TagTk(newName)>> \o Tags(more)]

\* A dt becomes a dd, or the reverse, in the same dl.
DtDdTransition(f, bn, prefix) ==
    LET levels  == Len(f.bstack) - prefix - 1
        left    == Popped(f, levels)
        newName == itemOf[bn[prefix + 1]]
        more    == ListNames(SubSeq(bn, prefix + 2, Len(bn)))
    IN  [endtags |-> Append(Front(left), newName) \o more,
         tokens  |-> f.solTokens \o popTags(f, levels) \o <<EndTagTk(Last(left))>>
                       \o f.nlTk \o <<TagTk(newName)>> \o Tags(more)]

\* Mistake: the item of the shared prefix is not closed.
OtherNestingKeepsItem(f, bn, prefix) ==
    LET levels == Len(f.bstack) - prefix
        left   == Popped(f, levels)
        more   == ListNames(SubSeq(bn, prefix + 1, Len(bn)))
        again  == IF prefix > 0 /\ Len(bn) = prefix THEN <<TagTk(Last(left))>> ELSE <<>>
    IN  [endtags |-> left \o more,
         tokens  |-> f.solTokens \o popTags(f, levels) \o f.nlTk \o again \o Tags(more)]

\* The lists below the shared prefix are closed, and new ones opened.
OtherNesting(f, bn, prefix) ==
    LET levels == Len(f.bstack) - prefix
        left   == Popped(f, levels)
        more   == ListNames(SubSeq(bn, prefix + 1, Len(bn)))
        again  == IF prefix > 0 /\ Len(bn) = prefix
                    THEN <<EndTagTk(Last(left)), TagTk(Last(left))>> ELSE <<>>
    IN  [endtags |-> left \o more,
         tokens  |-> f.solTokens \o popTags(f, levels) \o f.nlTk \o again \o Tags(more)]

doListItem(h, f, bn) ==
    LET bs     == f.bstack
        prefix == commonPrefixLength(bs, bn)
        res    == IF prefix = Len(bs) /\ Len(bn) = Len(bs) THEN SameNesting(f, bn)
                  ELSE IF /\ Len(bs) > prefix /\ Len(bn) > prefix
                          /\ isDtDd(bs[prefix + 1], bn[prefix + 1])
                         THEN DtDdTransition(f, bn, prefix)
                  ELSE OtherNesting(f, bn, prefix)
    IN  Ret([WithFrame(h, [f EXCEPT !.bstack = bn, !.endtags = res.endtags, !.solTokens = <<>>,
                                    !.nlTk = <<>>, !.atEOL = FALSE])
               EXCEPT !.any = @ \/ (bs = <<>> /\ h.listFrames = <<>>)],
            res.tokens)

-----------------------------------------------------------------------------
(* closeLists, onEnd and onAny *)

\* Mistake: what was held back is dropped.
closeListsDrops(h, token) ==
    Ret([h EXCEPT !.currListFrame = <<>>, !.any = @ /\ h.listFrames # <<>>],
        popTags(Frame(h), Len(Frame(h).bstack)) \o <<token>>)

closeLists(h, token) ==
    Ret([h EXCEPT !.currListFrame = <<>>, !.any = @ /\ h.listFrames # <<>>],
        popTags(Frame(h), Len(Frame(h).bstack)) \o Held(Frame(h)) \o <<token>>)

\* Mistake: the handler keeps its stack of frames.
onEndKeepsFrames(h, token) ==
    LET h1  == IF h.currListFrame = <<>> THEN WithFrame(h, newListFrame) ELSE h
        res == closeLists(h1, token)
    IN  Ret([res.h EXCEPT !.nestedTableCount = 0], res.tokens)

onEnd(h, token) ==
    LET h1  == IF h.currListFrame = <<>> THEN WithFrame(h, newListFrame) ELSE h
        res == closeLists([h1 EXCEPT !.listFrames = <<>>], token)
    IN  Ret([res.h EXCEPT !.nestedTableCount = 0], res.tokens)

\* The frame on top of the stack becomes the current one.
PopFrame(h) ==
    IF h.listFrames = <<>> THEN [h EXCEPT !.currListFrame = <<>>]
    ELSE [h EXCEPT !.currListFrame = <<Last(h.listFrames)>>, !.listFrames = Front(@)]

\* Mistake: the table's tag does not push the frame.
PushFrameNot(h) == h

PushFrame(h) == [h EXCEPT !.listFrames = Append(@, Frame(h)), !.currListFrame = <<>>]

\* "currListFrame will be null only when we are in a table that in turn was seen
\* in a list context."
AnyInTable(h, token) ==
    Ret(IF token = EndTagTk("table")
          THEN IF h.nestedTableCount = 0 THEN PopFrame(h)
               ELSE [h EXCEPT !.nestedTableCount = @ - 1]
        ELSE IF token = TagTk("table") THEN [h EXCEPT !.nestedTableCount = @ + 1]
        ELSE h,
        <<token>>)

\* The count of open tags, for colons.
CountTags(f, token) ==
    IF token.type = "TagTk" /\ token.name # "table" THEN [f EXCEPT !.numOpenTags = @ + 1]
    ELSE IF token.type = "EndTagTk" /\ f.numOpenTags > 0 THEN [f EXCEPT !.numOpenTags = @ - 1]
    ELSE f

\* An end tag of a table, or of another block.
AnyBlockEnd(h, token) ==
    IF token.name = "table"
      THEN LET res == closeLists(h, token) IN Ret(PopFrame(res.h), res.tokens)
    ELSE IF Frame(h).numOpenBlockTags = 0 THEN closeLists(h, token)
    ELSE Ret(WithFrame(h, [Frame(h) EXCEPT !.numOpenBlockTags = @ - 1]), <<token>>)

\* At the start of a line: what is transparent is held back, all else closes the
\* lists.
AnyAtEOL(h, token) ==
    IF token = SolTk
      THEN Ret(WithFrame(h, [Frame(h) EXCEPT !.solTokens = @ \o Frame(h).nlTk \o <<token>>,
                                             !.nlTk = <<>>]),
               <<>>)
    ELSE closeLists(h, token)

AnyInLine(h, token) ==
    CASE token = NlTk ->
           Ret(WithFrame(h, [Frame(h) EXCEPT !.atEOL = TRUE, !.nlTk = <<token>>, !.numOpenTags = 0]),
               <<>>)
      [] token = TagTk("table") -> Ret(PushFrame(h), <<token>>)
      [] token.type = "TagTk" /\ token.name \in BlockTags ->
           Ret(WithFrame(h, [Frame(h) EXCEPT !.numOpenBlockTags = @ + 1]), <<token>>)
      [] OTHER -> Ret(h, <<token>>)

AnyInList(h, token) ==
    IF token.type = "EndTagTk" /\ token.name \in BlockTags \cup {"table"} THEN AnyBlockEnd(h, token)
    ELSE IF Frame(h).atEOL THEN AnyAtEOL(h, token)
    ELSE AnyInLine(h, token)

onAny(h, token) ==
    IF h.currListFrame = <<>> THEN AnyInTable(h, token)
    ELSE AnyInList(WithFrame(h, CountTags(Frame(h), token)), token)

\* Colons inside tags are text.
onListItem(h, token) ==
    IF h.currListFrame = <<>> THEN doListItem(h, newListFrame, token.bullets)
    ELSE IF Last(token.bullets) = ":" /\ Frame(h).numOpenTags > 0 THEN onAny(h, Text)
    ELSE doListItem(h, Frame(h), token.bullets)

\* The transforms registered for a token.
Transform(h, token) ==
    CASE token.type = "listItem" -> onListItem(h, token)
      [] token = EOFTk -> onEnd(h, token)
      [] OTHER -> IF h.any THEN onAny(h, token) ELSE Ret(h, <<token>>)

-----------------------------------------------------------------------------
(* The page *)

\* The tags a consumer has open after the token.
Structural(token) == token.name \in ListTags \cup {"table"}

Consume(tags, token) ==
    IF token.type = "TagTk" /\ Structural(token) THEN [tags EXCEPT !.open = Append(@, token.name)]
    ELSE IF token.type = "EndTagTk" /\ Structural(token)
      THEN IF tags.open # <<>> /\ Last(tags.open) = token.name
             THEN [tags EXCEPT !.open = Front(@)] ELSE [tags EXCEPT !.nested = FALSE]
    ELSE tags

Init ==
    /\ handler = NewHandler
    /\ input = EOFTk /\ output = <<>>
    /\ open = <<>> /\ tables = 0 /\ nested = TRUE

\* A page that leaves tables open has ended.
Ended == input = EOFTk /\ tables > 0

\* In a table of a list item: an item in a table nested in it, and a table after a
\* list in it, which is not counted as the list is closed.  The end of either table
\* is taken for that of the outer one.
Miscounted(token) ==
    \/ token.type = "listItem" /\ handler.nestedTableCount > 0
    \/ /\ token = TagTk("table") /\ handler.listFrames # <<>>
       /\ handler.currListFrame # <<>> /\ Frame(handler).atEOL

Give(token) ==
    LET res  == Transform(handler, token)
        tags == FoldLeft(Consume, [open |-> open, nested |-> nested], res.tokens)
    IN  /\ ~Ended
        /\ Miscounted(token) => Miscounts
        /\ handler' = res.h
        /\ input' = token /\ output' = res.tokens
        /\ open' = tags.open /\ nested' = tags.nested

\* Tokens of a page that closes no table it has not opened.
GiveItem == \E b \in Bullets : Give(ListItem(b)) /\ UNCHANGED tables
GiveText == \E t \in {Text, NlTk} : Give(t) /\ UNCHANGED tables

GiveSol ==
    /\ handler.currListFrame # <<>> => Len(Held(Frame(handler))) < MaxHeld
    /\ Give(SolTk)
    /\ UNCHANGED tables

Room(field) == IF handler.currListFrame = <<>> THEN TRUE ELSE Frame(handler)[field] < MaxTags

GiveTag ==
    /\ \/ Room("numOpenTags") /\ Room("numOpenBlockTags") /\ \E n \in {"div", "b"} : Give(TagTk(n))
       \/ \E n \in {"div", "b"} : Give(EndTagTk(n))
    /\ UNCHANGED tables

GiveTable ==
    \/ tables < MaxTables /\ Give(TagTk("table")) /\ tables' = tables + 1
    \/ tables > 0 /\ Give(EndTagTk("table")) /\ tables' = tables - 1

GiveEnd == Give(EOFTk) /\ UNCHANGED tables

\* The same handler is given another page.
NewPage == Ended /\ tables' = 0 /\ open' = <<>> /\ UNCHANGED <<handler, input, output, nested>>

Next == GiveItem \/ GiveText \/ GiveSol \/ GiveTag \/ GiveTable \/ GiveEnd \/ NewPage

Spec == Init /\ [][Next]_vars

-----------------------------------------------------------------------------
(* Properties *)

Frames == Range(handler.listFrames) \cup Range(handler.currListFrame)

\* The frames, and the number of end tags each keeps for its bullets.
TypeOK ==
    /\ Len(handler.currListFrame) <= 1
    /\ handler.nestedTableCount \in Nat /\ handler.any \in BOOLEAN
    /\ \A f \in Frames :
          /\ Len(f.endtags) = 2 * Len(f.bstack) /\ f.bstack # <<>>
          /\ Range(f.endtags) \subseteq ListTags
          /\ {f.numOpenTags, f.numOpenBlockTags} \subseteq Nat
          /\ f.atEOL \in BOOLEAN /\ f.nlTk \in {<<>>, <<NlTk>>} /\ f.solTokens \in Seq({NlTk, SolTk})
    /\ open \in Seq(ListTags \cup {"table"}) /\ nested \in BOOLEAN

\* Lists and tables are closed in the reverse order they were opened, whatever
\* lists, tables and unbalanced tags of blocks follow each other.
WellNested == nested

\* The end of the page closes every list, unless a table was left open around
\* one, and leaves the handler as new for the next page.
EndCloses == input = EOFTk => handler = NewHandler /\ (tables = 0 => open = <<>>)

\* ListHandler.js:81: "Table tokens will push the frame and remain balanced": the
\* frame of a list whose item has an open table in it is on the stack.
FramesStayPushed ==
    ~Ended /\ (\E i, j \in 1..Len(open) : i < j /\ open[i] \in ListTags /\ open[j] = "table")
        => handler.listFrames # <<>>

\* The end tags that the frames wait to emit are those of the list tags the
\* consumer has open, innermost last, and no others.
FramesAreOpen ==
    LET frames == handler.listFrames \o handler.currListFrame
    IN  ~Ended => SelectSeq(open, LAMBDA n : n \in ListTags)
                    = FlattenSeq([i \in 1..Len(frames) |-> frames[i].endtags])

\* Without its bullets, and what they become, the page is passed on unchanged
\* and in order: what is held back follows what came before it and precedes what
\* comes after.  Two tokens are exceptions: a colon inside a tag becomes text,
\* and the end tag of a block that was opened in the item overtakes what is
\* held back.
HeldBack(h) ==
    FlattenSeq([i \in 1..Len(h.listFrames) |-> Held(h.listFrames[i])])
      \o (IF h.currListFrame = <<>> THEN <<>> ELSE Held(Frame(h)))

Content(tokens) == SelectSeq(tokens, LAMBDA t : t.type # "listItem" /\ t.name \notin ListTags)

OrderKept ==
    \/ Ended
    \/ HeldBack(handler) \o Content(<<input'>>) = Content(output') \o HeldBack(handler')
    \/ input'.type = "listItem" /\ output' = <<Text>>
    \/ /\ input'.type = "EndTagTk" /\ input'.name \in BlockTags
       /\ output' = <<input'>> /\ HeldBack(handler') = HeldBack(handler)

KeepsOrder == [][OrderKept]_vars

-----------------------------------------------------------------------------
(* For TLC: a list of one level, and of two.                                 *)

JustLists == {<<"*">>, <<":", "*">>}
=============================================================================
