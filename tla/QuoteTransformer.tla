--------------------------- MODULE QuoteTransformer ---------------------------
(***************************************************************************)
(* lib/wt2html/tt/QuoteTransformer.js: from runs of two, three and five    *)
(* apostrophes to tags for italic and bold.  From the first run of a line  *)
(* on the handler takes all tokens into chunks; at the end of the line it  *)
(* turns one bold run into an apostrophe and an italic one if that makes   *)
(* both even, replaces the runs by tags, and gives all the tokens back.    *)
(*                                                                         *)
(* A text is known by how it ends: in a space, in a word of one letter, or *)
(* otherwise.  Source ranges are kept as the widths they add up to.        *)
(***************************************************************************)
EXTENDS Integers, SequencesExt, FiniteSetsExt

CONSTANTS
    Texts,      \* what stands between the quotes: "space", "single", "multi" or "td"
    MaxQuotes   \* bound: quotes of a line

VARIABLES
    isActive, chunks, currentChunk,   \* the fields of the handler
    transforms,   \* what it is registered for besides quotes
    line,         \* the tokens of this line so far
    result        \* what the end of the last line returned: see processQuotes

vars == <<isActive, chunks, currentChunk, transforms, line, result>>

-----------------------------------------------------------------------------
(* Tokens *)

Quote(qlen) == [type |-> "mw-quote", name |-> "none", qlen |-> qlen]
\* "td" is a cell written in HTML, which does not end a line.
Text(how)   == [type |-> IF how = "td" THEN "TagTk" ELSE "String", name |-> how, qlen |-> 0]
Apostrophe  == [type |-> "String", name |-> "apostrophe", qlen |-> 0]
EndOfLine   == [type |-> "NlTk", name |-> "none", qlen |-> 0]
TagTk(n)    == [type |-> "TagTk", name |-> n, qlen |-> 0]
EndTagTk(n) == [type |-> "EndTagTk", name |-> n, qlen |-> 0]

Other(n) == IF n = "b" THEN "i" ELSE "b"
Width(n) == IF n = "b" THEN 3 ELSE 2

\* The end of a line, of a cell of a wikitext table, and of the page.
LineEnds == {"newline", "td", "th", "end"}

-----------------------------------------------------------------------------
(* Balancing *)

QuoteAt(cs, i) == cs[i][1].qlen
QuoteChunks(cs) == {i \in 1..Len(cs) : i % 2 = 0}
Count(cs, lengths) == Cardinality({i \in QuoteChunks(cs) : QuoteAt(cs, i) \in lengths})

\* Mistake: a run of five is not counted as italic.
UnbalancedNoFive(cs) == Count(cs, {2}) % 2 = 1 /\ Count(cs, {3, 5}) % 2 = 1

Unbalanced(cs) == Count(cs, {2, 5}) % 2 = 1 /\ Count(cs, {3, 5}) % 2 = 1

\* How the text before a bold quote ends; what is not text counts as a word.
\* An empty chunk has no last token to look at: the code throws.
Ending(cs, i) ==
    IF cs[i-1] = <<>> THEN "none"
    ELSE IF Last(cs[i-1]).type = "String" /\ Last(cs[i-1]).name \in {"space", "single"}
         THEN Last(cs[i-1]).name ELSE "multi"

BoldAfter(cs, how) == {i \in QuoteChunks(cs) : QuoteAt(cs, i) = 3 /\ Ending(cs, i) = how}

\* The search stops at the first word of one letter.
Looked(cs) ==
    {i \in QuoteChunks(cs) : QuoteAt(cs, i) = 3 /\ \A j \in BoldAfter(cs, "single") : i <= j}
Throws(cs) == Unbalanced(cs) /\ \E i \in Looked(cs) : Ending(cs, i) = "none"

convertBold(cs, i) ==
    [cs EXCEPT ![i-1] = Append(@, Apostrophe), ![i] = <<Quote(2)>>]

Balance(cs) ==
    LET first(how) == Min(BoldAfter(cs, how))
    IN  IF ~Unbalanced(cs) THEN cs
        ELSE IF BoldAfter(cs, "single") # {} THEN convertBold(cs, first("single"))
        ELSE IF BoldAfter(cs, "multi") # {} THEN convertBold(cs, first("multi"))
        ELSE IF BoldAfter(cs, "space") # {} THEN convertBold(cs, first("space"))
        ELSE cs

-----------------------------------------------------------------------------
(***************************************************************************)
(* Conversion.  The state of the PHP parser's machine is the tags that are *)
(* open, outermost first, or <<"both">> after a run of five that opens     *)
(* both in an order not yet known: the chunk at lastboth.  `last` is the   *)
(* open tag last seen of each name, or FALSE.                              *)
(***************************************************************************)
Conversion(cs) ==
    [chunks |-> cs, state |-> <<>>, lastboth |-> 0,
     last |-> [n \in {"b", "i"} |-> FALSE],
     missing |-> FALSE,   \* a tag was to be marked that is not there
     misplaced |-> FALSE] \* the widths of tags do not add up to their quote's

\* Mistake: the first tag of a name counts, not the last.
quoteToTagFirst(c, i, tags, bogus) ==
    LET sourced == {j \in 1..Len(tags) : bogus => j = 2}
    IN  [c EXCEPT
           !.chunks[i] = tags,
           !.last = [n \in {"b", "i"} |->
                       LET of == {j \in 1..Len(tags) : tags[j].name = n}
                       IN  IF of = {} THEN @[n] ELSE tags[Min(of)].type = "TagTk"],
           !.missing = @ \/ (bogus /\ ~c.last[tags[1].name]),
           !.misplaced = @ \/ MapThenSumSet(LAMBDA j : Width(tags[j].name), sourced)
                                 # QuoteAt(c.chunks, i)]

\* `bogus`: the first and the last of three tags have no source of their own.
quoteToTag(c, i, tags, bogus) ==
    LET sourced == {j \in 1..Len(tags) : bogus => j = 2}
    IN  [c EXCEPT
           !.chunks[i] = tags,
           !.last = [n \in {"b", "i"} |->
                       LET of == {j \in 1..Len(tags) : tags[j].name = n}
                       IN  IF of = {} THEN @[n] ELSE tags[Max(of)].type = "TagTk"],
           !.missing = @ \/ (bogus /\ ~c.last[tags[1].name]),
           !.misplaced = @ \/ MapThenSumSet(LAMBDA j : Width(tags[j].name), sourced)
                                 # QuoteAt(c.chunks, i)]

\* Mistake: an overlap is not undone.
OneOverlaps(c, i, x) ==
    LET y == Other(x)
    IN  CASE c.state = <<"both">> ->
               [quoteToTag(quoteToTag(c, c.lastboth, <<TagTk(y), TagTk(x)>>, FALSE),
                           i, <<EndTagTk(x)>>, FALSE) EXCEPT !.state = <<y>>]
          [] c.state \in {<<x>>, <<y, x>>, <<x, y>>} ->
               [quoteToTag(c, i, <<EndTagTk(x)>>, FALSE) EXCEPT !.state = SelectSeq(@, LAMBDA n : n # x)]
          [] OTHER ->
               [quoteToTag(c, i, <<TagTk(x)>>, FALSE) EXCEPT !.state = Append(@, x)]

\* A quote of two (x is "i") or of three (x is "b").
One(c, i, x) ==
    LET y == Other(x)
    IN  CASE c.state = <<"both">> ->
               [quoteToTag(quoteToTag(c, c.lastboth, <<TagTk(y), TagTk(x)>>, FALSE),
                           i, <<EndTagTk(x)>>, FALSE) EXCEPT !.state = <<y>>]
          [] c.state = <<x, y>> ->
               [quoteToTag(c, i, <<EndTagTk(y), EndTagTk(x), TagTk(y)>>, TRUE) EXCEPT !.state = <<y>>]
          [] c.state \in {<<x>>, <<y, x>>} ->
               [quoteToTag(c, i, <<EndTagTk(x)>>, FALSE) EXCEPT !.state = Front(@)]
          [] OTHER ->
               [quoteToTag(c, i, <<TagTk(x)>>, FALSE) EXCEPT !.state = Append(@, x)]

Five(c, i) ==
    CASE c.state = <<>> -> [c EXCEPT !.state = <<"both">>, !.lastboth = i]
      [] c.state = <<"both">> ->
           [quoteToTag(quoteToTag(c, c.lastboth, <<TagTk("i"), TagTk("b")>>, FALSE),
                       i, <<EndTagTk("b"), EndTagTk("i")>>, FALSE) EXCEPT !.state = <<>>]
      [] c.state \in {<<"b">>, <<"i">>} ->
           LET x == c.state[1]
           IN  [quoteToTag(c, i, <<EndTagTk(x), TagTk(Other(x))>>, FALSE) EXCEPT !.state = <<Other(x)>>]
      [] OTHER ->
           [quoteToTag(c, i, <<EndTagTk(c.state[2]), EndTagTk(c.state[1])>>, FALSE) EXCEPT !.state = <<>>]

Convert(c, i) ==
    CASE QuoteAt(c.chunks, i) = 2 -> One(c, i, "i")
      [] QuoteAt(c.chunks, i) = 3 -> One(c, i, "b")
      [] QuoteAt(c.chunks, i) = 5 -> Five(c, i)

\* What is still open is closed at the end of the line, the innermost first.
CloseRemaining(c) ==
    LET d == IF c.state = <<"both">>
             THEN [quoteToTag(c, c.lastboth, <<TagTk("b"), TagTk("i")>>, FALSE)
                     EXCEPT !.state = <<"b", "i">>]
             ELSE c
        ends == Reverse([k \in 1..Len(d.state) |-> EndTagTk(d.state[k])])
    IN  [closing |-> ends, chunks |-> d.chunks, misplaced |-> d.misplaced,
         missing |-> d.missing \/ \E k \in 1..Len(d.state) : ~d.last[d.state[k]]]

convertQuotesToTags(cs) ==
    CloseRemaining(FoldLeft(Convert, Conversion(cs), [k \in 1..(Len(cs) \div 2) |-> 2 * k]))

-----------------------------------------------------------------------------
(* The handler *)

NoResult == [tokens |-> <<>>, closing |-> <<>>, missing |-> FALSE,
             misplaced |-> FALSE, threw |-> FALSE]

Init ==
    /\ isActive = FALSE
    /\ chunks = <<>>
    /\ currentChunk = <<>>
    /\ transforms = {}
    /\ line = <<>>
    /\ result = NoResult

\* The line has been read, or the exception has ended the page.
Ended == result # NoResult

QuotesIn(toks) == Cardinality({i \in 1..Len(toks) : toks[i].type = "mw-quote"})

onQuote ==
    /\ ~Ended
    /\ QuotesIn(line) < MaxQuotes
    /\ \E qlen \in {2, 3, 5} :
          /\ line' = Append(line, Quote(qlen))
          /\ LET chunk == IF isActive THEN currentChunk
                          ELSE IF line = <<>> THEN <<EndOfLine>> ELSE <<Last(line)>>
             IN  chunks' = chunks \o <<chunk, <<Quote(qlen)>>>>
    /\ currentChunk' = <<>>
    /\ isActive' = TRUE
    /\ transforms' = LineEnds \cup {"any"}
    /\ UNCHANGED result

\* A text, or a tag that does not end a line; one is enough between quotes.
onAny ==
    /\ ~Ended
    /\ IF line = <<>> THEN TRUE ELSE Last(line).type = "mw-quote"
    /\ \E how \in Texts :
          /\ line' = Append(line, Text(how))
          /\ currentChunk' = IF "any" \in transforms THEN Append(currentChunk, Text(how)) ELSE currentChunk
    /\ UNCHANGED <<isActive, chunks, transforms, result>>

\* Mistake: the token before the first quote is given back again.
ConvertedKeepsPrevious ==
    LET res == convertQuotesToTags(Balance(chunks))
        all == res.chunks \o <<currentChunk \o res.closing \o <<EndOfLine>>>>
    IN  [tokens |-> FlattenSeq(all), closing |-> res.closing,
         missing |-> res.missing, misplaced |-> res.misplaced, threw |-> FALSE]

\* The end of the line.  The chunk before the first quote holds the token
\* before it, which was not the handler's: it is dropped.
Converted ==
    LET res == convertQuotesToTags(Balance(chunks))
        all == res.chunks \o <<currentChunk \o res.closing \o <<EndOfLine>>>>
    IN  [tokens |-> Tail(FlattenSeq(all)), closing |-> res.closing,
         missing |-> res.missing, misplaced |-> res.misplaced, threw |-> FALSE]

\* Mistake: the transform for any token stays registered.
processQuotesKeepsAny ==
    /\ isActive
    /\ ~result.threw
    /\ LineEnds \subseteq transforms
    /\ UNCHANGED line
    /\ IF Throws(chunks)
       THEN /\ result' = [NoResult EXCEPT !.threw = TRUE]
            /\ UNCHANGED <<isActive, chunks, currentChunk, transforms>>
       ELSE /\ result' = Converted
            /\ isActive' = FALSE
            /\ chunks' = <<>>
            /\ currentChunk' = <<>>
            /\ transforms' = {"any"}

processQuotes ==
    /\ isActive
    /\ ~result.threw
    /\ LineEnds \subseteq transforms
    /\ UNCHANGED line
    /\ IF Throws(chunks)
       THEN /\ result' = [NoResult EXCEPT !.threw = TRUE]
            /\ UNCHANGED <<isActive, chunks, currentChunk, transforms>>
       ELSE /\ result' = Converted
            /\ isActive' = FALSE
            /\ chunks' = <<>>
            /\ currentChunk' = <<>>
            /\ transforms' = {}

\* Another line.
NextLine ==
    /\ ~isActive
    /\ line # <<>>
    /\ line' = <<>>
    /\ result' = NoResult
    /\ UNCHANGED <<isActive, chunks, currentChunk, transforms>>

Next == onQuote \/ onAny \/ processQuotes \/ NextLine

Spec == Init /\ [][Next]_vars

-----------------------------------------------------------------------------
(***************************************************************************)
(* Properties                                                              *)
(***************************************************************************)

Converts == result.tokens # <<>>

TypeOK ==
    /\ isActive \in BOOLEAN
    /\ isActive <=> transforms # {}
    /\ transforms \subseteq LineEnds \cup {"any"}
    /\ Len(chunks) % 2 = 0
    /\ \A i \in QuoteChunks(chunks) : Len(chunks[i]) = 1 /\ QuoteAt(chunks, i) \in {2, 3, 5}

IsFormat(t) == t.name \in {"b", "i"}

\* The tags open after the tokens, innermost last; or <<"bad">> from the first
\* end tag on that is not that of the innermost.
OpenAfter(toks) ==
    FoldLeft(LAMBDA open, t :
                 CASE ~IsFormat(t) \/ open = <<"bad">> -> open
                   [] IsFormat(t) /\ t.type = "TagTk" -> Append(open, t.name)
                   [] OTHER -> IF open # <<>> /\ Last(open) = t.name THEN Front(open) ELSE <<"bad">>,
             <<>>, toks)

(***************************************************************************)
(* Whatever the quotes of a line, its tags nest and none is left open: the *)
(* tree builder never sees formatting cross a line.                        *)
(***************************************************************************)
Nested == Converts => OpenAfter(result.tokens) = <<>>

(***************************************************************************)
(* What is between the quotes comes out unchanged and in order, and every  *)
(* apostrophe of the source is in a tag that has a source or in the text;  *)
(* the assertion of quoteToTag never fails.  Tags that close what the line *)
(* left open, and those inserted around an overlap, have none.             *)
(***************************************************************************)
KeepsText ==
    Converts =>
        /\ ~result.misplaced
        /\ LET kept == SelectSeq(Front(result.tokens),
                               LAMBDA t : ~IsFormat(t) /\ t # Apostrophe)
               was(t) == t.type # "mw-quote"
           IN  kept = SelectSeq(IF was(line[1]) /\ Len(line) > 1 THEN Tail(line) ELSE line, was)

(***************************************************************************)
(* A tag is marked as closed by the handler only when there is such a tag: *)
(* `this.last` is never null where it is written to.                       *)
(***************************************************************************)
MarksOpenTags == ~result.missing

(***************************************************************************)
(* The handler closes no more than the source forces it to: bold if the    *)
(* bold quotes are odd, italic if the italic are; and neither if both are  *)
(* odd and there is a bold quote of its own to give an apostrophe up.      *)
(***************************************************************************)
ClosesOnlyOdd ==
    LET odd(lengths) == Cardinality({i \in 1..Len(line) : line[i].qlen \in lengths}) % 2 = 1
        both == odd({2, 5}) /\ odd({3, 5})
        given == both /\ \E i \in 1..Len(line) : line[i].qlen = 3
    IN  Converts =>
            ToSet(result.closing) =
                {EndTagTk(n) : n \in (IF given THEN {}
                                      ELSE (IF odd({2, 5}) THEN {"i"} ELSE {})
                                           \cup (IF odd({3, 5}) THEN {"b"} ELSE {}))}
=============================================================================
