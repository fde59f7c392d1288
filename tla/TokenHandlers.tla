----------------------------- MODULE TokenHandlers -----------------------------
(***************************************************************************)
(* The handlers of the synchronous token stages.  Those of the last stage, *)
(* in the order the manager calls them, are TokenStreamPatcher, PreHandler, *)
(* QuoteTransformer, ListHandler and ParagraphWrapper: each holds tokens   *)
(* back until it knows what a line is, and what they promise together is   *)
(* that the page comes out in order and well nested.  The first stage has  *)
(* those of the include tags.  A behaviour is one of one handler (or of    *)
(* the include tags together), `stage`, for every input the stages before  *)
(* may give it.                                                            *)
(***************************************************************************)
EXTENDS Integers, Sequences

CONSTANTS
    Bullets, Texts,                  \* the bullets of list items, texts between quotes
    MaxTables, MaxTags, MaxListHeld, \* bounds of ListHandler
    MaxQuotes,                       \* bound of QuoteTransformer
    MaxPreHeld,                      \* bound of PreHandler
    MaxLine, MaxLinesHeld, MaxNewlines,  \* bounds of ParagraphWrapper
    MaxBuffered, MaxNesting,         \* bounds of TokenStreamPatcher
    IncludeTags, MaxTokens, MaxUnclosed  \* bounds of IncludeHandlers

ASSUME TokenHandlersAssumption ==
    /\ Bullets \subseteq (Seq({"*", "#", ";", ":"}) \ {<<>>})
    /\ Texts \subseteq {"space", "single", "multi", "td"}
    /\ {MaxTables, MaxTags, MaxListHeld, MaxQuotes, MaxPreHeld, MaxLine, MaxLinesHeld,
        MaxNewlines, MaxBuffered, MaxNesting, MaxTokens, MaxUnclosed} \subseteq Nat
    /\ IncludeTags \subseteq {"TagTk", "EndTagTk", "SelfclosingTagTk"}
                        \X {"noinclude", "includeonly", "onlyinclude"}

VARIABLES
    stage,                     \* the handler of this behaviour
    handler, input, output,    \* its fields, what it was given and what it returned
    open, tables, nested,      \* of ListHandler
    called,                    \* of PreHandler
    sent,                      \* of TokenStreamPatcher and ParagraphWrapper
    isActive, chunks, currentChunk, transforms, line, result, \* of QuoteTransformer
    workStack, transformers    \* of SyncTTM with the include tags

fields == <<handler, input, output>>
listVars == <<open, tables, nested>>
quoteVars == <<isActive, chunks, currentChunk, transforms, line, result>>
stageVars == <<workStack, transformers>>
vars == <<stage, fields, listVars, called, sent, quoteVars, stageVars>>

List == INSTANCE ListHandler WITH MaxHeld <- MaxListHeld, Miscounts <- FALSE
Quotes == INSTANCE QuoteTransformer
Pre == INSTANCE PreHandler WITH MaxHeld <- MaxPreHeld
Paragraph == INSTANCE ParagraphWrapper WITH MaxHeld <- MaxLinesHeld
Patcher == INSTANCE TokenStreamPatcher
Include == INSTANCE IncludeHandlers WITH page <- input, handlers <- handler

-----------------------------------------------------------------------------
NoFields == handler = <<>> /\ input = <<>> /\ output = <<>>
NoList == open = <<>> /\ tables = 0 /\ nested = TRUE
NoQuotes ==
    /\ isActive = FALSE /\ transforms = {}
    /\ chunks = <<>> /\ currentChunk = <<>> /\ line = <<>> /\ result = <<>>
NoStage == workStack = <<>> /\ transformers = {}

Init ==
    \/ stage = "list" /\ List!Init /\ NoQuotes /\ called = FALSE /\ sent = <<>> /\ NoStage
    \/ stage = "quotes" /\ Quotes!Init /\ NoFields /\ NoList /\ called = FALSE /\ sent = <<>> /\ NoStage
    \/ stage = "pre" /\ Pre!Init /\ NoList /\ NoQuotes /\ sent = <<>> /\ NoStage
    \/ stage = "paragraph" /\ Paragraph!Init /\ NoList /\ NoQuotes /\ called = FALSE /\ NoStage
    \/ stage = "patcher" /\ Patcher!Init /\ NoList /\ NoQuotes /\ called = FALSE /\ NoStage
    \/ stage = "include" /\ Include!Init /\ NoList /\ NoQuotes /\ called = FALSE /\ sent = <<>>

ListStep == stage = "list" /\ List!Next /\ UNCHANGED <<stage, called, sent, quoteVars, stageVars>>
QuotesStep == stage = "quotes" /\ Quotes!Next /\ UNCHANGED <<stage, fields, listVars, called, sent, stageVars>>
PreStep == stage = "pre" /\ Pre!Next /\ UNCHANGED <<stage, listVars, sent, quoteVars, stageVars>>
ParagraphStep == stage = "paragraph" /\ Paragraph!Next /\ UNCHANGED <<stage, listVars, called, quoteVars, stageVars>>
PatcherStep == stage = "patcher" /\ Patcher!Next /\ UNCHANGED <<stage, listVars, called, quoteVars, stageVars>>
IncludeStep == stage = "include" /\ Include!Next /\ UNCHANGED <<stage, listVars, called, sent, quoteVars>>

Next == ListStep \/ QuotesStep \/ PreStep \/ ParagraphStep \/ PatcherStep \/ IncludeStep

Spec == Init /\ [][Next]_vars

-----------------------------------------------------------------------------
(* Properties *)

\* The fields of each handler agree with each other and with what its consumer has
\* seen: the frames of a list keep two end tags for each bullet, those of the list
\* tags that are open; an indented line is in the buffers of the state the handler is
\* in, newlines are counted as they are held, a collector of include tags is
\* registered exactly while it collects, and what a transform answers is given to
\* later ones only, so that the loop of SyncTTM ends.
TypeOK ==
    CASE stage = "list" -> List!TypeOK /\ List!FramesAreOpen
      [] stage = "quotes" -> Quotes!TypeOK
      [] stage = "pre" -> Pre!TypeOK
      [] stage = "paragraph" -> Paragraph!TypeOK
      [] stage = "patcher" -> Patcher!TypeOK
      [] stage = "include" -> Include!TypeOK /\ Include!RegisteredWhileOpen /\ Include!RanksRise

\* What the handlers do not make or replace themselves comes out unchanged and in
\* order, whatever is held back meanwhile: bullets, spaces before an indented
\* line, quotes and parts of tables outside of one are what they replace; of the
\* markers of cells, those of cells that were made text.
KeepsOrder ==
    [][/\ stage = "list" => List!OrderKept
       /\ stage = "quotes" => Quotes!KeepsText'
       /\ stage = "pre" => Pre!OrderKept
       /\ stage = "paragraph" => Paragraph!OrderKept
       /\ stage = "patcher" => Patcher!OrderKept /\ Patcher!OwnMarker]_vars

\* The tags the handlers make nest: lists and the tables in them, bold and italic
\* on a line, where a tag the source left open is closed only if it must be,
\* paragraphs between blocks, phrasing in indented blocks; and parts of tables
\* stand in tables.
Nests ==
    CASE stage = "list" -> List!WellNested
      [] stage = "quotes" -> Quotes!Nested /\ Quotes!ClosesOnlyOdd
      [] stage = "pre" -> Pre!BlocksArePhrasing
      [] stage = "paragraph" -> Paragraph!ParagraphsPair
      [] stage = "patcher" -> Patcher!PartsInTables
      [] stage = "include" -> TRUE

\* The end of the page closes what is open and leaves a handler as new: it is used
\* again for the next page, or the next part of one, from the pipeline cache.  The
\* quotes of a line end with it: Quotes!TypeOK and Quotes!Nested.  A stage that
\* reads include tags is checked over page after page: Contribution.
EndLeavesNothing ==
    CASE stage = "list" -> List!EndCloses
      [] stage = "quotes" -> TRUE
      [] stage = "pre" -> Pre!EndLeavesNothing
      [] stage = "paragraph" -> Paragraph!EndLeavesNothing
      [] stage = "patcher" -> Patcher!EndLeavesNothing
      [] stage = "include" -> TRUE

\* What the code says cannot be does not happen: the "Cannot get here" of the
\* indented lines, the "Failed assertion" of the paragraphs, and a null where a
\* quote marks a tag as closed.
NoFailedAssertion ==
    /\ stage = "pre" => Pre!CannotGetHere
    /\ stage = "paragraph" => Paragraph!NoFailedAssertion
    /\ stage = "quotes" => Quotes!MarksOpenTags

\* A template contributes the text outside its noinclude sections, and inside
\* onlyinclude if it has that, and a page what is outside its includeonly sections;
\* and its end comes out once and last, though handlers collect it: for every page
\* the stage is reused for.
Contribution == stage = "include" => Include!Contribution /\ Include!EOFIsLast

-----------------------------------------------------------------------------
(* For TLC: lists of one to three levels that go up, down and across, and     *)
(* texts that end in each of the ways quotes tell apart.                      *)

MCBullets == {<<"*">>, <<"*", "#">>, <<";">>, <<"*", ";">>, <<"*", ":", ":">>}
MCTexts == {"space", "single", "td"}
MCTags == {"TagTk", "EndTagTk"} \X {"noinclude", "includeonly", "onlyinclude"}
            \cup {<<"SelfclosingTagTk", "noinclude">>, <<"SelfclosingTagTk", "includeonly">>}
=============================================================================
