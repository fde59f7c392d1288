------------------------------ MODULE PreHandler ------------------------------
(***************************************************************************)
(* lib/wt2html/tt/PreHandler.js: lines that start with a space become a    *)
(* preformatted block.  The handler holds a line back until it is known to *)
(* have something in it besides what is transparent to the start of a      *)
(* line, and a finished line until it is known whether the next one        *)
(* extends the block.  For the rest of an ordinary line it unregisters     *)
(* itself.                                                                 *)
(*                                                                         *)
(* A token is its kind; source ranges are left out.                        *)
(***************************************************************************)
EXTENDS Integers, SequencesExt

CONSTANT MaxHeld  \* bound: tokens held back

VARIABLES
    handler,  \* the fields of the handler: see NewHandler
    input,    \* the token it was last given
    output,   \* the tokens it returned for it
    called    \* what was called in a state the code says it cannot be in

vars == <<handler, input, output, called>>

-----------------------------------------------------------------------------
(***************************************************************************)
(* Kinds.  "sol" is transparent to the start of a line: comments, metas,   *)
(* category links, tabs.  A rule or a heading that comes from a template   *)
(* may follow the space of an indented line, unlike the block tags of HTML *)
(* and of tables.                                                          *)
(***************************************************************************)
Nl == "nl"
Space == "space"
Text == "text"
Sol == "sol"
Rule == "hr"         \* or a heading
BlockTag == "block"  \* of HTML, or of a table
Inline == "inline"
EOFTk == "eof"

isSolTransparent(t) == t \in {Sol, Space}
isBlockTag(t) == t \in {Rule, BlockTag}

SOL == "sol"
PRE == "pre"
PRE_COLLECT == "pre_collect"
MULTILINE_PRE == "multiline"
IGNORE == "ignore"

\* What may be absent is a sequence of at most one token.
NewHandler ==
    [state |-> SOL, any |-> TRUE, lastNlTk |-> <<>>, tokens |-> <<>>,
     preCollectCurrentLine |-> <<>>, preWSToken |-> <<>>, multiLinePreWSToken |-> <<>>,
     solTransparentTokens |-> <<>>]

reset(h, addAnyHandler) == [NewHandler EXCEPT !.any = h.any \/ addAnyHandler]

moveToIgnoreState(r) == [r EXCEPT !.handler.state = IGNORE, !.handler.any = FALSE]

Result(h, out) == [handler |-> h, out |-> out]
Enter(r, state) == [r EXCEPT !.handler.state = state]

-----------------------------------------------------------------------------
(* The buffers *)

resetPreCollectCurrentLine(h) ==
    IF h.preCollectCurrentLine = <<>> THEN h
    ELSE [h EXCEPT !.tokens = @ \o h.preCollectCurrentLine,
                   !.preCollectCurrentLine = <<>>, !.multiLinePreWSToken = <<>>]

\* Mistake: the space is forgotten.
getResultAndResetNoSpace(h, token) ==
    Result([h EXCEPT !.tokens = <<>>, !.lastNlTk = <<>>, !.preWSToken = <<>>,
                     !.solTransparentTokens = <<>>, !.multiLinePreWSToken = <<>>],
           h.tokens \o h.lastNlTk \o h.solTransparentTokens \o <<token>>)

\* Everything goes out as it came.
getResultAndReset(h, token) ==
    Result([h EXCEPT !.tokens = <<>>, !.lastNlTk = <<>>, !.preWSToken = <<>>,
                     !.solTransparentTokens = <<>>, !.multiLinePreWSToken = <<>>],
           h.tokens \o h.lastNlTk \o h.preWSToken \o h.solTransparentTokens \o <<token>>)

\* Mistake: the newline after the block stays held.
processPreKeepsNl(h, token) ==
    LET pre == IF h.tokens = <<>> THEN <<>> ELSE <<"<pre>">> \o h.tokens \o <<"</pre>">>
    IN  Result([h EXCEPT !.tokens = <<>>, !.multiLinePreWSToken = <<>>, !.solTransparentTokens = <<>>],
               pre \o h.multiLinePreWSToken \o h.solTransparentTokens \o token)

\* What was collected becomes a block; `token` is that which ends it, or none.
processPre(h, token) ==
    LET pre == IF h.tokens = <<>> THEN <<>> ELSE <<"<pre>">> \o h.tokens \o <<"</pre>">>
    IN  Result([h EXCEPT !.tokens = <<>>, !.multiLinePreWSToken = <<>>, !.lastNlTk = <<>>,
                         !.solTransparentTokens = <<>>],
               pre \o h.multiLinePreWSToken \o h.lastNlTk \o h.solTransparentTokens \o token)

\* Where the line under way starts in the collected tokens: the last one that
\* is not transparent, or the first.
LineStart(tokens) ==
    CHOOSE i \in 1..Len(tokens) :
        /\ i = 1 \/ ~isSolTransparent(tokens[i])
        /\ \A j \in (i + 1)..Len(tokens) : isSolTransparent(tokens[j])

\* The lines before this one become a block, and this one goes out as it came.
encounteredBlockWhileCollecting(h, token) ==
    LET i      == LineStart(h.tokens)
        before == [h EXCEPT !.multiLinePreWSToken = <<>>, !.tokens = SubSeq(@, 1, i - 1),
                            !.lastNlTk = <<h.tokens[i]>>]
        lines  == IF h.tokens = <<>> THEN Result([h EXCEPT !.multiLinePreWSToken = <<>>], <<>>)
                  ELSE LET r == processPre(before, <<>>)
                       IN  Result(r.handler, r.out \o SubSeq(h.tokens, i + 1, Len(h.tokens)))
        ws     == IF h.preWSToken # <<>> THEN h.preWSToken ELSE h.multiLinePreWSToken
        line   == getResultAndReset(resetPreCollectCurrentLine([lines.handler EXCEPT !.preWSToken = <<>>]), token)
    IN  Result(line.handler, lines.out \o ws \o line.out)

-----------------------------------------------------------------------------
(* The handlers *)

onNewline(h) ==
    CASE h.state \in {SOL, PRE} -> Enter(getResultAndReset(h, Nl), SOL)
      [] h.state = PRE_COLLECT ->
           Result([resetPreCollectCurrentLine(h) EXCEPT !.lastNlTk = <<Nl>>, !.state = MULTILINE_PRE], <<>>)
      [] h.state = MULTILINE_PRE ->
           Enter(processPre([h EXCEPT !.preWSToken = <<>>, !.multiLinePreWSToken = <<>>], <<Nl>>), SOL)
      [] h.state = IGNORE -> Result(reset(h, TRUE), <<Nl>>)

onEnd(h) == Result(reset(h, h.state = IGNORE), <<EOFTk>>)

\* The end of the page while something may be held back.
AnyEOF(h) ==
    LET r == IF h.state \in {SOL, PRE} THEN getResultAndReset(h, EOFTk)
             ELSE processPre(resetPreCollectCurrentLine(
                                [h EXCEPT !.preWSToken = <<>>, !.multiLinePreWSToken = <<>>]), <<EOFTk>>)
    IN  Result(reset(r.handler, FALSE), r.out)

AnyInSOL(h, token) ==
    CASE token = Space ->
           Result([h EXCEPT !.tokens = <<>>, !.preWSToken = <<Space>>, !.state = PRE], h.tokens)
      [] token = Sol -> Result([h EXCEPT !.tokens = Append(@, token)], <<>>)
      [] OTHER -> moveToIgnoreState(getResultAndReset(h, token))

AnyInPre(h, token) ==
    CASE isSolTransparent(token) -> Result([h EXCEPT !.solTransparentTokens = Append(@, token)], <<>>)
      [] token = BlockTag -> moveToIgnoreState(getResultAndReset(h, token))
      [] OTHER ->
           Result([h EXCEPT !.preCollectCurrentLine = Append(h.solTransparentTokens, token),
                            !.solTransparentTokens = <<>>, !.state = PRE_COLLECT], <<>>)

\* Mistake: a block tag is collected like any other.
AnyInPreCollectBlocks(h, token) ==
    Result([h EXCEPT !.preCollectCurrentLine = Append(@, token)], <<>>)

AnyInPreCollect(h, token) ==
    IF isBlockTag(token) THEN moveToIgnoreState(encounteredBlockWhileCollecting(h, token))
    ELSE Result([h EXCEPT !.preCollectCurrentLine = Append(@, token)], <<>>)

AnyInMultiline(h, token) ==
    CASE token = Space ->
           Result([h EXCEPT !.tokens = @ \o h.lastNlTk \o h.solTransparentTokens, !.lastNlTk = <<>>,
                            !.solTransparentTokens = <<>>, !.preWSToken = <<>>,
                            !.multiLinePreWSToken = <<Space>>, !.state = PRE_COLLECT], <<>>)
      [] token = Sol -> Result([h EXCEPT !.solTransparentTokens = Append(@, token)], <<>>)
      [] OTHER -> moveToIgnoreState(processPre(h, <<token>>))

onAny(h, token) ==
    CASE h.state = IGNORE -> Result(h, <<>>)
      [] h.state # IGNORE /\ token = EOFTk -> AnyEOF(h)
      [] h.state = SOL /\ token # EOFTk -> AnyInSOL(h, token)
      [] h.state = PRE /\ token # EOFTk -> AnyInPre(h, token)
      [] h.state = PRE_COLLECT /\ token # EOFTk -> AnyInPreCollect(h, token)
      [] h.state = MULTILINE_PRE /\ token # EOFTk -> AnyInMultiline(h, token)

-----------------------------------------------------------------------------
(***************************************************************************)
(* The manager gives a newline to onNewline, what else there is to onAny   *)
(* while that is registered, and the end of the page to onAny or, when it  *)
(* is not, to onEnd.  What a handler returns skips the others.             *)
(***************************************************************************)
Give(token) ==
    LET r == CASE token = Nl -> onNewline(handler)
               [] token # Nl /\ handler.any -> onAny(handler, token)
               [] token = EOFTk /\ ~handler.any -> onEnd(handler)
               [] OTHER -> Result(handler, <<token>>)
    IN  /\ handler' = r.handler
        /\ output' = r.out
        /\ called' = (\/ token # Nl /\ handler.any /\ handler.state = IGNORE
                      \/ token = EOFTk /\ ~handler.any /\ handler.state # IGNORE)

\* What is held back, in the order it came.  For the rest of an ordinary line
\* that is nothing: a space that is left there is forgotten with the line.
HeldBack(h) ==
    IF h.state = IGNORE THEN <<>>
    ELSE h.preWSToken \o h.tokens \o h.lastNlTk \o h.solTransparentTokens
            \o h.multiLinePreWSToken \o h.preCollectCurrentLine

Init == handler = NewHandler /\ input = <<>> /\ output = <<>> /\ called = FALSE

\* Bound: MaxHeld.
GiveToken ==
    /\ Len(HeldBack(handler)) < MaxHeld
    /\ \E token \in {Nl, Space, Text, Sol, Rule, BlockTag, Inline} :
          input' = <<token>> /\ Give(token)

\* A string that starts with a space and has more, where a line may be indented:
\* onAny calls itself with the rest, and drops what that returns.
GiveIndented ==
    /\ Len(HeldBack(handler)) < MaxHeld - 1
    /\ handler.any /\ handler.state \in {SOL, MULTILINE_PRE}
    /\ \E rest \in {Text, Sol, Space} :
          LET r == onAny(handler, Space)
          IN  /\ input' = <<Space, rest>>
              /\ handler' = onAny(r.handler, rest).handler
              /\ output' = r.out
    /\ called' = FALSE

GiveEnd == input' = <<EOFTk>> /\ Give(EOFTk)

Next == GiveToken \/ GiveIndented \/ GiveEnd

Spec == Init /\ [][Next]_vars

-----------------------------------------------------------------------------
(* Properties *)

TypeOK ==
    /\ handler.state \in {SOL, PRE, PRE_COLLECT, MULTILINE_PRE, IGNORE}
    /\ handler.state = PRE => handler.preWSToken # <<>> /\ handler.tokens = <<>>
    /\ handler.state = PRE_COLLECT <=>
          handler.preCollectCurrentLine # <<>>
            \/ (handler.multiLinePreWSToken # <<>> /\ handler.lastNlTk = <<>>)
    /\ handler.state = MULTILINE_PRE => handler.tokens # <<>> /\ handler.lastNlTk # <<>>
    /\ handler.state = SOL => HeldBack(handler) = handler.tokens

\* The two "Cannot get here" of the code, and its assertion that the line a block
\* tag ends starts with a newline.
CannotGetHere ==
    /\ ~called
    /\ handler.any <=> handler.state # IGNORE
    /\ handler.state = PRE_COLLECT /\ handler.tokens # <<>> =>
          handler.tokens[LineStart(handler.tokens)] = Nl

Blanked(tokens) == SelectSeq(tokens, LAMBDA t : t \notin {Space, "<pre>", "</pre>"})

\* The tokens of each block of the output.
Blocks(out) ==
    {SubSeq(out, ij[1] + 1, ij[2] - 1) : ij \in
        {ij \in (1..Len(out)) \X (1..Len(out)) :
            /\ out[ij[1]] = "<pre>" /\ out[ij[2]] = "</pre>" /\ ij[1] < ij[2]
            /\ \A k \in (ij[1] + 1)..(ij[2] - 1) : out[k] # "</pre>"}}

\* Everything comes out in order: all of it until a line has been collected, and
\* all but spaces from then on.
LineCollected(h) == h.state \in {PRE_COLLECT, MULTILINE_PRE} /\ h.tokens # <<>>

OrderKept ==
    /\ ~LineCollected(handler) /\ Blocks(output') = {} =>
          HeldBack(handler) \o input' = output' \o HeldBack(handler')
    /\ Blanked(HeldBack(handler) \o input') = Blanked(output' \o HeldBack(handler'))

KeepsOrder == [][OrderKept]_vars

\* The end of the page leaves nothing in the handler for the next.
EndLeavesNothing == input = <<EOFTk>> => handler = NewHandler

\* A block has something in it besides what is transparent, and no block tag but
\* a rule that its first line begins with.
BlocksArePhrasing ==
    \A b \in Blocks(output) :
        LET content == SelectSeq(b, LAMBDA t : ~isSolTransparent(t))
        IN  content # <<>> /\ \A i \in 1..Len(content) :
                content[i] # BlockTag /\ (content[i] = Rule => i = 1)
=============================================================================
