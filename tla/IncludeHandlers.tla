---------------------------- MODULE IncludeHandlers ----------------------------
(***************************************************************************)
(* The first stage of the pipelines that read wikitext: SyncTTM with the   *)
(* handlers of <onlyinclude>, <noinclude> and <includeonly>                *)
(* (lib/wt2html/tt/NoIncludeOnly.js), the last two built on TokenCollector *)
(* (lib/wt2html/tt/TokenCollector.js), which takes tokens out of the       *)
(* stream from a start tag to its end tag by registering transforms while  *)
(* a scope is open.  The stage is reused: the pipeline cache gives it to   *)
(* one page or template after another, and resetState touches none of the  *)
(* state modelled here.                                                    *)
(***************************************************************************)
EXTENDS Integers, SequencesExt, FiniteSetsExt

CONSTANTS
    IncludeTags,          \* the tags of the input: <<type, name>>
    MaxTokens,     \* bound: tokens of a page
    MaxUnclosed    \* bound: tags of one name open at the end of a page

VARIABLES
    page,          \* the tokens of this page so far
    workStack, transformers, handlers, output

vars == <<page, workStack, transformers, handlers, output>>

-----------------------------------------------------------------------------
(* Tokens and answers *)

Text(n) == [type |-> "String", name |-> "", n |-> n]
Tag(type, name) == [type |-> type, name |-> name, n |-> 0]
EOFTk(n) == [type |-> "EOFTk", name |-> "", n |-> n]

\* A meta tag that stands for a tag of that name; isEnd as its n.
Meta(name, isEnd) == [type |-> "Meta", name |-> name, n |-> IF isEnd THEN 1 ELSE 0]

Answer(tokens, h, tts) == [tokens |-> tokens, handlers |-> h, transformers |-> tts]

-----------------------------------------------------------------------------
(* The collectors *)

Collectors == {"noinclude", "includeonly"}

RANK == [c \in Collectors |-> IF c = "noinclude" THEN 20 ELSE 30]
ANYDELTA == 1
ACKEND(c) == c = "noinclude"

Transformer(of, rank, on) == [of |-> of, rank |-> rank, on |-> on]

\* What is registered while a scope is open.
Registrations(c) ==
    {Transformer(c, RANK[c] + ANYDELTA, "any"), Transformer(c, RANK[c], "end")}

\* transformation() of NoInclude and IncludeOnly, for a start tag, what
\* follows it and its end: an end tag or the end of the page.
NoInclude(collection, isInclude) ==
    LET end == Last(collection)
        eof == end.type = "EOFTk"
        body == SubSeq(collection, 2, Len(collection) - 1)
    IN  (IF isInclude THEN <<>>
         ELSE <<Meta("noinclude", FALSE)>> \o body
              \o (IF eof THEN <<>> ELSE <<Meta("noinclude", TRUE)>>))
        \o (IF eof THEN <<end>> ELSE <<>>)

IncludeOnly(collection, isInclude) ==
    LET end == Last(collection)
        eof == end.type = "EOFTk"
        body == SubSeq(collection, 2, Len(collection) - 1)
    IN  (IF isInclude THEN body
         ELSE <<Meta("includeonly", FALSE)>>
              \o (IF eof THEN <<>> ELSE <<Meta("includeonly", TRUE)>>))
        \o (IF eof THEN <<end>> ELSE <<>>)

transformation(c, collection, isInclude) ==
    CASE Head(collection).type = "EndTagTk" -> <<Meta(c, TRUE)>>
      [] Head(collection).type = "SelfclosingTagTk" ->
            (IF isInclude THEN <<>> ELSE <<Meta(c, FALSE)>>)
      [] OTHER -> (IF c = "noinclude" THEN NoInclude(collection, isInclude)
                      ELSE IncludeOnly(collection, isInclude))

\* Mistake: the new scope does not get the start tag.
OpenScopeEmpty(c, token, h, tts) ==
    Answer(<<>>, [h EXCEPT !.scopeStack[c] = Append(@, <<>>)],
           IF h.scopeStack[c] = <<>> THEN tts \cup Registrations(c) ELSE tts)

OpenScope(c, token, h, tts) ==
    Answer(<<>>, [h EXCEPT !.scopeStack[c] = Append(@, <<token>>)],
           IF h.scopeStack[c] = <<>> THEN tts \cup Registrations(c) ELSE tts)

\* Mistake: the transforms of an unclosed section stay registered.
CloseScopeNotAtEOF(c, token, h, tts) ==
    LET scopes == h.scopeStack[c]
    IN  Answer(transformation(c, Append(Last(scopes), token), h.isInclude),
               [h EXCEPT !.scopeStack[c] = Front(@)],
               IF Len(scopes) = 1 /\ token.type # "EOFTk"
               THEN tts \ Registrations(c) ELSE tts)

\* The end tag, or the end of the page, with a scope open: the innermost
\* scope goes, and at the end of the page the others are read, and stay.
CloseScope(c, token, h, tts) ==
    LET scopes == h.scopeStack[c]
        activeTokens == Append(Last(scopes), token)
        collected == IF token.type = "EOFTk"
                     THEN FlattenSeq(Front(scopes)) \o activeTokens
                     ELSE activeTokens
    IN  Answer(transformation(c, collected, h.isInclude),
               [h EXCEPT !.scopeStack[c] = Front(@)],
               IF Len(scopes) = 1 \/ token.type = "EOFTk"
               THEN tts \ Registrations(c) ELSE tts)

onDelimiterToken(c, token, h, tts) ==
    CASE token.type = "TagTk" -> OpenScope(c, token, h, tts)
      [] token.type = "SelfclosingTagTk" -> Answer(transformation(c, <<token, token>>, h.isInclude), h, tts)
      [] token.type \notin {"TagTk", "SelfclosingTagTk"} /\ h.scopeStack[c] # <<>> ->
            CloseScope(c, token, h, tts)
      [] OTHER -> Answer(IF ACKEND(c) THEN transformation(c, <<token>>, h.isInclude) ELSE <<token>>, h, tts)

onAnyToken(c, token, h, tts) ==
    Answer(<<>>,
           [h EXCEPT !.scopeStack[c] = Front(@) \o <<Append(Last(@), token)>>], tts)

-----------------------------------------------------------------------------
(* <onlyinclude> *)

NoOnly == [accum |-> <<>>, inOnlyInclude |-> FALSE, foundOnlyInclude |-> FALSE]

\* In a page the tags are but marked.
onOnlyInclude(token, h, tts) ==
    Answer(<<Meta("onlyinclude", token.type = "EndTagTk")>>, h, tts)

\* Mistake: foundOnlyInclude is not reset at the end of a template.
onAnyIncludeKeepsFound(token, h, tts) ==
    LET o == h.only
        Reset == [o EXCEPT !.accum = <<>>, !.inOnlyInclude = FALSE, !.foundOnlyInclude = FALSE]
        With(v) == [h EXCEPT !.only = v]
    IN  CASE token.type = "EOFTk" ->
                (IF o.accum # <<>> /\ ~o.foundOnlyInclude
                 THEN Answer(Append(o.accum, token), With(Reset), tts)
                 ELSE Answer(<<token>>, With([Reset EXCEPT !.foundOnlyInclude = o.foundOnlyInclude]), tts))
          [] token.name = "onlyinclude" ->
                (IF ~o.inOnlyInclude
                 THEN Answer(<<>>, With([o EXCEPT !.inOnlyInclude = TRUE, !.foundOnlyInclude = TRUE]), tts)
                 ELSE Answer(<<Meta("onlyinclude", token.type = "EndTagTk")>>,
                             With([o EXCEPT !.inOnlyInclude = FALSE]), tts))
          [] token.type # "EOFTk" /\ token.name # "onlyinclude" ->
                (IF o.inOnlyInclude
                 THEN Answer(<<token>>, h, tts)
                 ELSE Answer(<<>>, With([o EXCEPT !.accum = Append(@, token)]), tts))

\* In a template everything outside is held back until it is known whether
\* there is such a tag.  For the tag that opens, the code returns the meta tag
\* itself and not a result that has it in `tokens`: no token is returned.
onAnyInclude(token, h, tts) ==
    LET o == h.only
        Reset == [o EXCEPT !.accum = <<>>, !.inOnlyInclude = FALSE, !.foundOnlyInclude = FALSE]
        With(v) == [h EXCEPT !.only = v]
    IN  CASE token.type = "EOFTk" ->
                (IF o.accum # <<>> /\ ~o.foundOnlyInclude
                 THEN Answer(Append(o.accum, token), With(Reset), tts)
                 ELSE Answer(<<token>>, With(Reset), tts))
          [] token.name = "onlyinclude" ->
                (IF ~o.inOnlyInclude
                 THEN Answer(<<>>, With([o EXCEPT !.inOnlyInclude = TRUE, !.foundOnlyInclude = TRUE]), tts)
                 ELSE Answer(<<Meta("onlyinclude", token.type = "EndTagTk")>>,
                             With([o EXCEPT !.inOnlyInclude = FALSE]), tts))
          [] token.type # "EOFTk" /\ token.name # "onlyinclude" ->
                (IF o.inOnlyInclude
                 THEN Answer(<<token>>, h, tts)
                 ELSE Answer(<<>>, With([o EXCEPT !.accum = Append(@, token)]), tts))

-----------------------------------------------------------------------------
(* The stage *)

Transform(t, token, h, tts) ==
    CASE t.of = "onlyinclude" ->
            (IF h.isInclude THEN onAnyInclude(token, h, tts) ELSE onOnlyInclude(token, h, tts))
      [] t.of \in Collectors /\ t.on = "any" -> onAnyToken(t.of, token, h, tts)
      [] t.of \in Collectors /\ t.on # "any" -> onDelimiterToken(t.of, token, h, tts)

INSTANCE SyncTTM WITH FirstRank <- 0

\* isInclude: the stage reads templates; else it reads pages.
NewHandlers(isInclude) ==
    [isInclude |-> isInclude, only |-> NoOnly, scopeStack |-> [c \in Collectors |-> <<>>]]

NewTransformers(isInclude) ==
    {Transformer("onlyinclude", 10, IF isInclude THEN "any" ELSE "tag:onlyinclude")}
        \cup {Transformer(c, RANK[c], "tag:" \o c) : c \in Collectors}

Init ==
    /\ page = <<>>
    /\ workStack = <<>>
    /\ \E isInclude \in BOOLEAN :
          /\ transformers = NewTransformers(isInclude)
          /\ handlers = NewHandlers(isInclude)
    /\ output = <<>>

Ended == page # <<>> /\ Last(page).type = "EOFTk"

\* How many tags of the name are open before the i-th token.
Depth(toks, name, i) ==
    FoldLeft(LAMBDA d, t :
                 CASE t.name = name /\ t.type = "TagTk" -> d + 1
                   [] t.name = name /\ t.type = "EndTagTk" /\ d > 0 -> d - 1
                   [] OTHER -> d,
             0, SubSeq(toks, 1, i - 1))

Pick(toks, Test(_)) ==
    LET at == SetToSortSeq({i \in 1..Len(toks) : Test(i)}, <)
    IN  [k \in 1..Len(at) |-> toks[at[k]]]

Outside(toks, name) == Pick(toks, LAMBDA i : Depth(toks, name, i) = 0)

\* Every second <onlyinclude> tag ends what the one before it begins.
Selected(toks) ==
    LET tagsBefore(i) == Cardinality({j \in 1..i : toks[j].name = "onlyinclude"})
    IN  IF tagsBefore(Len(toks)) = 0 THEN toks
        ELSE Pick(toks, LAMBDA i : tagsBefore(i) % 2 = 1)

\* The tags of the name that are open at the end of what reaches their
\* collector: the reference for what a page leaves unclosed.
Unclosed(toks, name) ==
    LET read == IF handlers.isInclude THEN Selected(toks) ELSE toks
        reaching == IF handlers.isInclude /\ name = "includeonly"
                    THEN Outside(read, "noinclude") ELSE read
    IN  Depth(reaching, name, Len(reaching) + 1)

Tokens ==
    {Text(Len(page) + 1), EOFTk(Len(page) + 1)} \cup {Tag(tag[1], tag[2]) : tag \in IncludeTags}

\* The tokenizer emits a chunk.
Chunk ==
    /\ ~Ended
    /\ \E token \in Tokens :
          /\ IF token.type = "EOFTk"
             THEN \A c \in Collectors : Unclosed(page, c) <= MaxUnclosed
             ELSE Len(page) < MaxTokens
          /\ page' = Append(page, token)
          /\ onChunk(<<token>>)

Process ==
    /\ ProcessToken
    /\ UNCHANGED page

\* The tokenizer emits its end event, and the stage gets another page.
onEndEvent ==
    /\ Ended
    /\ workStack = <<>>
    /\ page' = <<>>
    /\ output' = <<>>
    /\ UNCHANGED <<workStack, transformers, handlers>>

Next ==
    \/ Chunk
    \/ Process
    \/ onEndEvent

Spec == Init /\ [][Next]_vars

-----------------------------------------------------------------------------
(* What a page, or a template, is to contribute: read off its tokens. *)

IsText(t) == t.type = "String"
IsMark(t) == t.name \in {"noinclude", "onlyinclude"}

\* A tag and the meta tag that stands for it look alike.
Shown(toks) ==
    [i \in 1..Len(toks) |->
        IF IsText(toks[i]) THEN <<"text", toks[i].n>>
        ELSE <<toks[i].name,
               IF toks[i].type = "EndTagTk" \/ (toks[i].type = "Meta" /\ toks[i].n = 1) THEN 1 ELSE 0>>]

TextsOf(toks) == Shown(SelectSeq(toks, IsText))
TextsAndMarksOf(toks) == Shown(SelectSeq(toks, LAMBDA t : IsText(t) \/ IsMark(t)))

Done == Ended /\ workStack = <<>>

(***************************************************************************)
(* Properties                                                              *)
(***************************************************************************)

TypeOK ==
    /\ handlers.isInclude \in BOOLEAN
    /\ transformers \subseteq
          (NewTransformers(handlers.isInclude) \cup UNION {Registrations(c) : c \in Collectors})
    /\ \A c \in Collectors : \A i \in 1..Len(handlers.scopeStack[c]) :
          handlers.scopeStack[c][i] # <<>>
    /\ handlers.only.inOnlyInclude => handlers.only.foundOnlyInclude

(***************************************************************************)
(* A template contributes, in order, the text outside its noinclude        *)
(* sections (and inside onlyinclude, if it has that tag), and nothing      *)
(* else; a page shows what is outside its includeonly sections, and leaves *)
(* a mark for each tag of the other two there, which serialization needs.  *)
(* It holds for every page the stage is reused for.                        *)
(***************************************************************************)
Contribution ==
    Done => IF handlers.isInclude
            THEN TextsOf(output) = TextsOf(Outside(Selected(Front(page)), "noinclude"))
            ELSE TextsAndMarksOf(output) = TextsAndMarksOf(Outside(Front(page), "includeonly"))

(***************************************************************************)
(* A collector is registered for every token, and for the end of the page, *)
(* exactly while it has a scope open: registered without one it fails on   *)
(* the next token, and with a scope but not registered it collects         *)
(* nothing.                                                                *)
(***************************************************************************)
RegisteredWhileOpen ==
    \A c \in Collectors :
        transformers \cap Registrations(c) =
            IF handlers.scopeStack[c] = <<>> THEN {} ELSE Registrations(c)

(***************************************************************************)
(* NoIncludeOnly.js:2-3: "Strips all tokens in noinclude sections."  No    *)
(* text of a noinclude section of a template comes out.                    *)
(***************************************************************************)
StripsNoInclude ==
    handlers.isInclude =>
        \A i \in 1..Len(output) :
            IsText(output[i]) => Depth(page, "noinclude", output[i].n) = 0

\* For TLC: the tags of noinclude alone.
JustNoInclude == {"TagTk", "EndTagTk"} \X {"noinclude"}
=============================================================================
