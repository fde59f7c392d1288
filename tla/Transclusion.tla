------------------------------ MODULE Transclusion ------------------------------
(***************************************************************************)
(* TemplateHandler of lib/wt2html/tt/TemplateHandler.js and the frames of  *)
(* lib/wt2html/TokenTransformManager.js: what becomes of one template or   *)
(* template argument in the source, and of the templates in the text of    *)
(* that template.                                                          *)
(*                                                                         *)
(* The main part of a transclusion is the child of a TokenAccumulator, its *)
(* expansion the sibling; both may answer at once or later.  A token is    *)
(* reduced to what decides its way: what its target resolves to before and *)
(* after the attributes are expanded, and what its parameters are.  `h` is *)
(* the state the closures of the handler share.                            *)
(***************************************************************************)
EXTENDS Integers, Sequences, FiniteSets, SequencesExt

CONSTANTS
    Titles,    \* the templates of the wiki
    ParamNames,\* the names parameters have
    maxDepth,  \* of frames (40)
    MaxText,   \* chunks of a template's text
    MaxParams, \* parameters of a template
    MaxTarget  \* tokens of a target

VARIABLES conf, h
vars == <<conf, h>>

Acc == INSTANCE TokenAccumulator WITH Token <- Seq(STRING), Rank <- {2}, phaseEndRank <- 2, NoRank <- 0

-----------------------------------------------------------------------------
\* What a target resolves to: a template, a parser function with or without an
\* implementation, a variable that is a magic word, or nothing (null).
Targets == {"template", "function", "missing", "masq", "!", "null"}

\* The frames of the page and of the templates its text is in: `path`, whose first
\* frame has no title (null); the settings, the options of the stage, whether it is
\* the one of the page itself (atTopLevel), and what is in the caches.
Settings ==
    [path : {<<"">>}, usePHPPreProcessor : BOOLEAN, expandTemplates : BOOLEAN, inTemplate : BOOLEAN,
     fetchTemplates : BOOLEAN, cached : BOOLEAN, addHTML : BOOLEAN, toplevel : BOOLEAN]

DefaultSettings ==
    [path |-> <<"">>, usePHPPreProcessor |-> TRUE, expandTemplates |-> TRUE, inTemplate |-> FALSE,
     fetchTemplates |-> TRUE, cached |-> FALSE, addHTML |-> FALSE, toplevel |-> FALSE]

Depth == Len(conf.path) - 1
\* Mistake: only the frame itself is looked at, not its ancestors.
loopAndDepthCheckOwn(title, ignoreLoop) ==
    Depth > maxDepth \/ (~ignoreLoop /\ title = Last(conf.path))

loopAndDepthCheck(title, ignoreLoop) ==
    \/ Depth > maxDepth
    \/ ~ignoreLoop /\ title \in Range(conf.path)

Start(id) == <<"start", id>>
End(id) == <<"end", id>>
Text(what) == <<what, 0>>
\* What is given for the text of a template: the same for both ways it comes by.
Source == Text("text")
\* encapsulateExpansionHTML: the placeholder of DOM that was made before, which brings
\* the markers of its transclusion with it when it is unpacked.
Fragment == Text("fragment")

\* A new call of the handler.
NewCall(token) ==
    [call |-> TRUE, token |-> token, acc |-> <<>>, pending |-> {}, left |-> 0, id |-> 1,
     out |-> <<>>, final |-> 0, fatal |-> FALSE]

-----------------------------------------------------------------------------
\* Calls of the callback the handler was given, and of the accumulator before it.
Cb(s, tokens, async) ==
    [s EXCEPT !.out = @ \o tokens, !.final = @ + (IF async THEN 0 ELSE 1)]
Calls(s, r) ==
    LET last == Len(r.calls)
        tokens == FlattenSeq([i \in 1..last |-> r.calls[i].tokens])
        finals == Cardinality({i \in 1..last : ~r.calls[i].async})
    IN  [s EXCEPT !.acc = <<r.acc>>, !.out = @ \o tokens, !.final = @ + finals]
Ret(tokens, async) == [tokens |-> tokens, rank |-> 2, async |-> async]
Child(s, tokens, async) == Calls(s, Acc!receiveToksFromChild(s.acc[1], Ret(tokens, async)))
Sibling(s, tokens, async) ==
    IF s.acc = <<>> THEN Cb(s, tokens, async)
    ELSE Calls(s, Acc!receiveToksFromSibling(s.acc[1], Ret(tokens, async)))
Waits(s, what) == [s EXCEPT !.pending = @ \cup {what}]
Comes(s, what) == [s EXCEPT !.pending = @ \ {what}]

\* encapTokens
Wrapped(s, tokens) == <<Start(s.id)>> \o tokens \o <<End(s.id)>>
CheckResult == <<Text("error"), Text("link")>>

\* _encapsulateTemplate: the start of the transclusion, when the parameters that
\* are to have HTML have it.  A parameter that is an array of tokens is looked at by
\* a function that does not exist.
encapsulateTemplate(s) ==
    IF conf.addHTML /\ ~conf.inTemplate /\ s.token.params = "tokens" THEN [s EXCEPT !.fatal = TRUE]
    ELSE IF conf.addHTML /\ ~conf.inTemplate /\ s.token.params = "wikitext"
    THEN Waits(Child(s, <<>>, TRUE), "params")
    ELSE Child(s, <<Start(s.id)>>, FALSE)

\* convertAttribsToString: the braces as text, in a pipeline of their own.
\* Mistake: the caller is not told that more will follow.
convertAttribsToStringFinal(s) == Waits(Sibling(s, <<>>, FALSE), "explode")

convertAttribsToString(s) == Waits(Sibling(s, <<>>, TRUE), "explode")

\* Mistake: {{!}} is a cell wherever it is.
processSpecialMagicWordCell(s, target) ==
    Cb(s, IF target = "masq" THEN <<Text("meta")>> ELSE <<Text("cell")>>, FALSE)

\* processSpecialMagicWord; the variable {{!}} is a cell below the top level, and at
\* the top level a transclusion of its own, of a bar.
processSpecialMagicWord(s, target) ==
    IF target = "masq" THEN Cb(s, <<Text("meta")>>, FALSE)
    ELSE IF ~conf.toplevel THEN Cb(s, <<Text("cell")>>, FALSE)
    ELSE LET anew == [s EXCEPT !.id = @ + 1]
         IN  Cb(anew, Wrapped(anew, <<Text("bar")>>), FALSE)

\* fetchExpandedTpl, _fetchTemplateAndTitle: the text is asked for.
fetchExpandedTpl(s) ==
    IF ~conf.fetchTemplates THEN Sibling(s, <<Text("warning")>>, FALSE)
    ELSE Waits(Sibling(s, <<>>, TRUE), "source")
fetchTemplateAndTitle(s) ==
    IF conf.cached THEN [Waits(s, "text") EXCEPT !.left = MaxText]
    ELSE IF ~conf.fetchTemplates
    THEN LET anew == [s EXCEPT !.id = IF conf.expandTemplates THEN @ + 1 ELSE @]
         IN  Sibling(anew, IF conf.expandTemplates THEN Wrapped(anew, <<Text("error")>>)
                           ELSE <<Text("braces")>>, FALSE)
    ELSE Waits(Sibling(s, <<>>, TRUE), "source")

-----------------------------------------------------------------------------
\* onTemplate.  The tail of it, per preprocessor:
WithAccumulator(s) == [s EXCEPT !.acc = <<Acc!NewAccumulator>>]
ExpandByPHP(s) ==
    IF loopAndDepthCheck(s.token.title, TRUE) THEN Cb(s, CheckResult, FALSE)
    ELSE IF conf.cached THEN Cb(s, <<Fragment>>, FALSE)
    ELSE LET e == encapsulateTemplate(WithAccumulator(s))
         IN  IF e.fatal THEN e ELSE fetchExpandedTpl(e)
ExpandNatively(s) ==
    LET e == IF conf.expandTemplates THEN encapsulateTemplate(WithAccumulator(s)) ELSE s
    IN  IF e.fatal THEN e ELSE Waits(Sibling(e, <<>>, TRUE), "attributes")

onTemplate(s) ==
    IF s.token.templatedName THEN Waits(Cb(s, <<>>, TRUE), "name")
    ELSE IF s.token.target \in {"!", "masq"} THEN processSpecialMagicWord(s, s.token.target)
    ELSE IF conf.expandTemplates /\ s.token.target = "null" THEN convertAttribsToString(s)
    ELSE IF ~conf.usePHPPreProcessor THEN ExpandNatively(s)
    ELSE IF conf.expandTemplates THEN ExpandByPHP(s)
    ELSE convertAttribsToString(s)

OnTemplate ==
    /\ h.call /\ h.token.kind = "template"
    /\ h' = onTemplate([h EXCEPT !.call = FALSE])
    /\ UNCHANGED conf

\* The name is expanded: the token goes back to the first transforms, with a rank
\* below this handler's, and has no template in its name any more.
NameExpanded ==
    /\ "name" \in h.pending
    /\ \E target \in Targets, generated \in BOOLEAN :
        h' = [Comes(h, "name") EXCEPT !.call = TRUE, !.token.templatedName = FALSE,
                 !.token.target = target, !.token.hadTemplatedName = generated]
    /\ UNCHANGED conf

\* _expandTemplate: the target is resolved once more, whatever it was the first
\* time, now that it is expanded.
expandTemplate(s, target) ==
    IF target = "null" THEN convertAttribsToString(s)
    ELSE IF target \in {"missing", "!"}
    THEN Sibling(s, <<Text("error")>> \o (IF conf.expandTemplates THEN <<End(s.id)>> ELSE <<>>), FALSE)
    ELSE IF target \in {"function", "masq"} THEN Waits(s, "function")
    ELSE IF loopAndDepthCheck(s.token.title, FALSE) THEN Sibling(s, CheckResult, FALSE)
    ELSE fetchTemplateAndTitle(s)
AttributesExpanded ==
    /\ "attributes" \in h.pending
    /\ \E target \in Targets : h' = expandTemplate(Comes(h, "attributes"), target)
    /\ UNCHANGED conf

\* The HTML of the parameters is there: the start of the transclusion follows.
ParamsExpanded ==
    /\ "params" \in h.pending
    /\ h' = Child(Comes(h, "params"), <<Start(h.id)>>, FALSE)
    /\ UNCHANGED conf

\* The answer to the request, or an error, for which the text is empty.
SourceArrives ==
    /\ "source" \in h.pending
    /\ \E n \in 0..MaxText : h' = [Waits(Comes(h, "source"), "text") EXCEPT !.left = n]
    /\ UNCHANGED conf

\* _onChunk, _onEnd: chunks of the expansion, and its end.
OnChunk ==
    /\ "text" \in h.pending /\ h.left > 0
    /\ h' = [Sibling(h, <<Source>>, TRUE) EXCEPT !.left = @ - 1]
    /\ UNCHANGED conf
\* Mistake: the end of the transclusion is not marked.
onEndUnmarked(s) == Sibling(s, <<>>, FALSE)

\* Mistake: the last answer says that more will follow.
onEndAsync(s) == Sibling(s, IF conf.expandTemplates THEN <<End(s.id)>> ELSE <<>>, TRUE)

onEnd(s) == Sibling(s, IF conf.expandTemplates THEN <<End(s.id)>> ELSE <<>>, FALSE)
OnEnd ==
    /\ "text" \in h.pending /\ h.left = 0
    /\ h' = onEnd(Comes(h, "text"))
    /\ UNCHANGED conf

\* A parser function answers; _parserFunctionsWrapper wraps what it gives.
FunctionAnswers ==
    /\ "function" \in h.pending
    /\ h' = IF conf.expandTemplates THEN onEnd(Sibling(Comes(h, "function"), <<Text("result")>>, TRUE))
            ELSE Cb(Comes(h, "function"), <<Text("result")>>, FALSE)
    /\ UNCHANGED conf

\* The braces are expanded; they are wrapped if a template was in the name.
Exploded ==
    /\ "explode" \in h.pending
    /\ h' = LET s == Comes(h, "explode")
                braces == <<Text("braces")>>
            IN  Sibling(s, IF s.token.hadTemplatedName THEN Wrapped(s, braces) ELSE braces, FALSE)
    /\ UNCHANGED conf

\* The text has a template in it, expanded in a child frame; or, for that is expanded
\* in any case, within an extension tag in it.  The behaviour goes on with that one.
Nested ==
    /\ "text" \in h.pending /\ h.left > 0
    /\ \E title \in Titles, inTag \in BOOLEAN :
        /\ conf' = [conf EXCEPT !.path = Append(@, h.token.title), !.toplevel = FALSE,
                                !.expandTemplates = inTag, !.inTemplate = TRUE]
        /\ h' = NewCall([h.token EXCEPT !.title = title, !.target = "template",
                                        !.templatedName = FALSE, !.hadTemplatedName = FALSE])

-----------------------------------------------------------------------------
\* onTemplateArg: the name, the value the frame has for it, or the default.
GiveArg(s, tokens) ==
    Cb(s, IF conf.expandTemplates THEN Wrapped(s, tokens) ELSE tokens, FALSE)
lookupArg(s) ==
    IF s.token.passed THEN GiveArg(s, <<Text("value")>>)
    ELSE IF s.token.default = "none" THEN GiveArg(s, <<Text("braces")>>)
    ELSE IF s.token.default = "string" THEN GiveArg(s, <<Text("default")>>)
    ELSE Waits(Cb(s, <<>>, TRUE), "default")
OnTemplateArg ==
    /\ h.call /\ h.token.kind = "templatearg"
    /\ h' = LET s == [h EXCEPT !.call = FALSE]
            IN  IF h.token.stringName THEN lookupArg(s) ELSE Waits(Cb(s, <<>>, TRUE), "argName")
    /\ UNCHANGED conf
ArgNameExpanded ==
    /\ "argName" \in h.pending
    /\ h' = lookupArg(Comes(h, "argName"))
    /\ UNCHANGED conf
DefaultExpanded ==
    /\ "default" \in h.pending
    /\ h' = GiveArg(Comes(h, "default"), <<Text("default")>>)
    /\ UNCHANGED conf

-----------------------------------------------------------------------------
\* getArgInfo: the parameters for data-mw.  A parameter without a name is numbered,
\* unless it has an equals sign; the last value of a key counts, its spacing is that
\* of the first.
isPositional(param) == param.k = "" /\ ~param.equals
\* Mistake: named parameters are counted, too.
KeyCountsAll(info, param) ==
    IF isPositional(param) THEN ToString(Len(info.paramInfos) + 1) ELSE param.k

Key(info, param) == IF isPositional(param) THEN ToString(info.argIndex) ELSE param.k
AddParam(info, param) ==
    LET k == Key(info, param)
        trimmed == ~isPositional(param)
    IN  [argIndex |-> info.argIndex + (IF isPositional(param) THEN 1 ELSE 0),
         dict |-> [name \in DOMAIN info.dict \cup {k} |->
                      IF name = k THEN [value |-> param.value, trimmed |-> trimmed] ELSE info.dict[name]],
         paramInfos |-> IF k \in DOMAIN info.dict THEN info.paramInfos
                        ELSE Append(info.paramInfos, [k |-> k, named |-> trimmed])]
NoParams == [argIndex |-> 1, dict |-> <<>>, paramInfos |-> <<>>]
getArgInfo(params) == FoldLeft(AddParam, NoParams, params)

GetArgInfo ==
    /\ h.call /\ h.token.kind = "parameters"
    /\ h' = [h EXCEPT !.call = FALSE, !.final = 1, !.out = <<getArgInfo(h.token.params)>>]
    /\ UNCHANGED conf

\* resolveTemplateTarget: the target as a string, or null.  Quotes are text; comments,
\* and templates that were not expanded, are nothing; other tags are in no name, and
\* newlines only before and after one.
NoTarget == [buf |-> <<>>, preNl |-> <<>>, null |-> FALSE]
\* Mistake: a newline in a target is ignored.
AddToTargetAnyNewline(s, t) ==
    IF s.null THEN s
    ELSE CASE t \in {"text", "quote"} -> [s EXCEPT !.buf = Append(@, t)]
           [] t = "tag" -> [s EXCEPT !.null = TRUE]
           [] OTHER -> s

AddToTarget(s, t) ==
    IF s.null THEN s
    ELSE CASE t \in {"text", "quote"} -> [s EXCEPT !.buf = Append(@, t)]
           [] t = "tag" -> [s EXCEPT !.null = TRUE]
           [] t = "nl" /\ s.buf # <<>> /\ s.preNl = <<>> -> [s EXCEPT !.preNl = s.buf, !.buf = <<>>]
           [] t = "nl" /\ s.buf # <<>> /\ s.preNl # <<>> -> [s EXCEPT !.null = TRUE]
           [] OTHER -> s
isNull(s) == s.null \/ (s.preNl # <<>> /\ s.buf # <<>>)
\* A prefix that is the name of a function makes it one whatever its tokens are.
resolveTemplateTarget(tokens, prefix, validTitle) ==
    IF prefix # "none" THEN prefix
    ELSE IF isNull(FoldLeft(AddToTarget, NoTarget, tokens)) \/ ~validTitle THEN "null"
    ELSE "template"

ResolveTarget ==
    /\ h.call /\ h.token.kind = "target"
    /\ h' = [h EXCEPT !.call = FALSE, !.final = 1,
                !.out = <<resolveTemplateTarget(h.token.tokens, h.token.prefix, h.token.validTitle)>>]
    /\ UNCHANGED conf

-----------------------------------------------------------------------------
Tokens ==
    [kind : {"template"}, title : Titles, target : Targets,
     templatedName : BOOLEAN, hadTemplatedName : {FALSE},
     params : {"strings", "tokens", "wikitext"}]
Args == [kind : {"templatearg"}, stringName : BOOLEAN, passed : BOOLEAN,
         default : {"none", "string", "tokens"}]
\* A name as it is written, and a value that tells the parameters apart.
ParamLists ==
    {[i \in DOMAIN names |-> [k |-> names[i].k, equals |-> names[i].equals, value |-> i]] :
        names \in BoundedSeq([k : ParamNames \cup {""}, equals : BOOLEAN], MaxParams)}
WellFormed(params) == \A i \in DOMAIN params : params[i].k # "" => params[i].equals
Parameters == [kind : {"parameters"}, params : {p \in ParamLists : WellFormed(p)}]
TargetTokens ==
    LET ofKind(prefixes, n) ==
            [kind : {"target"}, prefix : prefixes, validTitle : BOOLEAN,
             tokens : BoundedSeq({"text", "quote", "nl", "comment", "tag"}, n)]
    IN  ofKind({"none"}, MaxTarget) \cup ofKind({"!", "masq", "function", "missing"}, 1)

\* Only the page itself is parsed at the top level, and with the default options.
AsParsed(settings) == settings.toplevel => settings.expandTemplates /\ ~settings.inTemplate

Init ==
    \E settings \in Settings, token \in Tokens \cup Args \cup Parameters \cup TargetTokens :
        /\ token.kind \in {"parameters", "target"} => settings = DefaultSettings
        /\ AsParsed(settings) /\ conf = settings
        /\ h = NewCall(token)

Next ==
    \/ OnTemplate \/ NameExpanded \/ AttributesExpanded \/ ParamsExpanded
    \/ SourceArrives \/ OnChunk \/ OnEnd \/ FunctionAnswers \/ Exploded \/ Nested
    \/ OnTemplateArg \/ ArgNameExpanded \/ DefaultExpanded \/ GetArgInfo
    \/ ResolveTarget

Spec == Init /\ [][Next]_vars /\ WF_vars(Next)

-----------------------------------------------------------------------------
\* Whoever gave the handler a token is told once that its answer is complete, and
\* then nothing of the transclusion is still on its way.
AnsweredOnce ==
    /\ h.final <= 1
    /\ h.final = 1 => h.pending = {} /\ ~h.call

\* A transclusion of the page that is answered stands between its two markers, with
\* nothing of it outside, or is the placeholder of one that was made before and
\* nothing else, unless what was between the start and the fetched text failed: a
\* native expansion that is too deep, loops or has no valid target, and a
\* preprocessor that must not be asked.  A cell is given only below the top level.
Failed ==
    \/ ~conf.fetchTemplates
    \/ ~conf.usePHPPreProcessor /\ {Text("link"), Text("braces")} \cap Range(h.out) # {}
WholeInWrapper ==
    h.final = 1 /\ h.token.kind = "template" /\ conf.expandTemplates /\ ~Failed
        /\ Head(h.out) \notin {Text("meta"), Text("braces"), Text("error")}
        /\ (conf.toplevel \/ Head(h.out) # Text("cell")) =>
        IF Fragment \in Range(h.out) THEN h.out = <<Fragment>>
        ELSE /\ Head(h.out) = Start(h.id) /\ Last(h.out) = End(h.id)
             /\ \A i \in 2..Len(h.out) - 1 : h.out[i][1] \notin {"start", "end"}

\* No template is expanded within itself by the native expansion, and no frame is
\* more than one deeper than the limit.
NoEndlessInclusion ==
    /\ Depth <= maxDepth + 1
    /\ ~conf.usePHPPreProcessor => IsInjective(conf.path)

\* The parameters of data-mw: the unnamed ones are numbered from one, whatever named
\* ones stand between; the last value of a name counts, and each name is listed once.
ArgumentsAsWritten ==
    h.token.kind = "parameters" /\ h.final = 1 =>
        LET params == h.token.params
            info == h.out[1]
            number(i) == Cardinality({n \in 1..i : isPositional(params[n])})
            key(i) == IF isPositional(params[i]) THEN ToString(number(i)) ELSE params[i].k
            keys == {key(i) : i \in DOMAIN params}
        IN  /\ DOMAIN info.dict = keys
            /\ \A i \in DOMAIN params :
                 (\A n \in DOMAIN params : n > i => key(n) # key(i)) =>
                    info.dict[key(i)] = [value |-> params[i].value, trimmed |-> ~isPositional(params[i])]
            /\ Len(info.paramInfos) = Cardinality(keys)
            /\ {info.paramInfos[i].k : i \in DOMAIN info.paramInfos} = keys

\* A target is a title when its text is on one line and nothing but text: what is
\* ignored may stand anywhere, newlines before the first and after the last of it.
TargetsOnOneLine ==
    h.token.kind = "target" /\ h.final = 1 /\ h.token.prefix = "none" =>
        LET tokens == h.token.tokens
            text == {i \in DOMAIN tokens : tokens[i] \in {"text", "quote"}}
        IN  h.out[1] = "template" <=>
                /\ h.token.validTitle
                /\ "tag" \notin Range(tokens)
                /\ ~\E i, j \in text, n \in DOMAIN tokens : i < n /\ n < j /\ tokens[n] = "nl"

\* Every call of the handler is answered in the end.
EveryTokenIsAnswered == <>(h.final = 1 \/ h.fatal)
=============================================================================
