--------------------------- MODULE TransclusionProofs ---------------------------
(***************************************************************************)
(* Theorems about one transclusion and one tag of Expansion: no endless    *)
(* inclusion, the source as it is written, whole in its wrapper.           *)
(***************************************************************************)
EXTENDS Expansion, SequencesExt, FiniteSetsExt, SequenceTheorems, FiniteSetTheorems, TLAPS

-----------------------------------------------------------------------------
(* The frames of a transclusion *)

\* The fields of the handler's state, which every step leaves.
Fields == {"call", "token", "acc", "pending", "left", "id", "out", "final", "fatal"}

\* What a frame is of: a template, or the page.
FrameTitles == Titles \cup {""}
\* The frames: `null` for the page, and the templates its text is in.
PathOK ==
    /\ "path" \in DOMAIN conf /\ conf.path \in Seq(FrameTitles) /\ conf.path # <<>>
    /\ T!NoEndlessInclusion
\* Only a template has a name, attributes and a text.
OfTemplates == {"name", "attributes", "source", "text"}
TokenOK ==
    /\ h.token.kind = "template" => h.token.title \in Titles
    /\ OfTemplates \cap h.pending # {} => h.token.kind = "template"
\* The text is asked for, or is there: the check was passed, in the frame in which the
\* handler is still.
Fetching(s) == {"source", "text"} \cap s.pending # {}
Allowed(title) ==
    T!Depth <= maxDepth /\ (~conf.usePHPPreProcessor => title \notin T!Range(conf.path))
FramesInv ==
    part = "transclusion" =>
        DOMAIN h = Fields /\ PathOK /\ TokenOK /\ (Fetching(h) => Allowed(h.token.title))

\* State s goes on to r, and waits for nothing but what it did and `what`.
Goes(s, r, what) ==
    /\ DOMAIN s = Fields => DOMAIN r = Fields /\ r.token = s.token
    /\ DOMAIN s = Fields => r.pending \subseteq s.pending \cup what

LEMMA GoesThrough ==
    ASSUME NEW s, NEW r, NEW q, NEW what, NEW more, DOMAIN s = Fields, Goes(s, r, what), Goes(r, q, more)
    PROVE  Goes(s, q, what \cup more)
  BY DEF Goes

LEMMA AnswerGoes ==
    ASSUME NEW s, NEW tokens, NEW async
    PROVE  /\ Goes(s, T!Cb(s, tokens, async), {})
           /\ Goes(s, T!Child(s, tokens, async), {})
           /\ Goes(s, T!Sibling(s, tokens, async), {})
<1>1. \A r : Goes(s, T!Calls(s, r), {})
  BY DEF Goes, T!Calls, Fields
<1>2. Goes(s, T!Cb(s, tokens, async), {})
  BY DEF Goes, T!Cb, Fields
<1>3. Goes(s, T!Child(s, tokens, async), {})
  BY <1>1, Zenon DEF T!Child
<1> QED
  BY <1>1, <1>2, <1>3 DEF T!Sibling

LEMMA WaitGoes ==
    ASSUME NEW s, NEW what
    PROVE  Goes(s, T!Waits(s, what), {what}) /\ Goes(s, T!Comes(s, what), {})
  BY DEF Goes, T!Waits, T!Comes, Fields

\* An answer, and then to wait.
LEMMA WaitAfter ==
    ASSUME NEW s, NEW r, NEW what, Goes(s, r, {})
    PROVE  Goes(s, T!Waits(r, what), {what})
  BY WaitGoes DEF Goes

LEMMA EncapsulateGoes ==
    ASSUME NEW s
    PROVE  Goes(s, T!encapsulateTemplate(s), {"params"})
<1>1. Goes(s, [s EXCEPT !.fatal = TRUE], {"params"})
  BY DEF Goes, Fields
<1>2. Goes(s, T!Waits(T!Child(s, <<>>, TRUE), "params"), {"params"})
  BY AnswerGoes, WaitAfter
<1>3. Goes(s, T!Child(s, <<T!Start(s.id)>>, FALSE), {"params"})
  <2>1. Goes(s, T!Child(s, <<T!Start(s.id)>>, FALSE), {})
    BY AnswerGoes
  <2> QED
    BY <2>1 DEF Goes
<1> QED
  BY <1>1, <1>2, <1>3 DEF T!encapsulateTemplate

LEMMA ExplodeGoes ==
    ASSUME NEW s
    PROVE  Goes(s, T!convertAttribsToString(s), {"explode"})
  BY AnswerGoes, WaitAfter DEF T!convertAttribsToString

LEMMA FetchGoes ==
    ASSUME NEW s
    PROVE  /\ Goes(s, T!fetchExpandedTpl(s), {"source"})
           /\ Goes(s, T!fetchTemplateAndTitle(s), {"source", "text"})
<1>1. \A w : Goes(s, T!Waits(T!Sibling(s, <<>>, TRUE), w), {w})
  BY AnswerGoes, WaitAfter
<1>2. \A x, y : Goes(s, T!Sibling(s, x, y), {})
  BY AnswerGoes
<1>3. Goes(s, T!fetchExpandedTpl(s), {"source"})
  BY <1>1, <1>2 DEF T!fetchExpandedTpl, Goes
<1>4. Goes(s, T!fetchTemplateAndTitle(s), {"source", "text"})
  <2>1. CASE conf.cached
    <3>1. Goes(s, T!Waits(s, "text"), {"text"})
      BY WaitGoes
    <3> PICK r : r = T!Waits(s, "text")
      OBVIOUS
    <3>2. Goes(s, [r EXCEPT !.left = MaxText], {"source", "text"})
      BY <3>1 DEF Goes, Fields
    <3> QED
      BY <2>1, <3>2 DEF T!fetchTemplateAndTitle
  <2>2. CASE ~conf.cached /\ ~conf.fetchTemplates
    <3> PICK anew : anew = [s EXCEPT !.id = IF conf.expandTemplates THEN @ + 1 ELSE @]
      OBVIOUS
    <3>1. Goes(s, anew, {})
      BY DEF Goes, Fields
    <3>2. PICK tokens : T!fetchTemplateAndTitle(s) = T!Sibling(anew, tokens, FALSE)
      BY <2>2 DEF T!fetchTemplateAndTitle
    <3>3. Goes(anew, T!fetchTemplateAndTitle(s), {})
      BY <3>2, AnswerGoes
    <3> QED
      BY <3>1, <3>3 DEF Goes
  <2>3. CASE ~conf.cached /\ conf.fetchTemplates
    <3>1. Goes(s, T!fetchTemplateAndTitle(s), {"source"})
      BY <1>1, <2>3 DEF T!fetchTemplateAndTitle
    <3> QED
      BY <3>1 DEF Goes
  <2> QED
    BY <2>1, <2>2, <2>3
<1> QED
  BY <1>3, <1>4

\* The preprocessor is asked for a template only where the limit allows.
LEMMA OnTemplateGoes ==
    ASSUME NEW s, DOMAIN s = Fields, NEW r, r = T!onTemplate(s)
    PROVE  /\ DOMAIN r = Fields /\ r.token = s.token
           /\ r.pending \subseteq s.pending \cup {"name", "explode", "params", "attributes", "source"}
           /\ "source" \in r.pending \ s.pending =>
                conf.usePHPPreProcessor /\ ~T!loopAndDepthCheck(s.token.title, TRUE)
<1> DEFINE New == {"name", "explode", "params", "attributes"}
<1>1. Goes(s, T!WithAccumulator(s), {})
  BY DEF T!WithAccumulator, Goes, Fields
<1>2. ASSUME NEW tokens, NEW async
      PROVE  Goes(s, T!Cb(s, tokens, async), New)
  BY AnswerGoes DEF Goes
<1>3. Goes(s, T!convertAttribsToString(s), New)
  BY ExplodeGoes DEF Goes
<1>4. PICK e : e = T!encapsulateTemplate(T!WithAccumulator(s))
  OBVIOUS
<1>5. Goes(s, e, {"params"})
  BY <1>1, <1>4, EncapsulateGoes DEF Goes
<1>6. Goes(s, T!ExpandNatively(s), New)
  <2> PICK f : f = IF conf.expandTemplates THEN e ELSE s
    OBVIOUS
  <2>1. Goes(s, f, {"params"})
    BY <1>5 DEF Goes
  <2>2. Goes(f, T!Waits(T!Sibling(f, <<>>, TRUE), "attributes"), {"attributes"})
    BY AnswerGoes, WaitAfter
  <2>3. \/ T!ExpandNatively(s) = f
        \/ T!ExpandNatively(s) = T!Waits(T!Sibling(f, <<>>, TRUE), "attributes")
    BY <1>4, Zenon DEF T!ExpandNatively
  <2> QED
    BY <2>1, <2>2, <2>3 DEF Goes
<1>7. \/ Goes(s, T!ExpandByPHP(s), New)
      \/ ~T!loopAndDepthCheck(s.token.title, TRUE) /\ Goes(s, T!ExpandByPHP(s), New \cup {"source"})
  <2>1. Goes(e, T!fetchExpandedTpl(e), {"source"})
    BY FetchGoes
  <2>2. Goes(s, T!fetchExpandedTpl(e), New \cup {"source"}) /\ Goes(s, e, New)
    BY <1>5, <2>1 DEF Goes
  <2>3. CASE T!loopAndDepthCheck(s.token.title, TRUE)
    BY <1>2, <2>3 DEF T!ExpandByPHP
  <2>4. CASE ~T!loopAndDepthCheck(s.token.title, TRUE)
    BY <1>2, <1>4, <2>2, <2>4 DEF T!ExpandByPHP
  <2> QED
    BY <2>3, <2>4
<1>8. \/ Goes(s, r, New)
      \/ conf.usePHPPreProcessor /\ r = T!ExpandByPHP(s)
  <2>1. \A x : Goes(s, T!processSpecialMagicWord(s, x), New)
    <3> PICK anew : anew = [s EXCEPT !.id = @ + 1]
      OBVIOUS
    <3>1. Goes(s, anew, {})
      BY DEF Goes, Fields
    <3>2. ASSUME NEW tokens PROVE Goes(anew, T!Cb(anew, tokens, FALSE), {})
      <4>1. DOMAIN anew = Fields
        BY <3>1 DEF Goes
      <4> QED
        BY <4>1, AnswerGoes
    <3>3. \A tokens : Goes(s, T!Cb(anew, tokens, FALSE), New)
      BY <3>1, <3>2 DEF Goes
    <3> TAKE x
    <3>4. \/ \E tokens : T!processSpecialMagicWord(s, x) = T!Cb(s, tokens, FALSE)
          \/ \E tokens : T!processSpecialMagicWord(s, x) = T!Cb(anew, tokens, FALSE)
      BY Zenon DEF T!processSpecialMagicWord
    <3> QED
      BY <1>2, <3>3, <3>4
  <2>2. Goes(s, T!Waits(T!Cb(s, <<>>, TRUE), "name"), New)
    <3>1. Goes(s, T!Waits(T!Cb(s, <<>>, TRUE), "name"), {"name"})
      BY AnswerGoes, WaitAfter
    <3> QED
      BY <3>1 DEF Goes
  <2> HIDE DEF New
  <2> QED
    BY <1>3, <1>6, <2>1, <2>2 DEF T!onTemplate
<1>9. CASE Goes(s, r, New)
  BY <1>9 DEF Goes
<1>10. CASE conf.usePHPPreProcessor /\ r = T!ExpandByPHP(s)
  <2>1. CASE Goes(s, r, New)
    BY <2>1 DEF Goes
  <2>2. CASE ~T!loopAndDepthCheck(s.token.title, TRUE) /\ Goes(s, r, New \cup {"source"})
    BY <1>10, <2>2 DEF Goes
  <2> QED
    BY <1>7, <1>10, <2>1, <2>2, Zenon
<1> QED
  BY <1>8, <1>9, <1>10

\* The native expansion asks for the text of a template that none of its frames has.
LEMMA ExpandTemplateGoes ==
    ASSUME NEW s, DOMAIN s = Fields, NEW target, NEW r, r = T!expandTemplate(s, target)
    PROVE  /\ DOMAIN r = Fields /\ r.token = s.token
           /\ r.pending \subseteq s.pending \cup {"explode", "function", "source", "text"}
           /\ {"source", "text"} \cap (r.pending \ s.pending) # {} =>
                ~T!loopAndDepthCheck(s.token.title, FALSE)
<1>1. \/ r = T!convertAttribsToString(s)
      \/ \E tokens : r = T!Sibling(s, tokens, FALSE)
      \/ r = T!Waits(s, "function")
      \/ ~T!loopAndDepthCheck(s.token.title, FALSE) /\ r = T!fetchTemplateAndTitle(s)
  BY DEF T!expandTemplate
<1>2. CASE r = T!convertAttribsToString(s)
  BY <1>2, ExplodeGoes DEF Goes
<1>3. CASE \E tokens : r = T!Sibling(s, tokens, FALSE)
  <2> PICK tokens : r = T!Sibling(s, tokens, FALSE)
    BY <1>3
  <2>1. Goes(s, r, {})
    BY AnswerGoes
  <2> QED
    BY <2>1 DEF Goes
<1>4. CASE r = T!Waits(s, "function")
  <2>1. Goes(s, r, {"function"})
    BY <1>4, WaitGoes
  <2> QED
    BY <2>1 DEF Goes
<1>5. CASE ~T!loopAndDepthCheck(s.token.title, FALSE) /\ r = T!fetchTemplateAndTitle(s)
  BY <1>5, FetchGoes DEF Goes
<1> QED
  BY <1>1, <1>2, <1>3, <1>4, <1>5

\* What a step that stays in the frame may do to the state.
LEMMA InFrame ==
    ASSUME FramesInv, part = "transclusion", part' = part, conf' = conf, DOMAIN (h') = Fields,
           h'.token.kind = h.token.kind,
           h.token.kind = "template" => h'.token.title = h.token.title,
           OfTemplates \cap h'.pending # {} => h.token.kind = "template",
           Fetching(h)' => Fetching(h) \/ Allowed(h.token.title)
    PROVE  FramesInv' /\ h'.token.kind = h.token.kind
<1>1. PathOK'
  BY DEF FramesInv, PathOK, T!NoEndlessInclusion, T!Depth, T!IsInjective
<1>2. TokenOK'
  BY DEF FramesInv, TokenOK
<1>3. Fetching(h)' => Allowed(h.token.title)'
  <2> SUFFICES ASSUME Fetching(h)' PROVE Allowed(h.token.title)'
    OBVIOUS
  <2>1. h'.token.title = h.token.title
    BY DEF Fetching, OfTemplates
  <2>2. Allowed(h.token.title)
    BY DEF FramesInv
  <2> QED
    BY <2>1, <2>2 DEF Allowed, T!Depth
<1> QED
  BY <1>1, <1>2, <1>3 DEF FramesInv

\* A step that neither changes the token nor asks for a text.
LEMMA Waiting ==
    ASSUME FramesInv, part = "transclusion", part' = part, conf' = conf,
           NEW what, Goes(h, h', what), OfTemplates \cap what = {}
    PROVE  FramesInv' /\ h'.token.kind = h.token.kind
<1>0. DOMAIN (h') = Fields /\ h'.token = h.token /\ h'.pending \subseteq h.pending \cup what
  BY DEF FramesInv, Goes
<1>1. OfTemplates \cap h'.pending # {} => h.token.kind = "template"
  BY <1>0 DEF FramesInv, TokenOK
<1>2. Fetching(h)' => Fetching(h)
  BY <1>0 DEF Fetching, OfTemplates
<1> QED
  BY <1>0, <1>1, <1>2, InFrame

\* One that answers, whatever it waited for.
LEMMA Answering ==
    ASSUME FramesInv, part = "transclusion", part' = part, conf' = conf, NEW s, Goes(h, s, {}), Goes(s, h', {})
    PROVE  FramesInv' /\ h'.token.kind = h.token.kind
<1> PICK what : what = {}
  OBVIOUS
<1>1. Goes(h, h', what) /\ OfTemplates \cap what = {}
  BY DEF Goes
<1> QED
  BY <1>1, Waiting

LEMMA DepthIs ==
    ASSUME PathOK
    PROVE  maxDepth \in Nat /\ Len(conf.path) \in Nat /\ T!Depth = Len(conf.path) - 1
<1>1. maxDepth \in Nat
  BY ExpansionAssumption
<1>2. Len(conf.path) \in Nat
  BY DEF PathOK
<1> QED
  BY <1>1, <1>2 DEF T!Depth

LEMMA TransclusionStepKeeps ==
    ASSUME FramesInv, part = "transclusion", part' = part, T!Next
    PROVE  FramesInv' /\ h'.token.kind = h.token.kind
<1>0. DOMAIN h = Fields /\ PathOK /\ TokenOK /\ (Fetching(h) => Allowed(h.token.title))
  BY DEF FramesInv
<1>1. CASE T!OnTemplate
  <2> PICK s : s = [h EXCEPT !.call = FALSE]
    OBVIOUS
  <2>1. DOMAIN s = Fields /\ s.token = h.token /\ s.pending = h.pending
    BY <1>0 DEF Fields
  <2>2. h' = T!onTemplate(s) /\ conf' = conf /\ h.token.kind = "template"
    BY <1>1 DEF T!OnTemplate
  <2>3. /\ DOMAIN (h') = Fields /\ h'.token = h.token
        /\ h'.pending \subseteq h.pending \cup {"name", "explode", "params", "attributes", "source"}
        /\ "source" \in h'.pending \ h.pending =>
             conf.usePHPPreProcessor /\ ~T!loopAndDepthCheck(h.token.title, TRUE)
    BY <2>1, <2>2, OnTemplateGoes
  <2>4. Fetching(h)' => Fetching(h) \/ Allowed(h.token.title)
    <3>1. PathOK
      BY <1>0
    <3>2. T!Depth \in Int /\ maxDepth \in Int
      BY <3>1, DepthIs
    <3> QED
      BY <2>3, <3>2 DEF Fetching, Allowed, T!loopAndDepthCheck
  <2> QED
    BY <2>2, <2>3, <2>4, InFrame
<1>2. CASE T!NameExpanded
  <2>1. PICK target, generated :
          h' = [T!Comes(h, "name") EXCEPT !.call = TRUE, !.token.templatedName = FALSE,
                 !.token.target = target, !.token.hadTemplatedName = generated]
    BY <1>2 DEF T!NameExpanded
  <2> PICK s : s = T!Comes(h, "name")
    OBVIOUS
  <2>2. DOMAIN s = Fields /\ s.token = h.token /\ s.pending \subseteq h.pending
    BY <1>0, WaitGoes DEF Goes
  <2>3. /\ DOMAIN (h') = Fields /\ h'.pending = s.pending
        /\ h'.token = [h.token EXCEPT !.templatedName = FALSE, !.target = target, !.hadTemplatedName = generated]
    BY <2>1, <2>2 DEF Fields
  <2>4. h'.token.kind = h.token.kind /\ h'.token.title = h.token.title
    BY <2>3
  <2>5. conf' = conf
    BY <1>2 DEF T!NameExpanded
  <2>6. OfTemplates \cap h'.pending # {} => h.token.kind = "template"
    BY <1>0, <2>2, <2>3 DEF TokenOK
  <2>7. Fetching(h)' => Fetching(h)
    BY <2>2, <2>3 DEF Fetching
  <2> QED
    BY <2>3, <2>4, <2>5, <2>6, <2>7, InFrame
<1>3. CASE T!AttributesExpanded
  <2> PICK s : s = T!Comes(h, "attributes")
    OBVIOUS
  <2>1. DOMAIN s = Fields /\ s.token = h.token /\ s.pending \subseteq h.pending
    BY <1>0, WaitGoes DEF Goes
  <2>2. PICK target : h' = T!expandTemplate(s, target)
    BY <1>3 DEF T!AttributesExpanded
  <2>3. conf' = conf /\ h.token.kind = "template"
    BY <1>0, <1>3 DEF T!AttributesExpanded, TokenOK, OfTemplates
  <2>4. /\ DOMAIN (h') = Fields /\ h'.token = h.token
        /\ h'.pending \subseteq s.pending \cup {"explode", "function", "source", "text"}
        /\ {"source", "text"} \cap (h'.pending \ s.pending) # {} =>
             ~T!loopAndDepthCheck(h.token.title, FALSE)
    BY <2>1, <2>2, ExpandTemplateGoes
  <2>5. Fetching(h)' => Fetching(h) \/ Allowed(h.token.title)
    <3>1. PathOK
      BY <1>0
    <3>2. T!Depth \in Int /\ maxDepth \in Int
      BY <3>1, DepthIs
    <3> QED
      BY <2>1, <2>4, <3>2 DEF Fetching, Allowed, T!loopAndDepthCheck
  <2> QED
    BY <2>3, <2>4, <2>5, InFrame
<1>4. CASE T!SourceArrives
  <2>1. PICK n : h' = [T!Waits(T!Comes(h, "source"), "text") EXCEPT !.left = n]
    BY <1>4 DEF T!SourceArrives
  <2>2. Goes(h, T!Waits(T!Comes(h, "source"), "text"), {"text"})
    BY WaitGoes, WaitAfter
  <2>3. DOMAIN (h') = Fields /\ h'.token = h.token /\ h'.pending \subseteq h.pending \cup {"text"}
    BY <1>0, <2>1, <2>2 DEF Goes, Fields
  <2>4. conf' = conf /\ h.token.kind = "template" /\ Fetching(h)
    BY <1>0, <1>4 DEF T!SourceArrives, TokenOK, OfTemplates, Fetching
  <2> QED
    BY <2>3, <2>4, InFrame
<1>5. CASE T!Nested
  <2>1. PICK title \in Titles, inTag \in BOOLEAN :
          /\ conf' = [conf EXCEPT !.path = Append(@, h.token.title), !.toplevel = FALSE,
                                  !.expandTemplates = inTag, !.inTemplate = TRUE]
          /\ h' = T!NewCall([h.token EXCEPT !.title = title, !.target = "template",
                                            !.templatedName = FALSE, !.hadTemplatedName = FALSE])
    BY <1>5 DEF T!Nested
  <2>2. h.token.kind = "template" /\ h.token.title \in Titles /\ Allowed(h.token.title)
    BY <1>0, <1>5 DEF T!Nested, TokenOK, OfTemplates, Fetching
  <2>3. DOMAIN (h') = Fields /\ h'.pending = {}
    BY <2>1 DEF T!NewCall, Fields
  <2>4. TokenOK'
    <3>1. h'.token = [h.token EXCEPT !.title = title, !.target = "template",
                                     !.templatedName = FALSE, !.hadTemplatedName = FALSE]
      BY <2>1 DEF T!NewCall
    <3>2. h'.token.title \in {title, h.token.title}
      BY <3>1
    <3> QED
      BY <2>2, <2>3, <3>2 DEF TokenOK
  <2>6. h'.token.kind = h.token.kind
    <3>1. h'.token = [h.token EXCEPT !.title = title, !.target = "template",
                                     !.templatedName = FALSE, !.hadTemplatedName = FALSE]
      BY <2>1 DEF T!NewCall
    <3> QED
      BY <2>2, <3>1
  <2>5. PathOK'
    <3> PICK path, last : path = conf.path /\ last = h.token.title
      OBVIOUS
    <3>1. path \in Seq(FrameTitles) /\ path # <<>> /\ "path" \in DOMAIN conf
      BY <1>0 DEF PathOK
    <3>2. /\ conf'.path = Append(path, last) /\ "path" \in DOMAIN (conf')
          /\ conf'.usePHPPreProcessor = conf.usePHPPreProcessor
      <4>1. DOMAIN (conf') = DOMAIN conf
        BY <2>1
      <4>2. conf'.path = Append(path, last)
        BY <2>1, <3>1
      <4>3. conf'.usePHPPreProcessor = conf.usePHPPreProcessor
        BY <2>1
      <4> QED
        BY <3>1, <4>1, <4>2, <4>3
    <3>3. /\ Append(path, last) \in Seq(FrameTitles) /\ Append(path, last) # <<>>
          /\ Len(Append(path, last)) = Len(path) + 1
          /\ DOMAIN Append(path, last) = DOMAIN path \cup {Len(path) + 1}
          /\ Append(path, last)[Len(path) + 1] = last
          /\ \A i \in DOMAIN path : i # Len(path) + 1 /\ Append(path, last)[i] = path[i]
      <4>1. last \in FrameTitles
        BY <2>2, Zenon DEF FrameTitles
      <4> QED
        BY <3>1, <4>1
    <3>4. T!Depth' <= maxDepth + 1
      <4>1. Len(path) \in Nat /\ maxDepth \in Nat /\ Len(path) - 1 <= maxDepth
        BY <1>0, <2>2, DepthIs DEF Allowed
      <4> QED
        BY <3>2, <3>3, <4>1 DEF T!Depth
    <3>5. ASSUME ~conf.usePHPPreProcessor PROVE T!IsInjective(conf'.path)
      <4>1. T!IsInjective(path) /\ \A i \in DOMAIN path : path[i] # last
        BY <1>0, <2>2, <3>5 DEF PathOK, T!NoEndlessInclusion, Allowed, T!Range
      <4>2. \A i, k \in DOMAIN path : path[i] = path[k] => i = k
        BY <4>1 DEF T!IsInjective
      <4> PICK longer : longer = Append(path, last)
        OBVIOUS
      <4>4. /\ DOMAIN longer = DOMAIN path \cup {Len(path) + 1} /\ longer[Len(path) + 1] = last
            /\ \A i \in DOMAIN path : longer[i] = path[i]
        BY <3>3
      <4>3. \A i, k \in DOMAIN longer : longer[i] = longer[k] => i = k
        BY <4>1, <4>2, <4>4
      <4> QED
        BY <3>2, <4>3 DEF T!IsInjective
    <3> QED
      BY <3>2, <3>3, <3>4, <3>5 DEF PathOK, T!NoEndlessInclusion
  <2> QED
    BY <2>3, <2>4, <2>5, <2>6 DEF FramesInv, Fetching
<1>6. CASE T!ParamsExpanded
  <2> PICK s : s = T!Comes(h, "params")
    OBVIOUS
  <2>1. PICK tokens : h' = T!Child(s, tokens, FALSE)
    BY <1>6 DEF T!ParamsExpanded
  <2>2. Goes(h, s, {}) /\ Goes(s, h', {})
    BY <2>1, AnswerGoes, WaitGoes
  <2>3. conf' = conf
    BY <1>6 DEF T!ParamsExpanded
  <2> QED
    BY <2>2, <2>3, Answering
<1>7. CASE T!OnChunk
  <2> PICK s : s = T!Sibling(h, <<T!Source>>, TRUE)
    OBVIOUS
  <2>1. Goes(h, s, {}) /\ h' = [s EXCEPT !.left = @ - 1] /\ conf' = conf
    BY <1>7, AnswerGoes DEF T!OnChunk
  <2>2. Goes(s, h', {})
    BY <2>1 DEF Goes, Fields
  <2> QED
    BY <2>1, <2>2, Answering
<1>8. CASE T!OnEnd
  <2> PICK s : s = T!Comes(h, "text")
    OBVIOUS
  <2>1. PICK tokens : h' = T!Sibling(s, tokens, FALSE)
    BY <1>8 DEF T!OnEnd, T!onEnd
  <2>2. Goes(h, s, {}) /\ Goes(s, h', {})
    BY <2>1, AnswerGoes, WaitGoes
  <2>3. conf' = conf
    BY <1>8 DEF T!OnEnd
  <2> QED
    BY <2>2, <2>3, Answering
<1>9. CASE T!FunctionAnswers
  <2> PICK s : s = T!Comes(h, "function")
    OBVIOUS
  <2> PICK x : x = T!Sibling(s, <<T!Text("result")>>, TRUE)
    OBVIOUS
  <2>1. Goes(h, s, {}) /\ Goes(s, x, {}) /\ Goes(x, T!onEnd(x), {})
    BY WaitGoes, AnswerGoes DEF T!onEnd
  <2>2. Goes(s, T!Cb(s, <<T!Text("result")>>, FALSE), {})
    BY AnswerGoes
  <2>3. h' = T!onEnd(x) \/ h' = T!Cb(s, <<T!Text("result")>>, FALSE)
    BY <1>9 DEF T!FunctionAnswers
  <2>4. Goes(s, h', {})
    BY <2>1, <2>2, <2>3 DEF Goes
  <2>5. conf' = conf
    BY <1>9 DEF T!FunctionAnswers
  <2> QED
    BY <2>1, <2>4, <2>5, Answering
<1>10. CASE T!Exploded
  <2> PICK s : s = T!Comes(h, "explode")
    OBVIOUS
  <2>1. PICK tokens : h' = T!Sibling(s, tokens, FALSE)
    BY <1>10 DEF T!Exploded
  <2>2. Goes(h, s, {}) /\ Goes(s, h', {})
    BY <2>1, AnswerGoes, WaitGoes
  <2>3. conf' = conf
    BY <1>10 DEF T!Exploded
  <2> QED
    BY <2>2, <2>3, Answering
<1>11. ASSUME NEW s, NEW r, Goes(h, s, {}), r = T!lookupArg(s)
       PROVE  Goes(h, r, {"default"})
  <2>1. \A t : Goes(s, T!GiveArg(s, t), {})
    BY AnswerGoes DEF T!GiveArg
  <2>2. Goes(s, T!Waits(T!Cb(s, <<>>, TRUE), "default"), {"default"})
    BY AnswerGoes, WaitAfter
  <2>3. \/ \E t : r = T!GiveArg(s, t)
        \/ r = T!Waits(T!Cb(s, <<>>, TRUE), "default")
    BY <1>11 DEF T!lookupArg
  <2>4. Goes(s, r, {"default"})
    BY <2>1, <2>2, <2>3 DEF Goes
  <2> QED
    BY <1>11, <2>4 DEF Goes
<1>12. CASE T!OnTemplateArg
  <2> PICK s : s = [h EXCEPT !.call = FALSE]
    OBVIOUS
  <2>1. Goes(h, s, {})
    BY DEF Goes, Fields
  <2>2. Goes(s, T!Waits(T!Cb(s, <<>>, TRUE), "argName"), {"argName"})
    BY AnswerGoes, WaitAfter
  <2>3. Goes(h, T!lookupArg(s), {"default"})
    BY <1>11, <2>1
  <2>4. Goes(h, h', {"default", "argName"})
    BY <1>12, <2>1, <2>2, <2>3 DEF T!OnTemplateArg, Goes
  <2> PICK what : what = {"default", "argName"}
    OBVIOUS
  <2>5. Goes(h, h', what) /\ OfTemplates \cap what = {} /\ conf' = conf
    BY <1>12, <2>4 DEF T!OnTemplateArg, Goes, OfTemplates
  <2> QED
    BY <2>5, Waiting
<1>13. CASE T!ArgNameExpanded
  <2>1. Goes(h, h', {"default"})
    BY <1>11, <1>13, WaitGoes DEF T!ArgNameExpanded
  <2> PICK what : what = {"default", "argName"}
    OBVIOUS
  <2>5. Goes(h, h', what) /\ OfTemplates \cap what = {} /\ conf' = conf
    BY <1>13, <2>1 DEF T!ArgNameExpanded, Goes, OfTemplates
  <2> QED
    BY <2>5, Waiting
<1>14. CASE T!DefaultExpanded
  <2> PICK s : s = T!Comes(h, "default")
    OBVIOUS
  <2>1. PICK tokens : h' = T!Cb(s, tokens, FALSE)
    BY <1>14 DEF T!DefaultExpanded, T!GiveArg
  <2>2. Goes(h, s, {}) /\ Goes(s, h', {})
    BY <2>1, AnswerGoes, WaitGoes
  <2>3. conf' = conf
    BY <1>14 DEF T!DefaultExpanded
  <2> QED
    BY <2>2, <2>3, Answering
<1>15. CASE T!GetArgInfo \/ T!ResolveTarget
  <2>1. conf' = conf /\ Goes(h, h', {}) /\ Goes(h, h, {})
    BY <1>15 DEF T!GetArgInfo, T!ResolveTarget, Goes, Fields
  <2> QED
    BY <2>1, Answering
<1> QED
  BY <1>1, <1>2, <1>3, <1>4, <1>5, <1>6, <1>7, <1>8, <1>9, <1>10, <1>12, <1>13, <1>14, <1>15 DEF T!Next

LEMMA FramesStart == Init => FramesInv
<1> SUFFICES ASSUME T!Init PROVE DOMAIN h = Fields /\ PathOK /\ TokenOK /\ ~Fetching(h)
  BY DEF Init, FramesInv
<1>1. PICK settings \in T!Settings,
           token1 \in T!Tokens \cup T!Args \cup T!Parameters \cup T!TargetTokens :
        conf = settings /\ h = T!NewCall(token1)
  BY DEF T!Init
<1>2. DOMAIN h = Fields /\ h.pending = {} /\ h.token = token1
  BY <1>1 DEF T!NewCall, Fields
<1>3. TokenOK
  <2>1. token1 \in T!Tokens => token1.title \in Titles
    BY DEF T!Tokens
  <2>2. token1 \notin T!Tokens => token1.kind # "template"
    BY DEF T!Args, T!Parameters, T!TargetTokens
  <2> QED
    BY <1>2, <2>1, <2>2 DEF TokenOK
<1>4. PathOK
  <2>1. PICK none \in FrameTitles : none = ""
    BY Zenon DEF FrameTitles
  <2>2. "path" \in DOMAIN conf /\ conf.path = <<none>>
    <3>1. T!Settings = [path : {<<none>>}, usePHPPreProcessor : BOOLEAN, expandTemplates : BOOLEAN,
                        inTemplate : BOOLEAN, fetchTemplates : BOOLEAN, cached : BOOLEAN, addHTML : BOOLEAN,
                        toplevel : BOOLEAN]
      BY <2>1, Zenon DEF T!Settings
    <3> QED
      BY <1>1, <3>1
  <2>3. conf.path \in Seq(FrameTitles) /\ conf.path # <<>> /\ Len(conf.path) = 1 /\ DOMAIN conf.path = {1}
    BY <2>2
  <2>4. maxDepth \in Nat
    BY ExpansionAssumption
  <2>5. T!Depth <= maxDepth + 1 /\ T!IsInjective(conf.path)
    <3>1. \A i, k \in DOMAIN conf.path : i = k
      BY <2>3
    <3> QED
      BY <2>3, <2>4, <3>1 DEF T!Depth, T!IsInjective
  <2> QED
    BY <2>2, <2>3, <2>5 DEF PathOK, T!NoEndlessInclusion
<1> QED
  BY <1>2, <1>3, <1>4 DEF Fetching

\* However templates call each other, and whatever fails, arrives late or is answered
\* from the cache on the way, the native expansion of a template never reaches the
\* template itself, and no frame is more than one deeper than the limit.
THEOREM InclusionEnds == Spec => []NoEndlessInclusion
<1>1. FramesInv /\ [Next]_vars => FramesInv'
  <2> SUFFICES ASSUME FramesInv, [Next]_vars, part' = "transclusion" PROVE FramesInv'
    BY DEF FramesInv
  <2>1. part = "transclusion" /\ (T!Next \/ UNCHANGED <<conf, h>>)
    BY DEF Next, PipelinesStep, TransclusionStep, AttributesStep, vars, transclusionVars
  <2>2. CASE T!Next
    BY <2>1, <2>2, TransclusionStepKeeps
  <2>3. CASE UNCHANGED <<conf, h>>
    <3>1. conf' = conf /\ h' = h
      BY <2>3
    <3> QED
      BY <2>1, <3>1 DEF FramesInv, PathOK, TokenOK, Fetching, Allowed, T!NoEndlessInclusion, T!Depth
  <2> QED
    BY <2>1, <2>2, <2>3
<1>2. FramesInv => NoEndlessInclusion
  BY DEF FramesInv, PathOK, NoEndlessInclusion
<1> QED
  BY <1>1, <1>2, FramesStart, PTL DEF Spec

-----------------------------------------------------------------------------
(* The parameters of a template *)

Params == INSTANCE SequenceFolds WITH op <- T!AddParam

LEMMA ParamsAreFolded ==
    ASSUME NEW base, NEW s
    PROVE  Params!FoldLeft(T!AddParam, base, s) = T!FoldLeft(T!AddParam, base, s)
  BY Zenon DEF Params!FoldLeft, Params!MapThenFoldSet, Params!Max, T!FoldLeft, T!MapThenFoldSet, T!Max

\* The number and the key of parameter i, and the keys of the first n.
Positional(params, n) == {i \in 1..n : T!isPositional(params[i])}
Number(params, n) == Cardinality(Positional(params, n))
KeyOf(params, i) == IF T!isPositional(params[i]) THEN ToString(Number(params, i)) ELSE params[i].k
KeysTo(params, n) == {KeyOf(params, i) : i \in 1..n}

\* What is known of the first n parameters.
LastOfName(params, i, n) == \A m \in 1..n : m > i => KeyOf(params, m) # KeyOf(params, i)
Given(params, i) == [value |-> params[i].value, trimmed |-> ~T!isPositional(params[i])]
Listed(infos, keys) ==
    /\ IsFiniteSet(keys)
    /\ infos \in Seq([k : keys, named : BOOLEAN])
    /\ Len(infos) = Cardinality(keys)
    /\ {infos[i].k : i \in DOMAIN infos} = keys
ReadTo(info, params, n) ==
    /\ info.argIndex = Number(params, n) + 1
    /\ DOMAIN info.dict = KeysTo(params, n)
    /\ \A i \in 1..n : LastOfName(params, i, n) => info.dict[KeyOf(params, i)] = Given(params, i)
    /\ Listed(info.paramInfos, KeysTo(params, n))

LEMMA Numbers ==
    ASSUME NEW params, NEW n \in Nat
    PROVE  /\ Number(params, n) \in Nat
           /\ Number(params, n + 1) =
                Number(params, n) + (IF T!isPositional(params[n + 1]) THEN 1 ELSE 0)
           /\ Number(params, 0) = 0
<1>0. Number(params, 0) = 0
  <2>1. Positional(params, 0) = {}
    BY DEF Positional
  <2> QED
    BY <2>1, FS_EmptySet DEF Number
<1>1. IsFiniteSet(Positional(params, n))
  <2>1. IsFiniteSet(1..n)
    BY FS_Interval
  <2>2. Positional(params, n) \subseteq 1..n
    BY DEF Positional
  <2> QED
    BY <2>1, <2>2, FS_Subset
<1>2. n + 1 \notin Positional(params, n)
  BY DEF Positional
<1>3. CASE T!isPositional(params[n + 1])
  <2>1. Positional(params, n + 1) = Positional(params, n) \cup {n + 1}
    BY <1>3 DEF Positional
  <2> QED
    BY <1>0, <1>1, <1>2, <1>3, <2>1, FS_AddElement, FS_CardinalityType DEF Number
<1>4. CASE ~T!isPositional(params[n + 1])
  <2>1. Positional(params, n + 1) = Positional(params, n)
    BY <1>4 DEF Positional
  <2> QED
    BY <1>0, <1>1, <1>4, <2>1, FS_CardinalityType DEF Number
<1> QED
  BY <1>0, <1>3, <1>4

LEMMA KeysGrow ==
    ASSUME NEW params, NEW n \in Nat
    PROVE  /\ KeysTo(params, n + 1) = KeysTo(params, n) \cup {KeyOf(params, n + 1)}
           /\ KeysTo(params, 0) = {}
<1>1. 1..(n + 1) = 1..n \cup {n + 1} /\ 1..0 = {}
  OBVIOUS
<1> QED
  BY <1>1 DEF KeysTo

\* One parameter more.
LEMMA ParamIsRead ==
    ASSUME NEW params, NEW info, NEW n \in Nat, ReadTo(info, params, n)
    PROVE  ReadTo(T!AddParam(info, params[n + 1]), params, n + 1)
<1> DEFINE m == n + 1
           p == params[m]
           k == T!Key(info, p)
           new == T!AddParam(info, p)
<1>0. m \in Nat /\ m > n /\ 1..m = 1..n \cup {m} /\ m \in 1..m
  OBVIOUS
<1>1. k = KeyOf(params, m)
  <2>1. T!isPositional(p) => info.argIndex = Number(params, m)
    BY Numbers DEF ReadTo
  <2> QED
    BY <2>1 DEF T!Key, KeyOf
<1>2. KeysTo(params, m) = KeysTo(params, n) \cup {k} /\ IsFiniteSet(KeysTo(params, n))
  BY <1>1, KeysGrow DEF ReadTo, Listed
<1>3. new = [argIndex |-> info.argIndex + (IF T!isPositional(p) THEN 1 ELSE 0),
             dict |-> [name \in DOMAIN info.dict \cup {k} |->
                          IF name = k THEN Given(params, m) ELSE info.dict[name]],
             paramInfos |-> IF k \in DOMAIN info.dict THEN info.paramInfos
                            ELSE Append(info.paramInfos, [k |-> k, named |-> ~T!isPositional(p)])]
  BY DEF T!AddParam, Given
<1> HIDE DEF new, k
<1>4. new.argIndex = Number(params, m) + 1
  <2>1. new.argIndex = Number(params, n) + 1 + (IF T!isPositional(p) THEN 1 ELSE 0)
    BY <1>3 DEF ReadTo
  <2>2. Number(params, n) \in Nat
        /\ Number(params, m) = Number(params, n) + (IF T!isPositional(p) THEN 1 ELSE 0)
    BY Numbers
  <2> HIDE DEF m
  <2> QED
    BY <2>1, <2>2
<1>5. DOMAIN new.dict = KeysTo(params, m)
  BY <1>2, <1>3 DEF ReadTo
<1>6. ASSUME NEW i \in 1..m, LastOfName(params, i, m) PROVE new.dict[KeyOf(params, i)] = Given(params, i)
  <2>1. CASE i = m
    BY <2>1, <1>1, <1>3
  <2>2. CASE i # m
    <3>1. i \in 1..n /\ m > i
      BY <2>2, <1>0
    <3>2. LastOfName(params, i, n) /\ KeyOf(params, i) # k
      BY <1>0, <1>1, <1>6, <3>1 DEF LastOfName
    <3>3. KeyOf(params, i) \in DOMAIN info.dict /\ info.dict[KeyOf(params, i)] = Given(params, i)
      BY <3>1, <3>2 DEF ReadTo, KeysTo
    <3> QED
      BY <1>3, <3>2, <3>3
  <2> QED
    BY <2>1, <2>2
<1>7. Listed(new.paramInfos, KeysTo(params, m))
  <2>0. Listed(info.paramInfos, KeysTo(params, n)) /\ DOMAIN info.dict = KeysTo(params, n)
    BY DEF ReadTo
  <2> DEFINE keys == KeysTo(params, n)
             infos == info.paramInfos
             x == [k |-> k, named |-> ~T!isPositional(p)]
  <2> HIDE DEF keys, infos
  <2>1. CASE k \in keys
    <3>1. keys \cup {k} = keys
      BY <2>1
    <3> QED
      BY <1>2, <1>3, <2>0, <2>1, <3>1 DEF keys
  <2>2. CASE k \notin keys
    <3>1. new.paramInfos = Append(infos, x) /\ KeysTo(params, m) = keys \cup {k}
      BY <1>2, <1>3, <2>0, <2>2 DEF keys, infos
    <3>2. infos \in Seq([k : keys, named : BOOLEAN]) /\ Len(infos) = Cardinality(keys)
          /\ {infos[i].k : i \in DOMAIN infos} = keys /\ IsFiniteSet(keys)
      BY <1>2, <2>0 DEF keys, infos, Listed
    <3>3. (~T!isPositional(p)) \in BOOLEAN
      BY DEF T!isPositional
    <3>4. IsFiniteSet(keys \cup {k}) /\ Cardinality(keys \cup {k}) = Cardinality(keys) + 1 /\ Cardinality(keys) \in Nat
      BY <3>2, <2>2, FS_AddElement, FS_CardinalityType
    <3>5. x \in [k : keys \cup {k}, named : BOOLEAN] /\ x.k = k
      BY <3>3
    <3> HIDE DEF x
    <3>6. infos \in Seq([k : keys \cup {k}, named : BOOLEAN])
      <4>1. [k : keys, named : BOOLEAN] \subseteq [k : keys \cup {k}, named : BOOLEAN]
        OBVIOUS
      <4> DEFINE Old == [k : keys, named : BOOLEAN]
                 New == [k : keys \cup {k}, named : BOOLEAN]
      <4>2. infos \in Seq(Old) /\ Old \subseteq New
        BY <3>2, <4>1
      <4> HIDE DEF Old, New
      <4>3. infos \in Seq(New)
        BY <4>2
      <4> QED
        BY <4>3 DEF New
    <3>7. Append(infos, x) \in Seq([k : keys \cup {k}, named : BOOLEAN]) /\ Len(Append(infos, x)) = Len(infos) + 1
      BY <3>5, <3>6
    <3>8. DOMAIN Append(infos, x) = 1..Len(infos) \cup {Len(infos) + 1} /\ DOMAIN infos = 1..Len(infos)
      BY <3>2, <3>6, <3>7
    <3>9. \A i \in 1..Len(infos) : Append(infos, x)[i] = infos[i]
      BY <3>6
    <3>10. Append(infos, x)[Len(infos) + 1] = x
      BY <3>6
    <3>11. {Append(infos, x)[i].k : i \in DOMAIN Append(infos, x)} = keys \cup {k}
      BY <3>2, <3>5, <3>8, <3>9, <3>10
    <3> QED
      BY <3>1, <3>2, <3>4, <3>7, <3>11 DEF Listed
  <2> QED
    BY <2>1, <2>2
<1> QED
  BY <1>4, <1>5, <1>6, <1>7 DEF ReadTo, new

\* All of them.
LEMMA ParamsAreRead ==
    ASSUME NEW S, NEW params \in Seq(S)
    PROVE  ReadTo(T!getArgInfo(params), params, Len(params))
<1> DEFINE len == Len(params)
<1>0. len \in Nat
  OBVIOUS
<1>1. PICK f : Params!Steps(f, T!NoParams, params)
  BY Params!FoldSteps
<1>2. /\ f[0] = T!NoParams
      /\ \A n \in 1..len : f[n] = T!AddParam(f[n - 1], params[n])
      /\ f[len] = T!getArgInfo(params)
  BY <1>1, ParamsAreFolded DEF Params!Steps, T!getArgInfo
<1> DEFINE R == {n \in 0..len : ReadTo(f[n], params, n)}
<1>3. 0 \in R
  <2>1. Number(params, 0) = 0 /\ KeysTo(params, 0) = {}
    BY Numbers, KeysGrow
  <2>2. Listed(<<>>, {})
    BY FS_EmptySet DEF Listed
  <2> QED
    <3>1. f[0].argIndex = 1 /\ f[0].dict = <<>> /\ f[0].paramInfos = <<>>
      BY <1>2 DEF T!NoParams
    <3>2. DOMAIN f[0].dict = {} /\ \A i \in 1..0 : FALSE
      BY <3>1
    <3>3. ReadTo(f[0], params, 0)
      <4>1. f[0].argIndex = Number(params, 0) + 1
        BY <2>1, <3>1
      <4>2. DOMAIN f[0].dict = KeysTo(params, 0)
        BY <2>1, <3>2
      <4>3. Listed(f[0].paramInfos, KeysTo(params, 0))
        BY <2>1, <2>2, <3>1
      <4> QED
        BY <3>2, <4>1, <4>2, <4>3, Zenon DEF ReadTo
    <3> QED
      BY <1>0, <3>3
<1>4. ASSUME NEW n \in R, n < len PROVE n + 1 \in R
  <2>1. n + 1 \in 1..len /\ n + 1 \in 0..len /\ (n + 1) - 1 = n /\ n \in Nat /\ ReadTo(f[n], params, n)
    BY <1>0, <1>4
  <2>2. f[n + 1] = T!AddParam(f[n], params[n + 1])
    BY <1>2, <2>1
  <2>3. ReadTo(f[n + 1], params, n + 1)
    BY <2>1, <2>2, ParamIsRead
  <2> QED
    BY <2>1, <2>3
<1>5. R = 0..len
  <2>1. R \in SUBSET (0..len)
    OBVIOUS
  <2> HIDE DEF R, len
  <2> QED
    BY <1>0, <1>3, <1>4, <2>1, Params!UpToByStep
<1> QED
  BY <1>0, <1>2, <1>5

-----------------------------------------------------------------------------
(* The target of a template *)

Target == INSTANCE SequenceFolds WITH op <- T!AddToTarget

LEMMA TargetIsFolded ==
    ASSUME NEW base, NEW s
    PROVE  Target!FoldLeft(T!AddToTarget, base, s) = T!FoldLeft(T!AddToTarget, base, s)
  BY Zenon DEF Target!FoldLeft, Target!MapThenFoldSet, Target!Max, T!FoldLeft, T!MapThenFoldSet, T!Max

\* What the first n tokens have: a tag; text that a newline follows; text that none
\* follows; text on both sides of a newline.
IsText(t) == t \in {"text", "quote"}
HasTag(tokens, n) == \E i \in 1..n : tokens[i] = "tag"
TextThenNl(tokens, n) == \E i, m \in 1..n : i < m /\ IsText(tokens[i]) /\ tokens[m] = "nl"
TextAtEnd(tokens, n) == \E i \in 1..n : IsText(tokens[i]) /\ \A m \in 1..n : i < m => tokens[m] # "nl"
TwoLines(tokens, n) ==
    \E i, j, m \in 1..n : i < m /\ m < j /\ IsText(tokens[i]) /\ IsText(tokens[j]) /\ tokens[m] = "nl"

TargetTo(s, tokens, n, S) ==
    /\ s.null \in BOOLEAN /\ s.buf \in Seq(S) /\ s.preNl \in Seq(S)
    /\ s.null => HasTag(tokens, n) \/ TwoLines(tokens, n)
    /\ ~s.null =>
         /\ ~HasTag(tokens, n)
         /\ s.preNl # <<>> <=> TextThenNl(tokens, n)
         /\ s.buf # <<>> <=> TextAtEnd(tokens, n)
         /\ TwoLines(tokens, n) <=> s.preNl # <<>> /\ s.buf # <<>>

\* What one token more makes of it.
LEMMA OneTokenMore ==
    ASSUME NEW tokens, NEW n \in Nat, NEW t, t = tokens[n + 1]
    PROVE  /\ HasTag(tokens, n + 1) <=> HasTag(tokens, n) \/ t = "tag"
           /\ TwoLines(tokens, n) => TwoLines(tokens, n + 1) /\ TextThenNl(tokens, n)
           /\ IsText(t) => /\ TextAtEnd(tokens, n + 1)
                           /\ TextThenNl(tokens, n + 1) <=> TextThenNl(tokens, n)
                           /\ TwoLines(tokens, n + 1) <=> TextThenNl(tokens, n)
           /\ t = "nl" => /\ ~TextAtEnd(tokens, n + 1)
                          /\ TextThenNl(tokens, n + 1) <=> TextThenNl(tokens, n) \/ TextAtEnd(tokens, n)
                          /\ TwoLines(tokens, n + 1) <=> TwoLines(tokens, n)
           /\ ~IsText(t) /\ t # "nl" =>
                /\ TextAtEnd(tokens, n + 1) <=> TextAtEnd(tokens, n)
                /\ TextThenNl(tokens, n + 1) <=> TextThenNl(tokens, n)
                /\ TwoLines(tokens, n + 1) <=> TwoLines(tokens, n)
<1> DEFINE m == n + 1
<1>1. 1..m = 1..n \cup {m} /\ \A i \in 1..n : i < m /\ i # m /\ ~(m < i)
  OBVIOUS
<1>2. tokens[m] = t /\ ~(m < m) /\ (IsText(t) => t # "nl" /\ t # "tag")
  BY DEF IsText
<1> HIDE DEF m
<1>3. HasTag(tokens, m) <=> HasTag(tokens, n) \/ t = "tag"
  BY <1>1, <1>2 DEF HasTag
<1>4. TwoLines(tokens, n) => TwoLines(tokens, m) /\ TextThenNl(tokens, n)
  BY <1>1 DEF TwoLines, TextThenNl
<1>5. TextThenNl(tokens, m) <=> TextThenNl(tokens, n) \/ (t = "nl" /\ \E i \in 1..n : IsText(tokens[i]))
  BY <1>1, <1>2 DEF TextThenNl
<1>6. TwoLines(tokens, m) <=> TwoLines(tokens, n) \/ (IsText(t) /\ TextThenNl(tokens, n))
  <2>1. ASSUME TwoLines(tokens, m) PROVE TwoLines(tokens, n) \/ (IsText(t) /\ TextThenNl(tokens, n))
    <3>1. PICK i, j, k \in 1..m : i < k /\ k < j /\ IsText(tokens[i]) /\ IsText(tokens[j]) /\ tokens[k] = "nl"
      BY <2>1 DEF TwoLines
    <3>2. i \in 1..n /\ k \in 1..n
      BY <1>1, <1>2, <3>1
    <3> QED
      BY <1>1, <1>2, <3>1, <3>2 DEF TwoLines, TextThenNl
  <2>2. ASSUME IsText(t), TextThenNl(tokens, n) PROVE TwoLines(tokens, m)
    BY <1>1, <1>2, <2>2 DEF TwoLines, TextThenNl
  <2> QED
    BY <1>4, <2>1, <2>2
<1>7. IsText(t) => TextAtEnd(tokens, m)
  BY <1>1, <1>2 DEF TextAtEnd
<1>8. t = "nl" => ~TextAtEnd(tokens, m)
  BY <1>1, <1>2 DEF TextAtEnd
<1>9. ~IsText(t) /\ t # "nl" => (TextAtEnd(tokens, m) <=> TextAtEnd(tokens, n))
  BY <1>1, <1>2 DEF TextAtEnd
<1>10. (\E i \in 1..n : IsText(tokens[i])) <=> TextThenNl(tokens, n) \/ TextAtEnd(tokens, n)
  BY DEF TextThenNl, TextAtEnd
<1> QED
  BY <1>2, <1>3, <1>4, <1>5, <1>6, <1>7, <1>8, <1>9, <1>10, Zenon DEF m

LEMMA TokenIsRead ==
    ASSUME NEW S, NEW tokens, NEW s, NEW n \in Nat, TargetTo(s, tokens, n, S), tokens[n + 1] \in S,
           DOMAIN s = {"buf", "preNl", "null"}
    PROVE  /\ TargetTo(T!AddToTarget(s, tokens[n + 1]), tokens, n + 1, S)
           /\ DOMAIN T!AddToTarget(s, tokens[n + 1]) = {"buf", "preNl", "null"}
<1> DEFINE t == tokens[n + 1]
           r == T!AddToTarget(s, t)
<1>1. CASE s.null
  <2>1. r = s
    BY <1>1 DEF T!AddToTarget
  <2> QED
    BY <1>1, <2>1, OneTokenMore DEF TargetTo
<1>2. CASE ~s.null /\ IsText(t)
  <2>1. r = [s EXCEPT !.buf = Append(@, t)]
    BY <1>2 DEF T!AddToTarget, IsText
  <2>2. r.null = s.null /\ r.preNl = s.preNl /\ r.buf = Append(s.buf, t) /\ DOMAIN r = {"buf", "preNl", "null"}
    BY <2>1
  <2>3. r.buf \in Seq(S) /\ r.buf # <<>>
    BY <2>2 DEF TargetTo
  <2>4. t # "tag"
    BY <1>2 DEF IsText
  <2> QED
    BY <1>2, <2>2, <2>3, <2>4, OneTokenMore DEF TargetTo
<1>3. CASE ~s.null /\ ~IsText(t) /\ (t = "tag" \/ (t = "nl" /\ s.buf # <<>> /\ s.preNl # <<>>))
  <2>1. r = [s EXCEPT !.null = TRUE]
    BY <1>3, Zenon DEF T!AddToTarget, IsText
  <2>2. r.null /\ r.preNl = s.preNl /\ r.buf = s.buf /\ DOMAIN r = {"buf", "preNl", "null"}
    BY <2>1
  <2> QED
    BY <1>3, <2>2, OneTokenMore DEF TargetTo
<1>4. CASE ~s.null /\ t = "nl" /\ s.buf # <<>> /\ s.preNl = <<>>
  <2>1. r = [s EXCEPT !.preNl = s.buf, !.buf = <<>>]
    BY <1>4 DEF T!AddToTarget
  <2>2. r.null = s.null /\ r.preNl = s.buf /\ r.buf = <<>> /\ DOMAIN r = {"buf", "preNl", "null"}
    BY <2>1
  <2>3. <<>> \in Seq(S) /\ t # "tag"
    BY <1>4
  <2> QED
    BY <1>4, <2>2, <2>3, OneTokenMore DEF TargetTo
<1>5. CASE ~s.null /\ t = "nl" /\ s.buf = <<>>
  <2>1. r = s /\ t # "tag"
    BY <1>5 DEF T!AddToTarget
  <2> QED
    BY <1>5, <2>1, OneTokenMore DEF TargetTo
<1>6. CASE ~s.null /\ ~IsText(t) /\ t # "tag" /\ t # "nl"
  <2>1. r = s
    BY <1>6 DEF T!AddToTarget, IsText
  <2> QED
    BY <1>6, <2>1, OneTokenMore DEF TargetTo
<1>7. s.null \in BOOLEAN /\ (IsText(t) => t # "nl")
  BY DEF TargetTo, IsText
<1> QED
  BY <1>1, <1>2, <1>3, <1>4, <1>5, <1>6, <1>7, Zenon

LEMMA TargetIsRead ==
    ASSUME NEW S, NEW tokens \in Seq(S)
    PROVE  T!isNull(T!FoldLeft(T!AddToTarget, T!NoTarget, tokens))
             <=> HasTag(tokens, Len(tokens)) \/ TwoLines(tokens, Len(tokens))
<1> DEFINE len == Len(tokens)
           Keys == {"buf", "preNl", "null"}
<1>0. len \in Nat
  OBVIOUS
<1>1. PICK f : Target!Steps(f, T!NoTarget, tokens)
  BY Target!FoldSteps
<1>2. /\ f[0] = T!NoTarget
      /\ \A n \in 1..len : f[n] = T!AddToTarget(f[n - 1], tokens[n])
      /\ f[len] = T!FoldLeft(T!AddToTarget, T!NoTarget, tokens)
  BY <1>1, TargetIsFolded DEF Target!Steps
<1> DEFINE R == {n \in 0..len : TargetTo(f[n], tokens, n, S) /\ DOMAIN f[n] = Keys}
<1>3. 0 \in R
  <2>1. f[0].null = FALSE /\ f[0].buf = <<>> /\ f[0].preNl = <<>> /\ DOMAIN f[0] = Keys
    BY <1>2 DEF T!NoTarget
  <2>2. ~HasTag(tokens, 0) /\ ~TwoLines(tokens, 0) /\ ~TextThenNl(tokens, 0) /\ ~TextAtEnd(tokens, 0)
    BY DEF HasTag, TwoLines, TextThenNl, TextAtEnd
  <2>3. <<>> \in Seq(S)
    OBVIOUS
  <2>4. TargetTo(f[0], tokens, 0, S)
    BY <2>1, <2>2, <2>3 DEF TargetTo
  <2> QED
    BY <1>0, <2>1, <2>4
<1>4. ASSUME NEW n \in R, n < len PROVE n + 1 \in R
  <2>1. n + 1 \in 1..len /\ n + 1 \in 0..len /\ (n + 1) - 1 = n /\ n \in Nat
        /\ TargetTo(f[n], tokens, n, S) /\ DOMAIN f[n] = Keys
    BY <1>0, <1>4
  <2>2. f[n + 1] = T!AddToTarget(f[n], tokens[n + 1]) /\ tokens[n + 1] \in S
    BY <1>2, <2>1
  <2>3. TargetTo(f[n + 1], tokens, n + 1, S) /\ DOMAIN f[n + 1] = Keys
    BY <2>1, <2>2, TokenIsRead
  <2> QED
    BY <2>1, <2>3
<1>5. R = 0..len
  <2>1. R \in SUBSET (0..len)
    OBVIOUS
  <2> HIDE DEF R, len
  <2> QED
    BY <1>0, <1>3, <1>4, <2>1, Target!UpToByStep
<1>6. TargetTo(f[len], tokens, len, S)
  BY <1>0, <1>5
<1> QED
  BY <1>2, <1>6 DEF TargetTo, T!isNull

-----------------------------------------------------------------------------
(* Parameters and targets are read at once *)

ReadAtOnce(kind, result) ==
    h.token.kind = kind =>
        /\ h.pending = {}
        /\ IF h.call THEN h.final = 0 ELSE h.out = <<result>>
ReadInv ==
    part = "transclusion" =>
        /\ FramesInv
        /\ ReadAtOnce("parameters", T!getArgInfo(h.token.params))
        /\ h.token.kind = "parameters" => \E S : h.token.params \in Seq(S)
        /\ ReadAtOnce("target", T!resolveTemplateTarget(h.token.tokens, h.token.prefix, h.token.validTitle))
        /\ h.token.kind = "target" => \E S : h.token.tokens \in Seq(S)

LEMMA SameSize ==
    ASSUME NEW S
    PROVE  T!Cardinality(S) = Cardinality(S)
  BY Zenon DEF T!Cardinality, Cardinality

LEMMA BoundedIsSeq ==
    ASSUME NEW S, NEW n \in Nat, NEW s \in T!BoundedSeq(S, n)
    PROVE  s \in Seq(S)
  BY DEF T!BoundedSeq, T!SeqOf

LEMMA FunctionIsSeq ==
    ASSUME NEW S, NEW n \in Nat, NEW f \in [1..n -> S]
    PROVE  f \in Seq(S)
  OBVIOUS

LEMMA ReadStart == Init => ReadInv
<1> SUFFICES ASSUME Init, part = "transclusion", T!Init PROVE ReadInv
  BY DEF Init, ReadInv
<1>1. PICK settings \in T!Settings,
           token1 \in T!Tokens \cup T!Args \cup T!Parameters \cup T!TargetTokens :
        conf = settings /\ h = T!NewCall(token1)
  BY DEF T!Init
<1>2. h.pending = {} /\ h.token = token1 /\ h.call /\ h.final = 0
  BY <1>1 DEF T!NewCall
<1>3. token1.kind = "parameters" => \E S : token1.params \in Seq(S)
  <2>1. SUFFICES ASSUME token1 \in T!Parameters PROVE \E S : token1.params \in Seq(S)
    BY DEF T!Tokens, T!Args, T!TargetTokens
  <2>2. token1.params \in T!ParamLists
    BY <2>1 DEF T!Parameters
  <2>3. PICK names \in T!BoundedSeq([k : ParamNames \cup {""}, equals : BOOLEAN], MaxParams) :
          token1.params = [i \in DOMAIN names |-> [k |-> names[i].k, equals |-> names[i].equals, value |-> i]]
    BY <2>2, Zenon DEF T!ParamLists
  <2>4. PICK n \in Nat : DOMAIN names = 1..n
    <3> DEFINE S == [k : ParamNames \cup {""}, equals : BOOLEAN]
    <3>1. MaxParams \in Nat /\ names \in T!BoundedSeq(S, MaxParams)
      BY <2>3, ExpansionAssumption
    <3> HIDE DEF S
    <3>2. names \in Seq(S)
      BY <3>1, BoundedIsSeq
    <3> HIDE DEF S
    <3> QED
      BY <3>2, LenProperties
  <2> DEFINE v(i) == [k |-> names[i].k, equals |-> names[i].equals, value |-> i]
             S == {v(i) : i \in 1..n}
  <2>5. token1.params = [i \in 1..n |-> v(i)]
    BY <2>3, <2>4
  <2> HIDE DEF v
  <2>6. token1.params \in [1..n -> S]
    BY <2>5
  <2> HIDE DEF S
  <2> QED
    BY <2>4, <2>6, FunctionIsSeq, Zenon
<1>4. token1.kind = "target" => \E S : token1.tokens \in Seq(S)
  <2>1. SUFFICES ASSUME token1 \in T!TargetTokens PROVE \E S : token1.tokens \in Seq(S)
    BY DEF T!Tokens, T!Args, T!Parameters
  <2>2. PICK k \in Nat : token1.tokens \in T!BoundedSeq({"text", "quote", "nl", "comment", "tag"}, k)
    <3>1. MaxTarget \in Nat
      BY ExpansionAssumption
    <3> QED
      BY <2>1, <3>1 DEF T!TargetTokens
  <2> QED
    BY <2>2, BoundedIsSeq
<1> QED
  BY <1>2, <1>3, <1>4, FramesStart DEF ReadInv, ReadAtOnce

LEMMA ReadStepKeeps ==
    ASSUME ReadInv, part = "transclusion", part' = part, T!Next
    PROVE  ReadInv'
<1>0. FramesInv' /\ h'.token.kind = h.token.kind
  BY TransclusionStepKeeps DEF ReadInv
<1>1. CASE h.token.kind \notin {"parameters", "target"}
  BY <1>0, <1>1 DEF ReadInv, ReadAtOnce
<1>2. CASE h.token.kind \in {"parameters", "target"}
  <2>1. h.pending = {}
    BY <1>2 DEF ReadInv, ReadAtOnce
  <2>2. T!GetArgInfo \/ T!ResolveTarget
    BY <1>2, <2>1, Zenon DEF T!Next, T!OnTemplate, T!NameExpanded, T!AttributesExpanded, T!ParamsExpanded,
       T!SourceArrives, T!OnChunk, T!OnEnd, T!FunctionAnswers, T!Exploded, T!Nested,
       T!OnTemplateArg, T!ArgNameExpanded, T!DefaultExpanded
  <2>3. DOMAIN h = Fields
    BY DEF ReadInv, FramesInv
  <2>4. CASE T!GetArgInfo
    <3>1. /\ h'.call = FALSE /\ h'.out = <<T!getArgInfo(h.token.params)>>
          /\ h'.token = h.token /\ h'.pending = h.pending /\ h.token.kind = "parameters"
      BY <2>3, <2>4 DEF T!GetArgInfo, Fields
    <3> QED
      BY <1>0, <2>1, <3>1 DEF ReadInv, ReadAtOnce
  <2>5. CASE T!ResolveTarget
    <3>1. /\ h'.call = FALSE
          /\ h'.out = <<T!resolveTemplateTarget(h.token.tokens, h.token.prefix, h.token.validTitle)>>
          /\ h'.token = h.token /\ h'.pending = h.pending /\ h.token.kind = "target"
      BY <2>3, <2>5 DEF T!ResolveTarget, Fields
    <3> QED
      BY <1>0, <2>1, <3>1 DEF ReadInv, ReadAtOnce
  <2> QED
    BY <2>2, <2>4, <2>5
<1> QED
  BY <1>1, <1>2

LEMMA ParametersAsWritten ==
    ASSUME ReadInv, part = "transclusion"
    PROVE  T!ArgumentsAsWritten
<1> SUFFICES ASSUME h.token.kind = "parameters", h.final = 1 PROVE T!ArgumentsAsWritten
  BY DEF T!ArgumentsAsWritten
<1>1. PICK S : h.token.params \in Seq(S)
  BY DEF ReadInv
<1> DEFINE params == h.token.params
           len == Len(params)
           info == h.out[1]
<1>2. info = T!getArgInfo(params)
  BY DEF ReadInv, ReadAtOnce
<1>3. ReadTo(info, params, len) /\ DOMAIN params = 1..len
  BY <1>1, <1>2, ParamsAreRead
<1> DEFINE number(i) == T!Cardinality({n \in 1..i : T!isPositional(params[n])})
           key(i) == IF T!isPositional(params[i]) THEN ToString(number(i)) ELSE params[i].k
           keys == {key(i) : i \in DOMAIN params}
<1> HIDE DEF info, params
<1>4. \A i : key(i) = KeyOf(params, i)
  BY SameSize DEF KeyOf, Number, Positional
<1>5. keys = KeysTo(params, len)
  BY <1>3, <1>4 DEF KeysTo
<1> HIDE DEF key
<1>6. /\ DOMAIN info.dict = keys
      /\ Len(info.paramInfos) = T!Cardinality(keys)
      /\ {info.paramInfos[i].k : i \in DOMAIN info.paramInfos} = keys
  BY <1>3, <1>5, SameSize DEF ReadTo, Listed
<1>7. ASSUME NEW i \in DOMAIN params, \A n \in DOMAIN params : n > i => key(n) # key(i)
      PROVE  info.dict[key(i)] = [value |-> params[i].value, trimmed |-> ~T!isPositional(params[i])]
  <2>1. i \in 1..len /\ LastOfName(params, i, len)
    BY <1>3, <1>4, <1>7 DEF LastOfName
  <2> QED
    BY <1>3, <1>4, <2>1 DEF ReadTo, Given
<1> QED
  BY <1>6, <1>7, Zenon DEF T!ArgumentsAsWritten, info, params, key, keys, number

LEMMA TargetsAsWritten ==
    ASSUME ReadInv, part = "transclusion"
    PROVE  T!TargetsOnOneLine
<1> SUFFICES ASSUME h.token.kind = "target", h.final = 1, h.token.prefix = "none" PROVE T!TargetsOnOneLine
  BY DEF T!TargetsOnOneLine
<1>1. PICK S : h.token.tokens \in Seq(S)
  BY DEF ReadInv
<1> DEFINE tokens == h.token.tokens
           len == Len(tokens)
           text == {i \in DOMAIN tokens : tokens[i] \in {"text", "quote"}}
<1>2. h.out[1] = T!resolveTemplateTarget(tokens, "none", h.token.validTitle)
  BY DEF ReadInv, ReadAtOnce
<1>3. h.out[1] = "template" <=> h.token.validTitle /\ ~HasTag(tokens, len) /\ ~TwoLines(tokens, len)
  BY <1>1, <1>2, TargetIsRead DEF T!resolveTemplateTarget
<1>4. DOMAIN tokens = 1..len
  BY <1>1
<1>5. HasTag(tokens, len) <=> "tag" \in T!Range(tokens)
  BY <1>4 DEF HasTag, T!Range
<1>6. TwoLines(tokens, len) <=> \E i, j \in text, n \in DOMAIN tokens : i < n /\ n < j /\ tokens[n] = "nl"
  BY <1>4 DEF TwoLines, IsText
<1> QED
  BY <1>3, <1>5, <1>6 DEF T!TargetsOnOneLine

-----------------------------------------------------------------------------
(* How often a token is in a sequence *)

Kept == INSTANCE SequenceFolds WITH op <- A!Keep
Text == INSTANCE SequenceFolds WITH op <- A!AddText
InPlace == INSTANCE SequenceFolds WITH op <- A!AddKV
Built == INSTANCE SequenceFolds WITH op <- A!Build

LEMMA AttributesAreFolded ==
    ASSUME NEW base, NEW s
    PROVE  /\ Kept!FoldLeft(A!Keep, base, s) = A!FoldLeft(A!Keep, base, s)
           /\ Text!FoldLeft(A!AddText, base, s) = A!FoldLeft(A!AddText, base, s)
           /\ InPlace!FoldLeft(A!AddKV, base, s) = A!FoldLeft(A!AddKV, base, s)
           /\ Built!FoldLeft(A!Build, base, s) = A!FoldLeft(A!Build, base, s)
<1>1. Kept!FoldLeft(A!Keep, base, s) = A!FoldLeft(A!Keep, base, s)
  BY Zenon DEF Kept!FoldLeft, Kept!MapThenFoldSet, Kept!Max, A!FoldLeft, A!MapThenFoldSet, A!Max
<1>2. Text!FoldLeft(A!AddText, base, s) = A!FoldLeft(A!AddText, base, s)
  BY Zenon DEF Text!FoldLeft, Text!MapThenFoldSet, Text!Max, A!FoldLeft, A!MapThenFoldSet, A!Max
<1>3. InPlace!FoldLeft(A!AddKV, base, s) = A!FoldLeft(A!AddKV, base, s)
  BY Zenon DEF InPlace!FoldLeft, InPlace!MapThenFoldSet, InPlace!Max, A!FoldLeft, A!MapThenFoldSet, A!Max
<1>4. Built!FoldLeft(A!Build, base, s) = A!FoldLeft(A!Build, base, s)
  BY Zenon DEF Built!FoldLeft, Built!MapThenFoldSet, Built!Max, A!FoldLeft, A!MapThenFoldSet, A!Max
<1> QED
  BY <1>1, <1>2, <1>3, <1>4

\* Folds of the attributes: of nothing, and of one element more.
LEMMA NothingFolded ==
    ASSUME NEW kinds
    PROVE  A!Only(kinds, <<>>) = <<>> /\ A!TextOf(<<>>) = <<>>
<1> PICK base : base = [kinds |-> kinds, kept |-> <<>>]
  OBVIOUS
<1>1. Kept!FoldLeft(A!Keep, base, <<>>) = base /\ Text!FoldLeft(A!AddText, <<>>, <<>>) = <<>>
  BY Kept!FoldEmpty, Text!FoldEmpty
<1> QED
  BY <1>1, AttributesAreFolded DEF A!Only, A!TextOf

LEMMA OnlyAppend ==
    ASSUME NEW V, NEW seq \in Seq(V), NEW kinds
    PROVE  /\ A!Only(kinds, seq) \in Seq(V)
           /\ \A x \in V : A!Only(kinds, Append(seq, x)) =
                IF A!Kind(x) \in kinds THEN Append(A!Only(kinds, seq), x) ELSE A!Only(kinds, seq)
<1> DEFINE Base == [kinds |-> kinds, kept |-> <<>>]
           F(s) == A!FoldLeft(A!Keep, Base, s)
           R == [kinds : {kinds}, kept : Seq(V)]
           S == {s \in Seq(V) : F(s) \in R}
<1>1. ASSUME NEW s \in Seq(V), NEW t \in V PROVE F(Append(s, t)) = A!Keep(F(s), t)
  <2> HIDE DEF Base
  <2>1. Kept!FoldLeft(A!Keep, Base, Append(s, t)) = A!Keep(Kept!FoldLeft(A!Keep, Base, s), t)
    BY Kept!FoldAppend
  <2> QED
    BY <2>1, AttributesAreFolded
<1>2. F(<<>>) \in R /\ <<>> \in Seq(V)
  <2> PICK none \in Seq(V) : none = <<>>
    BY EmptySeq
  <2>1. Base \in R
    OBVIOUS
  <2> HIDE DEF Base
  <2>2. F(<<>>) = Base
    BY Kept!FoldEmpty, AttributesAreFolded
  <2> QED
    BY <2>1, <2>2
<1> HIDE DEF F, Base
<1>3. ASSUME NEW f \in R, NEW t \in V PROVE A!Keep(f, t) \in R
  <2>1. f = [kinds |-> kinds, kept |-> f.kept] /\ f.kept \in Seq(V)
    OBVIOUS
  <2>2. CASE A!Kind(t) \in kinds
    <3>1. A!Keep(f, t) = [kinds |-> kinds, kept |-> Append(f.kept, t)]
      BY <2>1, <2>2 DEF A!Keep
    <3>2. Append(f.kept, t) \in Seq(V)
      BY <2>1
    <3> QED
      BY <3>1, <3>2
  <2>3. CASE A!Kind(t) \notin kinds
    BY <2>1, <2>3 DEF A!Keep
  <2> QED
    BY <2>2, <2>3
<1>4. S = Seq(V)
  <2>1. S \in SUBSET Seq(V) /\ <<>> \in S
    BY <1>2
  <2>2. \A s \in S : \A t \in V : Append(s, t) \in S
    BY <1>1, <1>3
  <2> HIDE DEF S
  <2> QED
    BY <2>1, <2>2, Kept!SeqByAppend
<1>5. F(seq) \in R
  BY <1>4
<1>6. \A s : A!Only(kinds, s) = F(s).kept
  BY DEF A!Only, F, Base
<1>7. \A x \in V : F(Append(seq, x)) = A!Keep(F(seq), x)
  BY <1>1
<1> QED
  BY <1>5, <1>6, <1>7 DEF A!Keep

LEMMA TextAppend ==
    ASSUME NEW V, NEW seq \in Seq(V), NEW x \in V
    PROVE  A!TextOf(Append(seq, x)) = A!TextOf(seq) \o x.k.tokens \o x.v.tokens
<1>1. Text!FoldLeft(A!AddText, <<>>, Append(seq, x)) = A!AddText(Text!FoldLeft(A!AddText, <<>>, seq), x)
  BY Text!FoldAppend
<1> QED
  BY <1>1, AttributesAreFolded DEF A!TextOf, A!AddText

-----------------------------------------------------------------------------
(* How often a token is in a sequence *)

LEMMA SameSizeHere ==
    ASSUME NEW S
    PROVE  A!Cardinality(S) = Cardinality(S)
  BY Zenon DEF A!Cardinality, Cardinality

LEMMA NoTimes ==
    ASSUME NEW t
    PROVE  A!Times(t, <<>>) = 0
<1>1. {i \in DOMAIN <<>> : <<>>[i] = t} = {}
  OBVIOUS
<1> QED
  BY <1>1, SameSizeHere, FS_EmptySet DEF A!Times

LEMMA TimesAre ==
    ASSUME NEW V, NEW seq \in Seq(V), NEW t
    PROVE  /\ A!Times(t, seq) \in Nat
           /\ A!Times(t, seq) > 0 <=> \E i \in DOMAIN seq : seq[i] = t
<1> DEFINE At == {i \in DOMAIN seq : seq[i] = t}
<1>1. IsFiniteSet(At)
  <2>1. IsFiniteSet(1..Len(seq)) /\ At \subseteq 1..Len(seq)
    BY FS_Interval
  <2> QED
    BY <2>1, FS_Subset
<1>2. A!Times(t, seq) = Cardinality(At)
  BY SameSizeHere DEF A!Times
<1>3. A!Times(t, seq) \in Nat /\ (A!Times(t, seq) = 0 <=> At = {})
  <2> HIDE DEF At
  <2> QED
    BY <1>1, <1>2, FS_CardinalityType, FS_EmptySet
<1>4. A!Times(t, seq) > 0 <=> At # {}
  BY <1>3
<1> QED
  BY <1>3, <1>4

LEMMA TimesAppend ==
    ASSUME NEW V, NEW seq \in Seq(V), NEW x \in V, NEW t
    PROVE  A!Times(t, Append(seq, x)) = A!Times(t, seq) + (IF x = t THEN 1 ELSE 0)
<1> DEFINE At(s) == {i \in DOMAIN s : s[i] = t}
           len == Len(seq)
           longer == Append(seq, x)
<1>0. \A s : A!Times(t, s) = Cardinality(At(s))
  BY SameSizeHere DEF A!Times
<1>1. len \in Nat /\ DOMAIN seq = 1..len
  OBVIOUS
<1>2. /\ DOMAIN longer = 1..len \cup {len + 1} /\ len + 1 \notin 1..len
      /\ longer[len + 1] = x /\ \A i \in 1..len : longer[i] = seq[i]
  BY AppendProperties
<1> HIDE DEF longer
<1>3. IsFiniteSet(At(seq))
  <2>1. IsFiniteSet(1..len) /\ At(seq) \subseteq 1..len
    BY <1>1, FS_Interval
  <2> QED
    BY <2>1, FS_Subset
<1>4. A!Times(t, longer) = A!Times(t, seq) + (IF x = t THEN 1 ELSE 0)
  <2>1. CASE x = t
    <3>1. At(longer) = At(seq) \cup {len + 1} /\ len + 1 \notin At(seq)
      BY <1>1, <1>2, <2>1
    <3> HIDE DEF At
    <3> QED
      BY <1>0, <1>3, <2>1, <3>1, FS_AddElement, FS_CardinalityType
  <2>2. CASE x # t
    <3>1. At(longer) = At(seq)
      BY <1>1, <1>2, <2>2
    <3> HIDE DEF At
    <3> QED
      BY <1>0, <1>3, <2>2, <3>1, FS_CardinalityType
  <2> QED
    BY <2>1, <2>2
<1> QED
  BY <1>4 DEF longer

LEMMA TimesConcat ==
    ASSUME NEW V, NEW a \in Seq(V), NEW b \in Seq(V), NEW t
    PROVE  A!Times(t, a \o b) = A!Times(t, a) + A!Times(t, b)
<1> DEFINE S == {s \in Seq(V) : A!Times(t, a \o s) = A!Times(t, a) + A!Times(t, s)}
<1>0. \A s \in Seq(V) : A!Times(t, s) \in Nat
  BY TimesAre
<1>1. <<>> \in S
  <2>1. a \o <<>> = a /\ <<>> \in Seq(V)
    BY EmptySeq
  <2> QED
    BY <1>0, <2>1, NoTimes
<1>2. ASSUME NEW s \in S, NEW x \in V PROVE Append(s, x) \in S
  <2>1. s \in Seq(V) /\ A!Times(t, a \o s) = A!Times(t, a) + A!Times(t, s)
    OBVIOUS
  <2>2. a \o s \in Seq(V) /\ Append(s, x) \in Seq(V) /\ a \o Append(s, x) = Append(a \o s, x)
    BY <2>1
  <2>3. A!Times(t, Append(s, x)) = A!Times(t, s) + (IF x = t THEN 1 ELSE 0)
    BY <2>1, TimesAppend
  <2>4. A!Times(t, Append(a \o s, x)) = A!Times(t, a \o s) + (IF x = t THEN 1 ELSE 0)
    BY <2>2, TimesAppend
  <2>5. A!Times(t, a) \in Nat /\ A!Times(t, s) \in Nat
    BY <1>0, <2>1
  <2>6. A!Times(t, a \o Append(s, x)) = A!Times(t, a) + A!Times(t, Append(s, x))
    BY <2>1, <2>2, <2>3, <2>4, <2>5
  <2> QED
    BY <2>2, <2>6
<1>3. S = Seq(V)
  <2>1. S \in SUBSET Seq(V)
    OBVIOUS
  <2> HIDE DEF S
  <2> QED
    BY <1>1, <1>2, <2>1, Kept!SeqByAppend
<1> QED
  BY <1>3

\* What is kept of some kinds is all of these kinds, and nothing else.
LEMMA OnlyTimes ==
    ASSUME NEW V, NEW seq \in Seq(V), NEW kinds, NEW t
    PROVE  A!Times(t, A!Only(kinds, seq)) = IF A!Kind(t) \in kinds THEN A!Times(t, seq) ELSE 0
<1> DEFINE Good(s) == A!Times(t, A!Only(kinds, s)) = IF A!Kind(t) \in kinds THEN A!Times(t, s) ELSE 0
           S == {s \in Seq(V) : Good(s)}
<1>1. <<>> \in S
  BY EmptySeq, NothingFolded, NoTimes
<1>2. ASSUME NEW s \in Seq(V), Good(s), NEW x \in V PROVE Good(Append(s, x))
  <2>1. /\ A!Only(kinds, s) \in Seq(V)
        /\ A!Only(kinds, Append(s, x)) =
             IF A!Kind(x) \in kinds THEN Append(A!Only(kinds, s), x) ELSE A!Only(kinds, s)
    BY OnlyAppend
  <2>2. A!Times(t, Append(s, x)) = A!Times(t, s) + (IF x = t THEN 1 ELSE 0)
    BY TimesAppend
  <2>3. A!Times(t, Append(A!Only(kinds, s), x)) = A!Times(t, A!Only(kinds, s)) + (IF x = t THEN 1 ELSE 0)
    BY <2>1, TimesAppend
  <2>4. A!Times(t, s) \in Nat
    BY TimesAre
  <2>5. CASE A!Kind(x) \in kinds
    <3>1. x = t => A!Kind(t) \in kinds
      BY <2>5
    <3>2. A!Only(kinds, Append(s, x)) = Append(A!Only(kinds, s), x)
      BY <2>1, <2>5
    <3> QED
      BY <1>2, <2>2, <2>3, <2>4, <3>1, <3>2
  <2>6. CASE A!Kind(x) \notin kinds
    <3>1. x = t => A!Kind(t) \notin kinds
      BY <2>6
    <3>2. A!Only(kinds, Append(s, x)) = A!Only(kinds, s)
      BY <2>1, <2>6
    <3> QED
      BY <1>2, <2>2, <2>4, <3>1, <3>2
  <2> QED
    BY <2>5, <2>6
<1>3. S = Seq(V)
  <2>1. S \in SUBSET Seq(V) /\ \A s \in S : \A x \in V : Append(s, x) \in S
    <3>1. ASSUME NEW s \in S, NEW x \in V PROVE Append(s, x) \in S
      <4>1. s \in Seq(V) /\ Good(s)
        OBVIOUS
      <4>2. Good(Append(s, x))
        BY <1>2, <4>1
      <4> HIDE DEF Good
      <4> QED
        BY <4>1, <4>2
    <3> QED
      BY <3>1
  <2> HIDE DEF S
  <2> QED
    BY <1>1, <2>1, Kept!SeqByAppend
<1> QED
  BY <1>3

\* What is kept of two sequences, one after the other.
LEMMA OnlyConcat ==
    ASSUME NEW V, NEW a \in Seq(V), NEW b \in Seq(V), NEW kinds
    PROVE  A!Only(kinds, a \o b) = A!Only(kinds, a) \o A!Only(kinds, b)
<1> DEFINE Good(s) == A!Only(kinds, a \o s) = A!Only(kinds, a) \o A!Only(kinds, s)
           S == {s \in Seq(V) : Good(s)}
<1>0. \A s \in Seq(V) : A!Only(kinds, s) \in Seq(V)
  BY OnlyAppend
<1>1. <<>> \in S
  <2>1. a \o <<>> = a /\ <<>> \in Seq(V) /\ A!Only(kinds, a) \o <<>> = A!Only(kinds, a)
    BY <1>0, EmptySeq
  <2> QED
    BY <2>1, NothingFolded
<1>2. ASSUME NEW s \in Seq(V), Good(s), NEW x \in V PROVE Good(Append(s, x))
  <2>1. a \o s \in Seq(V) /\ a \o Append(s, x) = Append(a \o s, x)
    OBVIOUS
  <2>2. A!Only(kinds, Append(s, x)) =
             IF A!Kind(x) \in kinds THEN Append(A!Only(kinds, s), x) ELSE A!Only(kinds, s)
    BY OnlyAppend
  <2>3. A!Only(kinds, Append(a \o s, x)) =
             IF A!Kind(x) \in kinds THEN Append(A!Only(kinds, a \o s), x) ELSE A!Only(kinds, a \o s)
    <3>1. \A ab \in Seq(V) : A!Only(kinds, Append(ab, x)) =
             IF A!Kind(x) \in kinds THEN Append(A!Only(kinds, ab), x) ELSE A!Only(kinds, ab)
      <4> TAKE ab \in Seq(V)
      <4> QED
        BY OnlyAppend
    <3> QED
      BY <2>1, <3>1
  <2>4. A!Only(kinds, a) \o Append(A!Only(kinds, s), x) = Append(A!Only(kinds, a) \o A!Only(kinds, s), x)
    BY <1>0
  <2> QED
    BY <1>2, <2>1, <2>2, <2>3, <2>4
<1>3. S = Seq(V)
  <2>1. S \in SUBSET Seq(V) /\ \A s \in S : \A x \in V : Append(s, x) \in S
    <3>1. ASSUME NEW s \in S, NEW x \in V PROVE Append(s, x) \in S
      <4>1. s \in Seq(V) /\ Good(s)
        OBVIOUS
      <4>2. Good(Append(s, x))
        BY <1>2, <4>1
      <4> HIDE DEF Good
      <4> QED
        BY <4>1, <4>2
    <3> QED
      BY <3>1
  <2> HIDE DEF S
  <2> QED
    BY <1>1, <2>1, Kept!SeqByAppend
<1> QED
  BY <1>3

-----------------------------------------------------------------------------
(* What is split off the tokens of a key or a value *)

MarkedToken == (A!Content \cup {"start", "end"}) \X Nat

\* The starts and the ends of a stream are those of the same transclusions, in order.
AreCalls(starts, ends) == Len(starts) = Len(ends) /\ \A i \in DOMAIN starts : ends[i][2] = starts[i][2]
Paired(stream) == AreCalls(A!Only({"start"}, stream), A!Only({"end"}, stream))

LEMMA OnlyOf ==
    ASSUME NEW V, NEW seq \in Seq(V), NEW kinds
    PROVE  /\ \A i \in DOMAIN A!Only(kinds, seq) :
                /\ A!Kind(A!Only(kinds, seq)[i]) \in kinds
                /\ \E n \in DOMAIN seq : seq[n] = A!Only(kinds, seq)[i]
           /\ \A kind \in kinds : A!Has(kind, seq) => A!Has(kind, A!Only(kinds, seq))
<1> DEFINE only == A!Only(kinds, seq)
<1>0. only \in Seq(V)
  BY OnlyAppend
<1>1. ASSUME NEW i \in DOMAIN only
      PROVE  A!Kind(only[i]) \in kinds /\ \E n \in DOMAIN seq : seq[n] = only[i]
  <2> PICK t : t = only[i]
    OBVIOUS
  <2>1. A!Times(t, only) > 0
    BY <1>0, TimesAre
  <2>2. A!Times(t, only) = IF A!Kind(t) \in kinds THEN A!Times(t, seq) ELSE 0
    BY OnlyTimes
  <2>3. A!Kind(t) \in kinds /\ A!Times(t, seq) > 0
    BY <2>1, <2>2
  <2>4. \E n \in DOMAIN seq : seq[n] = t
    BY <2>3, TimesAre
  <2> QED
    BY <2>3, <2>4
<1>2. ASSUME NEW kind \in kinds, A!Has(kind, seq) PROVE A!Has(kind, only)
  <2>1. PICK i \in DOMAIN seq : A!Kind(seq[i]) = kind
    BY <1>2 DEF A!Has
  <2> PICK t : t = seq[i]
    OBVIOUS
  <2>2. A!Times(t, seq) > 0
    BY TimesAre
  <2>3. A!Times(t, only) > 0
    BY <2>1, <2>2, OnlyTimes
  <2>4. \E n \in DOMAIN only : only[n] = t
    BY <1>0, <2>3, TimesAre
  <2> QED
    BY <2>1, <2>4 DEF A!Has
<1> QED
  BY <1>1, <1>2

\* The newline at which the tokens are split.
LEMMA NlIndex ==
    ASSUME NEW V, NEW tokens \in Seq(V), NEW pos, pos = A!nlTkIndex(tokens), pos # 0
    PROVE  pos \in 1..Len(tokens) /\ A!Kind(tokens[pos]) = "nl"
<1> DEFINE I == {i \in 1..Len(tokens) : A!Kind(tokens[i]) = "nl"}
<1>1. pos = A!SelectInSeq(tokens, LAMBDA t : A!Kind(t) = "nl")
  BY DEF A!nlTkIndex
<1>2. pos = IF I # {} THEN A!Min(I) ELSE 0
  BY <1>1, Zenon DEF A!SelectInSeq
<1>3. I \in SUBSET Nat /\ I # {}
  BY <1>2
<1>4. \E x \in I : \A y \in I : x <= y
  <2> HIDE DEF I
  <2> QED
    BY <1>3, Kept!LeastNat
<1>5. A!Min(I) \in I
  BY <1>4 DEF A!Min
<1> QED
  BY <1>2, <1>3, <1>5

LEMMA OnlyOne ==
    ASSUME NEW V, NEW x \in V, NEW kinds
    PROVE  A!Only(kinds, <<x>>) = IF A!Kind(x) \in kinds THEN <<x>> ELSE <<>>
<1> PICK none \in Seq(V) : none = <<>>
  BY EmptySeq
<1>1. A!Only(kinds, Append(none, x)) = IF A!Kind(x) \in kinds THEN Append(A!Only(kinds, none), x) ELSE A!Only(kinds, none)
  <2>1. \A s \in Seq(V) :
          A!Only(kinds, Append(s, x)) = IF A!Kind(x) \in kinds THEN Append(A!Only(kinds, s), x) ELSE A!Only(kinds, s)
    <3> TAKE s \in Seq(V)
    <3> QED
      BY OnlyAppend
  <2> QED
    BY <2>1
<1>2. Append(<<>>, x) = <<x>>
  OBVIOUS
<1> QED
  BY <1>1, <1>2, NothingFolded

LEMMA ExpansionIsPaired ==
    ASSUME NEW tokens, A!IsExpansion(tokens)
    PROVE  Paired(tokens)
  BY Zenon DEF A!IsExpansion, Paired, AreCalls

LEMMA PairsShift ==
    ASSUME NEW V, NEW S1 \in Seq(V), NEW S2 \in Seq(V), NEW E1 \in Seq(V), NEW E2 \in Seq(V), NEW m,
           AreCalls(S1 \o S2, E1 \o E2), Len(S1) = Len(E1) + 1, m = S1[Len(S1)]
    PROVE  AreCalls(<<m>> \o S2, E2)
<1> DEFINE S == S1 \o S2
           E == E1 \o E2
           M == <<m>> \o S2
           n == Len(E1)
<1>0. Len(S1) \in Nat /\ Len(S2) \in Nat /\ Len(E1) \in Nat /\ Len(E2) \in Nat /\ Len(S1) = n + 1
  OBVIOUS
<1>1. m \in V /\ <<m>> \in Seq(V) /\ Len(<<m>>) = 1 /\ <<m>>[1] = m
  BY <1>0
<1>2. /\ S \in Seq(V) /\ Len(S) = n + 1 + Len(S2)
      /\ \A i \in 1..(n + 1 + Len(S2)) : S[i] = IF i <= n + 1 THEN S1[i] ELSE S2[i - (n + 1)]
  <2>1. /\ S \in Seq(V) /\ Len(S) = Len(S1) + Len(S2)
        /\ \A i \in 1..(Len(S1) + Len(S2)) : S[i] = IF i <= Len(S1) THEN S1[i] ELSE S2[i - Len(S1)]
    BY ConcatProperties
  <2> QED
    BY <1>0, <2>1
<1>3. /\ E \in Seq(V) /\ Len(E) = n + Len(E2)
      /\ \A i \in 1..(n + Len(E2)) : E[i] = IF i <= n THEN E1[i] ELSE E2[i - n]
  BY <1>0, ConcatProperties
<1>4. /\ M \in Seq(V) /\ Len(M) = 1 + Len(S2)
      /\ \A i \in 1..(1 + Len(S2)) : M[i] = IF i <= 1 THEN <<m>>[i] ELSE S2[i - 1]
  BY <1>1, ConcatProperties
<1>5. Len(S) = Len(E) /\ \A i \in DOMAIN S : E[i][2] = S[i][2]
  BY DEF AreCalls
<1> HIDE DEF S, E, M, n
<1>6. n \in Nat
  BY <1>0 DEF n
<1>7. Len(E2) = 1 + Len(S2)
  BY <1>0, <1>2, <1>3, <1>5, <1>6
<1>8. ASSUME NEW i \in 1..(1 + Len(S2)) PROVE E2[i][2] = M[i][2]
  <2>1. n + i \in 1..(n + 1 + Len(S2)) /\ n + i \in DOMAIN S /\ (n + i) - n = i /\ ~(n + i <= n)
    BY <1>0, <1>2, <1>6
  <2>2. E[n + i] = E2[i]
    <3>1. n + i \in 1..(n + Len(E2))
      BY <1>0, <1>6, <1>7
    <3> QED
      BY <1>3, <2>1, <3>1
  <2>3. S[n + i] = M[i]
    <3>1. CASE i = 1
      BY <1>0, <1>1, <1>2, <1>4, <2>1, <3>1
    <3>2. CASE i > 1
      <4>1. ~(n + i <= n + 1) /\ (n + i) - (n + 1) = i - 1 /\ ~(i <= 1)
        BY <1>6, <3>2
      <4> QED
        BY <1>2, <1>4, <2>1, <4>1
    <3> QED
      BY <1>0, <3>1, <3>2
  <2> QED
    BY <1>5, <2>1, <2>2, <2>3
<1> QED
  BY <1>4, <1>7, <1>8 DEF M, AreCalls

\* Nothing is split off, or a start and the tokens from the newline on, whose markers
\* are pairs; no text is lost.
Whole(x, tokens) ==
    \A t : A!Kind(t) \in A!Content =>
        A!Times(t, x.tokens) + A!Times(t, x.content) = A!Times(t, tokens)
SplitIs(x, tokens) ==
    /\ x.tokens \in Seq(MarkedToken) /\ x.meta \in Seq(MarkedToken) /\ x.content \in Seq(MarkedToken)
    /\ Whole(x, tokens)
    /\ \/ x.meta = <<>> /\ x.content = <<>>
       \/ x.meta # <<>> /\ A!Has("nl", tokens) /\ Paired(x.meta \o x.content)

LEMMA NothingPaired == Paired(<<>> \o <<>>)
<1>1. <<>> \o <<>> = <<>>
  OBVIOUS
<1> QED
  BY <1>1, NothingFolded DEF Paired, AreCalls

LEMMA TokensAreSplit ==
    ASSUME NEW tokens, A!IsExpansion(tokens)
    PROVE  SplitIs(A!SplitOrStrip(tokens), tokens)
<1> DEFINE V == MarkedToken
           pos == A!nlTkIndex(tokens)
           before == SubSeq(tokens, 1, pos - 1)
           after == SubSeq(tokens, pos, Len(tokens))
           starts == A!Only({"start"}, before)
           x == A!SplitOrStrip(tokens)
<1>0. tokens \in Seq(V)
  BY DEF A!IsExpansion, MarkedToken
<1>1. \A t : A!Times(t, <<>>) = 0 /\ A!Times(t, tokens) \in Nat
  BY <1>0, NoTimes, TimesAre
<1>2. CASE pos = 0
  <2>1. x.meta = <<>> /\ x.content = <<>> /\ x.tokens = A!Only(A!Content, tokens)
    BY <1>2 DEF A!SplitOrStrip, A!stripMetaTags
  <2>2. x.tokens \in Seq(V)
    BY <1>0, <2>1, OnlyAppend
  <2>3. \A t : A!Kind(t) \in A!Content => A!Times(t, x.tokens) = A!Times(t, tokens)
    BY <1>0, <2>1, OnlyTimes
  <2> QED
    BY <1>1, <2>1, <2>2, <2>3, EmptySeq DEF SplitIs, Whole
<1>3. CASE pos # 0 /\ ~(A!wrapTemplates /\ starts # <<>>)
  <2>1. x.meta = <<>> /\ x.content = <<>> /\ x.tokens = tokens
    BY <1>3 DEF A!SplitOrStrip, A!splitTokens
  <2> QED
    BY <1>0, <1>1, <2>1, EmptySeq DEF SplitIs, Whole
<1>4. CASE pos # 0 /\ A!wrapTemplates /\ starts # <<>>
  <2>1. x.meta = <<A!Last(starts)>> /\ x.content = after /\ x.tokens = before
    BY <1>4 DEF A!SplitOrStrip, A!splitTokens
  <2>2. pos \in 1..Len(tokens) /\ A!Kind(tokens[pos]) = "nl" /\ Len(tokens) \in Nat
    BY <1>0, <1>4, NlIndex
  <2>3. before \in Seq(V) /\ after \in Seq(V) /\ before \o after = tokens
    <3>1. before \in Seq(V)
      <4>1. \A i \in 1..(pos - 1) : tokens[i] \in V
        BY <1>0, <2>2
      <4> HIDE DEF V, pos
      <4> QED
        BY <2>2, <4>1, SubSeqProperties
    <3>2. after \in Seq(V)
      <4>1. \A i \in pos..Len(tokens) : tokens[i] \in V
        BY <1>0, <2>2
      <4> HIDE DEF V, pos
      <4> QED
        BY <2>2, <4>1, SubSeqProperties
    <3>3. before \o after = tokens
      <4>1. 1 \in 1..(Len(tokens) + 1) /\ pos - 1 \in 0..Len(tokens) /\ Len(tokens) \in (pos - 1)..Len(tokens)
            /\ (pos - 1) + 1 = pos
        BY <2>2
      <4> HIDE DEF V, pos
      <4> PICK k : k = pos - 1
        OBVIOUS
      <4>2. 1 \in 1..(Len(tokens) + 1) /\ k \in (1 - 1)..Len(tokens) /\ Len(tokens) \in k..Len(tokens)
            /\ k + 1 = pos
        BY <4>1
      <4>3. SubSeq(tokens, 1, k) \o SubSeq(tokens, k + 1, Len(tokens)) = SubSeq(tokens, 1, Len(tokens))
        BY <1>0, <4>2, ConcatAdjacentSubSeq
      <4> QED
        BY <1>0, <4>2, <4>3, SubSeqFull
    <3> QED
      BY <3>1, <3>2, <3>3
  <2> DEFINE ends == A!Only({"end"}, before)
             laterStarts == A!Only({"start"}, after)
             laterEnds == A!Only({"end"}, after)
             m == starts[Len(starts)]
  <2> HIDE DEF before, after, V
  <2>4. starts \in Seq(V) /\ ends \in Seq(V) /\ laterStarts \in Seq(V) /\ laterEnds \in Seq(V)
    BY <2>3, OnlyAppend
  <2>5. A!Only({"start"}, tokens) = starts \o laterStarts /\ A!Only({"end"}, tokens) = ends \o laterEnds
    BY <2>3, OnlyConcat
  <2>6. Len(starts) = Len(ends) + 1
    <3>1. 1 \in DOMAIN starts
      BY <1>4, <2>4
    <3>2. PICK n \in DOMAIN before : A!Kind(before[n]) = "start"
      BY <2>3, <3>1, OnlyOf
    <3>3. n \in 1..pos /\ tokens[n] = before[n]
      BY <1>0, <2>2, <2>3 DEF before
    <3>4. pos \in DOMAIN tokens /\ \E k \in 1..pos : A!Kind(tokens[k]) = "start"
      BY <1>0, <2>2, <3>2, <3>3
    <3> HIDE DEF pos
    <3> QED
      BY <2>2, <3>4 DEF A!IsExpansion, before
  <2>7. m \in V /\ A!Kind(m) = "start" /\ A!Last(starts) = m
    <3>1. Len(starts) \in DOMAIN starts
      BY <1>4, <2>4
    <3>2. A!Kind(m) \in {"start"}
      BY <2>3, <3>1, OnlyOf
    <3> QED
      BY <2>4, <3>1, <3>2 DEF A!Last
  <2> HIDE DEF starts, ends, laterStarts, laterEnds, m, pos
  <2>8. A!Only({"start"}, <<m>> \o after) = <<m>> \o laterStarts /\ A!Only({"end"}, <<m>> \o after) = laterEnds
    <3>1. <<m>> \in Seq(V)
      BY <2>7
    <3>2. /\ A!Only({"start"}, <<m>> \o after) = A!Only({"start"}, <<m>>) \o laterStarts
          /\ A!Only({"end"}, <<m>> \o after) = A!Only({"end"}, <<m>>) \o laterEnds
      BY <2>3, <3>1, OnlyConcat DEF laterStarts, laterEnds
    <3>4. A!Only({"start"}, <<m>>) = <<m>> /\ A!Only({"end"}, <<m>>) = <<>>
      BY <2>7, OnlyOne
    <3>5. <<>> \o laterEnds = laterEnds
      BY <2>4
    <3> QED
      BY <3>2, <3>4, <3>5
  <2>9. Paired(x.meta \o x.content)
    <3>1. AreCalls(starts \o laterStarts, ends \o laterEnds)
      BY <2>5, ExpansionIsPaired DEF Paired
    <3>2. m = starts[Len(starts)]
      BY DEF m
    <3>3. AreCalls(<<m>> \o laterStarts, laterEnds)
      BY <2>4, <2>6, <3>1, <3>2, PairsShift
    <3> QED
      BY <2>1, <2>7, <2>8, <3>3 DEF Paired
  <2>10. Whole(x, tokens)
    <3>1. \A t : A!Times(t, before \o after) = A!Times(t, before) + A!Times(t, after)
      BY <2>3, TimesConcat
    <3> QED
      BY <2>1, <2>3, <3>1 DEF Whole
  <2>11. A!Has("nl", tokens)
    BY <1>0, <2>2 DEF A!Has
  <2>12. x.meta # <<>> /\ x.meta \in Seq(V)
    BY <2>1, <2>7
  <2> QED
    BY <2>1, <2>3, <2>9, <2>10, <2>11, <2>12 DEF SplitIs, V
<1> QED
  BY <1>2, <1>3, <1>4

-----------------------------------------------------------------------------
(* One attribute is built *)

KV == [string : BOOLEAN, tokens : Seq(MarkedToken)]
Attrib == [k : KV, v : KV]
\* An attribute of the token, and what has become of it: strings are as they were,
\* arrays of tokens are what they were expanded to.
Pair(p) ==
    /\ DOMAIN p = {"old", "new"} /\ p.old \in Attrib /\ p.new \in Attrib
    /\ p.new.k.string = p.old.k.string /\ p.new.v.string = p.old.v.string
    /\ ~p.old.k.string => A!IsExpansion(p.new.k.tokens)
    /\ ~p.old.v.string => A!IsExpansion(p.new.v.tokens)
NlInKey(p) == ~p.old.k.string /\ A!Has("nl", p.new.k.tokens)
NlInValue(p) == ~p.old.v.string /\ A!Has("nl", p.new.v.tokens)
BringsContent(p) == NlInKey(p) \/ NlInValue(p)

TextTimes(t, attrib) == A!Times(t, attrib.k.tokens) + A!Times(t, attrib.v.tokens)
IsReparsed(attribs) ==
    \E i \in DOMAIN attribs : attribs[i].k.string /\ A!Has("eq", attribs[i].k.tokens)

\* What is known of the content around the tag: it is as it was, or split off here.
ContentIs(s, r, p) ==
    \/ r.content = s.content /\ r.meta = s.meta
    \/ BringsContent(p) /\ Paired(r.meta \o r.content)
\* No text of the attribute is lost.
TextIs(s, r, p, kv) ==
    \/ r.content = s.content /\ \A t : A!Kind(t) \in A!Content => TextTimes(t, kv) = TextTimes(t, p.new)
    \/ BringsContent(p) /\ \A t : A!Kind(t) \in A!Content =>
                                TextTimes(t, kv) + A!Times(t, r.content) = TextTimes(t, p.new)

\* What buildExpandedAttrs makes of one attribute: attributes parsed from the text, or one.
BuiltFrom(s, r, p) ==
    /\ r.content \in Seq(MarkedToken) /\ r.meta \in Seq(MarkedToken)
    /\ ContentIs(s, r, p)
    /\ \E more \in Seq(Attrib) :
         /\ r.attribs = s.attribs \o more
         /\ IsReparsed(more) \/ \E kv \in Attrib : more = <<kv>> /\ TextIs(s, r, p, kv)

LEMMA ReparsedIs ==
    ASSUME NEW tokens \in Seq(MarkedToken), A!Has("eq", tokens)
    PROVE  A!Reparsed(tokens) \in Seq(Attrib) /\ IsReparsed(A!Reparsed(tokens))
<1> DEFINE V == MarkedToken
           text == A!Only({"s", "eq"}, tokens)
           eqs == A!Only({"eq"}, text)
           more == A!Reparsed(tokens)
<1> HIDE DEF V
<1>1. text \in Seq(V) /\ eqs \in Seq(V)
  BY OnlyAppend DEF V
<1>2. A!Has("eq", eqs)
  <2>1. A!Has("eq", text)
    BY OnlyOf
  <2> QED
    BY <1>1, <2>1, OnlyOf
<1> HIDE DEF text, eqs
<1>3. more = [i \in 1..Len(eqs) |-> [k |-> A!Str(<<eqs[i]>>), v |-> A!Str(text)]]
  BY DEF A!Reparsed, text, eqs
<1>4. PICK i \in 1..Len(eqs) : A!Kind(eqs[i]) = "eq"
  BY <1>1, <1>2 DEF A!Has
<1>5. \A s \in Seq(V) : A!Str(s) \in KV /\ A!Str(s).string /\ A!Str(s).tokens = s
  BY DEF A!Str, KV, V
<1>6. \A n \in 1..Len(eqs) : eqs[n] \in V /\ <<eqs[n]>> \in Seq(V)
  BY <1>1
<1>7. more \in Seq(Attrib)
  <2> DEFINE kv(n) == [k |-> A!Str(<<eqs[n]>>), v |-> A!Str(text)]
  <2>1. \A n \in 1..Len(eqs) : kv(n) \in Attrib
    BY <1>1, <1>5, <1>6 DEF Attrib
  <2>2. more = [n \in 1..Len(eqs) |-> kv(n)] /\ Len(eqs) \in Nat
    BY <1>1, <1>3
  <2> HIDE DEF kv
  <2>3. more \in [1..Len(eqs) -> Attrib]
    BY <2>1, <2>2
  <2> QED
    BY <2>2, <2>3, FunctionIsSeq
<1>8. i \in DOMAIN more /\ more[i].k = A!Str(<<eqs[i]>>)
  BY <1>3
<1>9. more[i].k.string /\ more[i].k.tokens = <<eqs[i]>>
  BY <1>5, <1>6, <1>8
<1>10. A!Has("eq", <<eqs[i]>>)
  BY <1>4 DEF A!Has
<1> QED
  BY <1>7, <1>8, <1>9, <1>10 DEF IsReparsed

\* What is built, by what is split.
TakesContent(s, r, x) ==
    /\ r.meta = IF x.meta \o x.content # <<>> THEN x.meta ELSE s.meta
    /\ r.content = IF x.meta \o x.content # <<>> THEN x.content ELSE s.content

BuiltOfKey(s, r, p, x) ==
    /\ TakesContent(s, r, x)
    /\ \/ A!Reparses(p.old, x) /\ r.attribs = s.attribs \o A!Reparsed(x.tokens)
       \/ r.attribs = s.attribs \o <<[k |-> A!Arr(x.tokens), v |-> p.new.v]>>

LEMMA BuildIs ==
    ASSUME NEW s, NEW p, Pair(p), NEW r, r = A!Build(s, p)
    PROVE  /\ ~p.old.k.string => BuiltOfKey(s, r, p, A!SplitOrStrip(p.new.k.tokens))
           /\ p.old.k.string /\ ~p.old.v.string => \E x :
                /\ x = A!SplitOrStrip(p.new.v.tokens) /\ TakesContent(s, r, x)
                /\ r.attribs = s.attribs \o <<[k |-> p.new.k, v |-> A!Arr(x.tokens)]>>
           /\ p.old.k.string /\ p.old.v.string =>
                /\ r.content = s.content /\ r.meta = s.meta
                /\ r.attribs = s.attribs \o <<[k |-> p.new.k, v |-> p.new.v]>>
<1>1. p.new.k.string = p.old.k.string
  BY DEF Pair
<1>2. CASE ~p.old.k.string
  <2> PICK x : x = A!SplitOrStrip(p.new.k.tokens)
    OBVIOUS
  <2>1. A!Reparses(p.old, x) => p.old.v.string
    BY DEF A!Reparses, A!Str
  <2>2. TakesContent(s, r, x)
    BY <1>1, <1>2, <2>1 DEF A!Build, TakesContent
  <2>3. \/ A!Reparses(p.old, x) /\ r.attribs = s.attribs \o A!Reparsed(x.tokens)
        \/ r.attribs = s.attribs \o <<[k |-> A!Arr(x.tokens), v |-> p.new.v]>>
    BY <1>1, <1>2, <2>1 DEF A!Build
  <2> QED
    BY <1>2, <2>2, <2>3 DEF BuiltOfKey
<1>3. CASE p.old.k.string /\ ~p.old.v.string
  <2> PICK x : x = A!SplitOrStrip(p.new.v.tokens)
    OBVIOUS
  <2>1. TakesContent(s, r, x)
    BY <1>1, <1>3 DEF A!Build, TakesContent
  <2>2. r.attribs = s.attribs \o <<[k |-> p.new.k, v |-> A!Arr(x.tokens)]>>
    BY <1>1, <1>3 DEF A!Build
  <2> QED
    BY <1>3, <2>1, <2>2
<1>4. CASE p.old.k.string /\ p.old.v.string
  BY <1>1, <1>4 DEF A!Build
<1> QED
  BY <1>2, <1>3, <1>4

\* What is taken of a split.
Taken(s, r, p, x, tokens) ==
    /\ r.content \in Seq(MarkedToken) /\ r.meta \in Seq(MarkedToken)
    /\ ContentIs(s, r, p)
    /\ \/ r.content = s.content
            /\ \A t : A!Kind(t) \in A!Content => A!Times(t, x.tokens) = A!Times(t, tokens)
       \/ BringsContent(p)
            /\ \A t : A!Kind(t) \in A!Content =>
                 A!Times(t, x.tokens) + A!Times(t, r.content) = A!Times(t, tokens)

LEMMA ContentTaken ==
    ASSUME NEW s, s.content \in Seq(MarkedToken), s.meta \in Seq(MarkedToken), NEW r, NEW p,
           NEW x, NEW tokens, SplitIs(x, tokens), TakesContent(s, r, x),
           A!Has("nl", tokens) => BringsContent(p)
    PROVE  Taken(s, r, p, x, tokens)
<1>0. x.tokens \in Seq(MarkedToken) /\ x.meta \in Seq(MarkedToken) /\ x.content \in Seq(MarkedToken)
  BY DEF SplitIs
<1>1. CASE x.meta = <<>> /\ x.content = <<>>
  <2>1. x.meta \o x.content = <<>>
    BY <1>1
  <2>2. r.content = s.content /\ r.meta = s.meta
    BY <2>1 DEF TakesContent
  <2>3. \A t : A!Times(t, x.content) = 0 /\ A!Times(t, x.tokens) \in Nat
    BY <1>0, <1>1, NoTimes, TimesAre
  <2> QED
    BY <1>0, <2>2, <2>3 DEF Taken, ContentIs, SplitIs, Whole
<1>2. CASE x.meta # <<>> /\ A!Has("nl", tokens) /\ Paired(x.meta \o x.content)
  <2>1. x.meta \o x.content # <<>>
    BY <1>0, <1>2
  <2>2. r.content = x.content /\ r.meta = x.meta
    BY <2>1 DEF TakesContent
  <2> QED
    BY <1>0, <1>2, <2>2 DEF Taken, ContentIs, SplitIs, Whole
<1> QED
  BY <1>1, <1>2 DEF SplitIs

LEMMA AttributeIsBuilt ==
    ASSUME NEW s, s.content \in Seq(MarkedToken), s.meta \in Seq(MarkedToken), NEW p, Pair(p),
           NEW r, r = A!Build(s, p)
    PROVE  BuiltFrom(s, r, p)
<1>0. /\ p.new \in Attrib /\ p.new.k \in KV /\ p.new.v \in KV
      /\ p.new.k.tokens \in Seq(MarkedToken) /\ p.new.v.tokens \in Seq(MarkedToken)
  BY DEF Pair, Attrib, KV
<1>1. \A tokens \in Seq(MarkedToken) : A!Arr(tokens) \in KV /\ A!Arr(tokens).tokens = tokens
  BY DEF A!Arr, KV
<1>2. \A t : A!Times(t, p.new.k.tokens) \in Nat /\ A!Times(t, p.new.v.tokens) \in Nat
  BY <1>0, TimesAre
<1>3. CASE ~p.old.k.string
  <2> PICK x : x = A!SplitOrStrip(p.new.k.tokens)
    OBVIOUS
  <2>1. /\ x = A!SplitOrStrip(p.new.k.tokens) /\ TakesContent(s, r, x)
        /\ \/ A!Reparses(p.old, x) /\ r.attribs = s.attribs \o A!Reparsed(x.tokens)
           \/ r.attribs = s.attribs \o <<[k |-> A!Arr(x.tokens), v |-> p.new.v]>>
    <3>1. BuiltOfKey(s, r, p, x)
      BY <1>3, BuildIs
    <3> QED
      BY <3>1 DEF BuiltOfKey
  <2>2. SplitIs(x, p.new.k.tokens) /\ x.tokens \in Seq(MarkedToken)
    BY <1>3, <2>1, TokensAreSplit DEF Pair, SplitIs
  <2>3. A!Has("nl", p.new.k.tokens) => BringsContent(p)
    BY <1>3 DEF BringsContent, NlInKey
  <2>4. /\ r.content \in Seq(MarkedToken) /\ r.meta \in Seq(MarkedToken)
        /\ ContentIs(s, r, p)
        /\ \/ r.content = s.content
                /\ \A t : A!Kind(t) \in A!Content => A!Times(t, x.tokens) = A!Times(t, p.new.k.tokens)
           \/ BringsContent(p)
                /\ \A t : A!Kind(t) \in A!Content =>
                     A!Times(t, x.tokens) + A!Times(t, r.content) = A!Times(t, p.new.k.tokens)
    <3>1. Taken(s, r, p, x, p.new.k.tokens)
      BY <2>1, <2>2, <2>3, ContentTaken
    <3> QED
      BY <3>1 DEF Taken
  <2>5. CASE A!Reparses(p.old, x) /\ r.attribs = s.attribs \o A!Reparsed(x.tokens)
    <3>1. A!Reparsed(x.tokens) \in Seq(Attrib) /\ IsReparsed(A!Reparsed(x.tokens))
      BY <2>2, <2>5, ReparsedIs DEF A!Reparses
    <3> QED
      BY <2>4, <2>5, <3>1 DEF BuiltFrom
  <2>6. CASE r.attribs = s.attribs \o <<[k |-> A!Arr(x.tokens), v |-> p.new.v]>>
    <3> DEFINE kv == [k |-> A!Arr(x.tokens), v |-> p.new.v]
    <3>1. kv \in Attrib /\ kv.k.tokens = x.tokens /\ kv.v.tokens = p.new.v.tokens
      BY <1>0, <1>1, <2>2 DEF Attrib
    <3> HIDE DEF kv
    <3>2. <<kv>> \in Seq(Attrib)
      BY <3>1
    <3>3. \A t : A!Times(t, x.tokens) \in Nat /\ A!Times(t, r.content) \in Nat
      BY <2>2, <2>4, TimesAre
    <3>4. TextIs(s, r, p, kv)
      BY <1>2, <2>4, <3>1, <3>3 DEF TextIs, TextTimes
    <3> QED
      BY <2>4, <2>6, <3>1, <3>2, <3>4 DEF BuiltFrom, kv
  <2> QED
    BY <2>1, <2>5, <2>6
<1>4. CASE p.old.k.string /\ ~p.old.v.string
  <2>1. PICK x : /\ x = A!SplitOrStrip(p.new.v.tokens) /\ TakesContent(s, r, x)
                 /\ r.attribs = s.attribs \o <<[k |-> p.new.k, v |-> A!Arr(x.tokens)]>>
    BY <1>4, BuildIs
  <2>2. SplitIs(x, p.new.v.tokens) /\ x.tokens \in Seq(MarkedToken)
    BY <1>4, <2>1, TokensAreSplit DEF Pair, SplitIs
  <2>3. A!Has("nl", p.new.v.tokens) => BringsContent(p)
    BY <1>4 DEF BringsContent, NlInValue
  <2>4. /\ r.content \in Seq(MarkedToken) /\ r.meta \in Seq(MarkedToken)
        /\ ContentIs(s, r, p)
        /\ \/ r.content = s.content
                /\ \A t : A!Kind(t) \in A!Content => A!Times(t, x.tokens) = A!Times(t, p.new.v.tokens)
           \/ BringsContent(p)
                /\ \A t : A!Kind(t) \in A!Content =>
                     A!Times(t, x.tokens) + A!Times(t, r.content) = A!Times(t, p.new.v.tokens)
    <3>1. Taken(s, r, p, x, p.new.v.tokens)
      BY <2>1, <2>2, <2>3, ContentTaken
    <3> QED
      BY <3>1 DEF Taken
  <2> DEFINE kv == [k |-> p.new.k, v |-> A!Arr(x.tokens)]
  <2>5. kv \in Attrib /\ kv.k.tokens = p.new.k.tokens /\ kv.v.tokens = x.tokens
    BY <1>0, <1>1, <2>2 DEF Attrib
  <2> HIDE DEF kv
  <2>6. <<kv>> \in Seq(Attrib)
    BY <2>5
  <2>7. \A t : A!Times(t, x.tokens) \in Nat /\ A!Times(t, r.content) \in Nat
    BY <2>2, <2>4, TimesAre
  <2>8. TextIs(s, r, p, kv)
    BY <1>2, <2>4, <2>5, <2>7 DEF TextIs, TextTimes
  <2> QED
    BY <2>1, <2>4, <2>5, <2>6, <2>8 DEF BuiltFrom, kv
<1>5. CASE p.old.k.string /\ p.old.v.string
  <2>1. /\ r.content = s.content /\ r.meta = s.meta
        /\ r.attribs = s.attribs \o <<[k |-> p.new.k, v |-> p.new.v]>>
    BY <1>5, BuildIs
  <2> DEFINE kv == [k |-> p.new.k, v |-> p.new.v]
  <2>2. kv \in Attrib /\ kv.k.tokens = p.new.k.tokens /\ kv.v.tokens = p.new.v.tokens
    BY <1>0 DEF Attrib
  <2> HIDE DEF kv
  <2>3. <<kv>> \in Seq(Attrib) /\ TextIs(s, r, p, kv) /\ ContentIs(s, r, p)
    BY <2>1, <2>2 DEF TextIs, TextTimes, ContentIs
  <2> QED
    BY <2>1, <2>2, <2>3 DEF BuiltFrom, kv
<1> QED
  BY <1>3, <1>4, <1>5

-----------------------------------------------------------------------------
(* All attributes are built *)

Pairs == {p \in [old : Attrib, new : Attrib] : Pair(p)}
News(ps) == [i \in DOMAIN ps |-> ps[i].new]
OneBrings(ps) == \A i, j \in DOMAIN ps : BringsContent(ps[i]) /\ BringsContent(ps[j]) => i = j

\* What has been built of some attributes.
BuiltIs(b, ps) ==
    /\ DOMAIN b = {"attribs", "meta", "content", "marked"}
    /\ b.attribs \in Seq(Attrib) /\ b.content \in Seq(MarkedToken) /\ b.meta \in Seq(MarkedToken)
    /\ Paired(b.meta \o b.content)
    /\ b.content # <<>> => \E i \in DOMAIN ps : BringsContent(ps[i])
    /\ \/ IsReparsed(b.attribs)
       \/ \A t : A!Kind(t) \in A!Content =>
            A!Times(t, A!TextOf(b.attribs)) + A!Times(t, b.content) = A!Times(t, A!TextOf(News(ps)))

LEMMA TextType ==
    ASSUME NEW attribs \in Seq(Attrib)
    PROVE  A!TextOf(attribs) \in Seq(MarkedToken)
<1> DEFINE S == {s \in Seq(Attrib) : A!TextOf(s) \in Seq(MarkedToken)}
<1>1. <<>> \in S
  BY EmptySeq, NothingFolded
<1>2. ASSUME NEW s \in S, NEW x \in Attrib PROVE Append(s, x) \in S
  <2>1. A!TextOf(Append(s, x)) = A!TextOf(s) \o x.k.tokens \o x.v.tokens
    BY TextAppend
  <2>2. x.k.tokens \in Seq(MarkedToken) /\ x.v.tokens \in Seq(MarkedToken)
    BY DEF Attrib, KV
  <2>3. A!TextOf(Append(s, x)) \in Seq(MarkedToken) /\ Append(s, x) \in Seq(Attrib)
    BY <2>1, <2>2
  <2> QED
    BY <2>3
<1>3. S = Seq(Attrib)
  <2>1. S \in SUBSET Seq(Attrib)
    OBVIOUS
  <2> HIDE DEF S
  <2> QED
    BY <1>1, <1>2, <2>1, Kept!SeqByAppend
<1> QED
  BY <1>3

LEMMA TextTimesAppend ==
    ASSUME NEW attribs \in Seq(Attrib), NEW x \in Attrib, NEW t
    PROVE  /\ A!Times(t, A!TextOf(Append(attribs, x))) = A!Times(t, A!TextOf(attribs)) + TextTimes(t, x)
           /\ A!Times(t, A!TextOf(attribs)) \in Nat /\ TextTimes(t, x) \in Nat
<1> DEFINE a == A!TextOf(attribs)
           b == x.k.tokens
           c == x.v.tokens
<1>1. a \in Seq(MarkedToken) /\ b \in Seq(MarkedToken) /\ c \in Seq(MarkedToken)
  BY TextType DEF Attrib, KV
<1>2. A!TextOf(Append(attribs, x)) = a \o b \o c
  BY TextAppend
<1> HIDE DEF a, b, c
<1>3. a \o b \in Seq(MarkedToken)
  BY <1>1
<1>4. A!Times(t, (a \o b) \o c) = A!Times(t, a \o b) + A!Times(t, c)
  BY <1>1, <1>3, TimesConcat
<1>5. A!Times(t, a \o b) = A!Times(t, a) + A!Times(t, b)
  BY <1>1, TimesConcat
<1>6. A!Times(t, a) \in Nat /\ A!Times(t, b) \in Nat /\ A!Times(t, c) \in Nat
  BY <1>1, TimesAre
<1> QED
  BY <1>2, <1>4, <1>5, <1>6 DEF TextTimes, a, b, c

LEMMA NewsAppend ==
    ASSUME NEW ps \in Seq(Pairs), NEW p \in Pairs
    PROVE  /\ News(ps) \in Seq(Attrib) /\ p.new \in Attrib
           /\ News(Append(ps, p)) = Append(News(ps), p.new)
<1>1. p.new \in Attrib /\ \A i \in DOMAIN ps : ps[i].new \in Attrib
  BY DEF Pairs
<1>2. News(ps) \in Seq(Attrib) /\ Len(News(ps)) = Len(ps) /\ \A i \in 1..Len(ps) : News(ps)[i] = ps[i].new
  BY <1>1 DEF News
<1>3. Append(ps, p) \in Seq(Pairs) /\ Len(Append(ps, p)) = Len(ps) + 1
  OBVIOUS
<1>4. DOMAIN News(Append(ps, p)) = 1..(Len(ps) + 1) /\ \A i \in 1..(Len(ps) + 1) :
        News(Append(ps, p))[i] = IF i \in 1..Len(ps) THEN ps[i].new ELSE p.new
  BY <1>3 DEF News
<1> DEFINE more == Append(News(ps), p.new)
           all == News(Append(ps, p))
<1>5. more \in Seq(Attrib) /\ Len(more) = Len(ps) + 1 /\ \A i \in 1..(Len(ps) + 1) :
        more[i] = IF i \in 1..Len(ps) THEN ps[i].new ELSE p.new
  BY <1>1, <1>2, AppendProperties
<1>6. all \in Seq(Attrib) /\ Len(all) = Len(ps) + 1
  <2>1. \A i \in 1..(Len(ps) + 1) : all[i] \in Attrib
    BY <1>1, <1>4
  <2>2. all = [i \in 1..(Len(ps) + 1) |-> all[i]]
    BY <1>3 DEF News
  <2>3. Len(ps) + 1 \in Nat
    OBVIOUS
  <2> HIDE DEF all
  <2>4. all \in [1..(Len(ps) + 1) -> Attrib]
    BY <2>1, <2>2
  <2> QED
    BY <2>3, <2>4
<1> HIDE DEF more, all
<1>7. all = more
  BY <1>4, <1>5, <1>6, SeqEqual DEF all
<1> QED
  BY <1>1, <1>2, <1>7 DEF all, more

LEMMA ConcatHas ==
    ASSUME NEW V, NEW a \in Seq(V), NEW b \in Seq(V), NEW ab, ab = a \o b
    PROVE  /\ \A i \in DOMAIN a : i \in DOMAIN ab /\ ab[i] = a[i]
           /\ \A i \in DOMAIN b : Len(a) + i \in DOMAIN ab /\ ab[Len(a) + i] = b[i]
  OBVIOUS

LEMMA OneMoreIsBuilt ==
    ASSUME NEW ps \in Seq(Pairs), NEW p \in Pairs, OneBrings(Append(ps, p)), NEW s, BuiltIs(s, ps),
           NEW r, r = A!Build(s, p)
    PROVE  BuiltIs(r, Append(ps, p))
<1> DEFINE longer == Append(ps, p)
<1>0. Pair(p) /\ s.attribs \in Seq(Attrib) /\ s.content \in Seq(MarkedToken) /\ s.meta \in Seq(MarkedToken)
  BY DEF Pairs, BuiltIs
<1>1. BuiltFrom(s, r, p)
  BY <1>0, AttributeIsBuilt
<1>2. PICK more \in Seq(Attrib) :
        /\ r.attribs = s.attribs \o more
        /\ IsReparsed(more) \/ \E kv \in Attrib : more = <<kv>> /\ TextIs(s, r, p, kv)
  BY <1>1 DEF BuiltFrom
<1>3. r.content \in Seq(MarkedToken) /\ r.meta \in Seq(MarkedToken) /\ ContentIs(s, r, p)
  BY <1>1 DEF BuiltFrom
<1>4. r.attribs \in Seq(Attrib)
  BY <1>0, <1>2
<1>5. Paired(r.meta \o r.content)
  BY <1>3 DEF ContentIs, BuiltIs
<1>6. /\ \A i \in DOMAIN ps : i \in DOMAIN longer /\ longer[i] = ps[i] /\ i # Len(ps) + 1
      /\ Len(ps) + 1 \in DOMAIN longer /\ longer[Len(ps) + 1] = p
  OBVIOUS
<1> HIDE DEF longer
<1>7. r.content # <<>> => \E i \in DOMAIN longer : BringsContent(longer[i])
  BY <1>3, <1>6 DEF ContentIs, BuiltIs
<1>8. BringsContent(p) => s.content = <<>>
  <2>1. OneBrings(longer)
    BY DEF longer
  <2> QED
    BY <1>6, <2>1 DEF OneBrings, BuiltIs
<1>9. IsReparsed(s.attribs) \/ IsReparsed(more) => IsReparsed(r.attribs)
  <2>1. /\ \A i \in DOMAIN s.attribs : i \in DOMAIN r.attribs /\ r.attribs[i] = s.attribs[i]
        /\ \A i \in DOMAIN more : Len(s.attribs) + i \in DOMAIN r.attribs /\ r.attribs[Len(s.attribs) + i] = more[i]
    BY <1>0, <1>2, ConcatHas
  <2> QED
    BY <2>1 DEF IsReparsed
<1>10. ASSUME NEW kv \in Attrib, more = <<kv>>, TextIs(s, r, p, kv), ~IsReparsed(s.attribs)
       PROVE  \A t : A!Kind(t) \in A!Content =>
            A!Times(t, A!TextOf(r.attribs)) + A!Times(t, r.content) = A!Times(t, A!TextOf(News(longer)))
  <2> TAKE t
  <2> HAVE A!Kind(t) \in A!Content
  <2>1. r.attribs = Append(s.attribs, kv)
    BY <1>0, <1>2, <1>10
  <2>2. A!Times(t, A!TextOf(r.attribs)) = A!Times(t, A!TextOf(s.attribs)) + TextTimes(t, kv)
        /\ A!Times(t, A!TextOf(s.attribs)) \in Nat /\ TextTimes(t, kv) \in Nat
    BY <1>0, <2>1, TextTimesAppend
  <2>3. A!Times(t, A!TextOf(News(longer))) = A!Times(t, A!TextOf(News(ps))) + TextTimes(t, p.new)
        /\ A!Times(t, A!TextOf(News(ps))) \in Nat /\ TextTimes(t, p.new) \in Nat
    BY NewsAppend, TextTimesAppend DEF longer
  <2>4. A!Times(t, A!TextOf(s.attribs)) + A!Times(t, s.content) = A!Times(t, A!TextOf(News(ps)))
    BY <1>10 DEF BuiltIs
  <2>5. A!Times(t, s.content) \in Nat /\ A!Times(t, r.content) \in Nat
    BY <1>0, <1>3, TimesAre
  <2>6. CASE r.content = s.content /\ TextTimes(t, kv) = TextTimes(t, p.new)
    BY <2>2, <2>3, <2>4, <2>5, <2>6
  <2>7. CASE BringsContent(p) /\ TextTimes(t, kv) + A!Times(t, r.content) = TextTimes(t, p.new)
    <3>1. A!Times(t, s.content) = 0
      BY <1>8, <2>7, NoTimes
    <3> QED
      BY <2>2, <2>3, <2>4, <2>5, <2>7, <3>1
  <2> QED
    BY <1>10, <2>6, <2>7 DEF TextIs
<1>11. \/ IsReparsed(r.attribs)
       \/ \A t : A!Kind(t) \in A!Content =>
            A!Times(t, A!TextOf(r.attribs)) + A!Times(t, r.content) = A!Times(t, A!TextOf(News(longer)))
  BY <1>2, <1>9, <1>10
<1>12. DOMAIN r = {"attribs", "meta", "content", "marked"}
  BY DEF A!Build
<1> QED
  BY <1>3, <1>4, <1>5, <1>7, <1>11, <1>12 DEF BuiltIs, longer

LEMMA AllIsBuilt ==
    ASSUME NEW ps \in Seq(Pairs), OneBrings(ps)
    PROVE  BuiltIs(A!FoldLeft(A!Build, A!NothingBuilt, ps), ps)
<1> DEFINE F(s) == A!FoldLeft(A!Build, A!NothingBuilt, s)
           Good(s) == OneBrings(s) => BuiltIs(F(s), s)
           S == {s \in Seq(Pairs) : Good(s)}
<1>1. Good(<<>>)
  <2>1. Built!FoldLeft(A!Build, A!NothingBuilt, <<>>) = A!NothingBuilt
    BY Built!FoldEmpty
  <2>2. F(<<>>) = A!NothingBuilt
    BY <2>1, AttributesAreFolded
  <2> PICK b : b = F(<<>>)
    OBVIOUS
  <2>3. DOMAIN b = {"attribs", "meta", "content", "marked"} /\ b.attribs = <<>> /\ b.content = <<>> /\ b.meta = <<>>
    BY <2>2 DEF A!NothingBuilt
  <2>4. News(<<>>) = <<>>
    BY DEF News
  <2>5. \A t : A!Times(t, A!TextOf(<<>>)) + A!Times(t, <<>>) = A!Times(t, A!TextOf(<<>>))
    BY NothingFolded, NoTimes
  <2>6. <<>> \in Seq(Attrib) /\ <<>> \in Seq(MarkedToken)
    BY EmptySeq
  <2> HIDE DEF F
  <2> QED
    BY <2>3, <2>4, <2>5, <2>6, NothingPaired DEF BuiltIs
<1>2. ASSUME NEW s \in Seq(Pairs), Good(s), NEW p \in Pairs PROVE Good(Append(s, p))
  <2> SUFFICES ASSUME OneBrings(Append(s, p)) PROVE BuiltIs(F(Append(s, p)), Append(s, p))
    OBVIOUS
  <2>1. OneBrings(s)
    <3>1. \A i \in DOMAIN s : i \in DOMAIN Append(s, p) /\ Append(s, p)[i] = s[i]
      OBVIOUS
    <3> QED
      BY <3>1 DEF OneBrings
  <2>2. BuiltIs(F(s), s)
    BY <1>2, <2>1
  <2>3. Built!FoldLeft(A!Build, A!NothingBuilt, Append(s, p))
          = A!Build(Built!FoldLeft(A!Build, A!NothingBuilt, s), p)
    BY Built!FoldAppend
  <2>4. F(Append(s, p)) = A!Build(F(s), p)
    BY <2>3, AttributesAreFolded
  <2> HIDE DEF F
  <2> QED
    BY <2>2, <2>4, OneMoreIsBuilt
<1>3. S = Seq(Pairs)
  <2>1. S \in SUBSET Seq(Pairs) /\ <<>> \in S
    BY <1>1, EmptySeq
  <2>2. ASSUME NEW s \in S, NEW p \in Pairs PROVE Append(s, p) \in S
    <3>1. s \in Seq(Pairs) /\ Good(s)
      OBVIOUS
    <3>2. Good(Append(s, p))
      BY <1>2, <3>1
    <3> HIDE DEF Good
    <3> QED
      BY <3>1, <3>2
  <2> HIDE DEF S
  <2> QED
    BY <2>1, <2>2, Built!SeqByAppend
<1>4. Good(ps)
  BY <1>3
<1> QED
  BY <1>4

-----------------------------------------------------------------------------
(* What has come, in its place *)

Came(attribs) == [index : 1..Len(attribs), side : A!Sides, tokens : Seq(MarkedToken)]
Of(e, i, side) == e.index = i /\ e.side = side
Distinct(es) ==
    \A n, m \in DOMAIN es : es[n].index = es[m].index /\ es[n].side = es[m].side => n = m
InPlaceIs(kvs, attribs, es) ==
    /\ kvs \in Seq(Attrib) /\ Len(kvs) = Len(attribs)
    /\ \A i \in 1..Len(attribs), side \in A!Sides :
         /\ (\A n \in DOMAIN es : ~Of(es[n], i, side)) => kvs[i][side] = attribs[i][side]
         /\ \A n \in DOMAIN es : Of(es[n], i, side) => kvs[i][side] = A!Arr(es[n].tokens)

LEMMA OneInPlace ==
    ASSUME NEW kvs \in Seq(Attrib), NEW e, e.index \in 1..Len(kvs), e.side \in A!Sides,
           e.tokens \in Seq(MarkedToken), NEW r, r = A!AddKV(kvs, e)
    PROVE  /\ r \in Seq(Attrib) /\ Len(r) = Len(kvs)
           /\ \A i \in 1..Len(kvs), side \in A!Sides :
                r[i][side] = IF Of(e, i, side) THEN A!Arr(e.tokens) ELSE kvs[i][side]
<1> DEFINE len == Len(kvs)
           arr == A!Arr(e.tokens)
<1>0. arr \in KV
  BY DEF A!Arr, KV
<1> HIDE DEF arr
<1>1. len \in Nat /\ DOMAIN kvs = 1..len /\ \A i \in 1..len : kvs[i] \in Attrib
  OBVIOUS
<1>2. r = [i \in 1..len |-> IF i = e.index THEN [kvs[i] EXCEPT ![e.side] = arr] ELSE kvs[i]]
  BY <1>1 DEF A!AddKV, arr
<1>3. ASSUME NEW kv \in Attrib
      PROVE  /\ [kv EXCEPT ![e.side] = arr] \in Attrib
             /\ \A side \in A!Sides : [kv EXCEPT ![e.side] = arr][side] = IF e.side = side THEN arr ELSE kv[side]
  <2>1. DOMAIN kv = {"k", "v"} /\ kv = [k |-> kv.k, v |-> kv.v] /\ kv.k \in KV /\ kv.v \in KV
    BY DEF Attrib
  <2>2. CASE e.side = "k"
    <3>1. [kv EXCEPT ![e.side] = arr] = [k |-> arr, v |-> kv.v]
      <4>1. [kv EXCEPT ![e.side] = arr] = [kv EXCEPT !.k = arr]
        BY <2>2
      <4>2. [kv EXCEPT !.k = arr] = [k |-> arr, v |-> kv.v]
        BY <2>1
      <4> QED
        BY <4>1, <4>2
    <3> QED
      BY <1>0, <2>1, <2>2, <3>1 DEF Attrib, A!Sides
  <2>3. CASE e.side = "v"
    <3>1. [kv EXCEPT ![e.side] = arr] = [k |-> kv.k, v |-> arr]
      <4>1. [kv EXCEPT ![e.side] = arr] = [kv EXCEPT !.v = arr]
        BY <2>3
      <4>2. [kv EXCEPT !.v = arr] = [k |-> kv.k, v |-> arr]
        BY <2>1
      <4> QED
        BY <4>1, <4>2
    <3> QED
      BY <1>0, <2>1, <2>3, <3>1 DEF Attrib, A!Sides
  <2> QED
    BY <2>2, <2>3 DEF A!Sides
<1>4. \A i \in 1..len : r[i] = IF i = e.index THEN [kvs[i] EXCEPT ![e.side] = arr] ELSE kvs[i]
  BY <1>2
<1>5. \A i \in 1..len : r[i] \in Attrib
  BY <1>1, <1>3, <1>4
<1>6. r \in Seq(Attrib) /\ Len(r) = len
  <2>1. r = [i \in 1..len |-> r[i]]
    BY <1>2, <1>4
  <2>2. r \in [1..len -> Attrib]
    BY <1>5, <2>1
  <2> QED
    BY <1>1, <2>2
<1>7. \A i \in 1..len, side \in A!Sides : r[i][side] = IF Of(e, i, side) THEN arr ELSE kvs[i][side]
  <2> TAKE i \in 1..len, side \in A!Sides
  <2>1. kvs[i] \in Attrib
    BY <1>1
  <2>2. [kvs[i] EXCEPT ![e.side] = arr][side] = IF e.side = side THEN arr ELSE kvs[i][side]
    BY <1>3, <2>1
  <2>3. r[i] = IF i = e.index THEN [kvs[i] EXCEPT ![e.side] = arr] ELSE kvs[i]
    BY <1>4
  <2> QED
    BY <2>2, <2>3 DEF Of
<1> QED
  BY <1>6, <1>7 DEF arr

LEMMA AllInPlace ==
    ASSUME NEW attribs \in Seq(Attrib), NEW es \in Seq(Came(attribs)), Distinct(es)
    PROVE  InPlaceIs(A!FoldLeft(A!AddKV, attribs, es), attribs, es)
<1> DEFINE F(s) == A!FoldLeft(A!AddKV, attribs, s)
           Good(s) == Distinct(s) => InPlaceIs(F(s), attribs, s)
           V == Came(attribs)
           S == {s \in Seq(V) : Good(s)}
<1>1. Good(<<>>)
  <2>1. InPlace!FoldLeft(A!AddKV, attribs, <<>>) = attribs
    BY InPlace!FoldEmpty
  <2>2. F(<<>>) = attribs
    BY <2>1, AttributesAreFolded
  <2> HIDE DEF F
  <2> QED
    BY <2>2 DEF InPlaceIs
<1>2. ASSUME NEW s \in Seq(V), Good(s), NEW e \in V PROVE Good(Append(s, e))
  <2> DEFINE longer == Append(s, e)
             n == Len(s) + 1
  <2> SUFFICES ASSUME Distinct(longer) PROVE InPlaceIs(F(longer), attribs, longer)
    OBVIOUS
  <2>1. /\ DOMAIN longer = DOMAIN s \cup {n} /\ n \notin DOMAIN s
        /\ longer[n] = e /\ \A m \in DOMAIN s : longer[m] = s[m]
    OBVIOUS
  <2>2. InPlace!FoldLeft(A!AddKV, attribs, Append(s, e)) = A!AddKV(InPlace!FoldLeft(A!AddKV, attribs, s), e)
    BY InPlace!FoldAppend
  <2>3. F(longer) = A!AddKV(F(s), e)
    BY <2>2, AttributesAreFolded
  <2> HIDE DEF F, longer, n
  <2>4. Distinct(s)
    BY <2>1 DEF Distinct
  <2>5. InPlaceIs(F(s), attribs, s)
    BY <1>2, <2>4
  <2> PICK kvs : kvs = F(s)
    OBVIOUS
  <2>6. kvs \in Seq(Attrib) /\ Len(kvs) = Len(attribs)
    BY <2>5 DEF InPlaceIs
  <2>7. e.index \in 1..Len(kvs) /\ e.side \in A!Sides /\ e.tokens \in Seq(MarkedToken)
    BY <2>6 DEF Came
  <2>8. /\ F(longer) \in Seq(Attrib) /\ Len(F(longer)) = Len(kvs)
        /\ \A i \in 1..Len(kvs), side \in A!Sides :
                F(longer)[i][side] = IF Of(e, i, side) THEN A!Arr(e.tokens) ELSE kvs[i][side]
    BY <2>3, <2>6, <2>7, OneInPlace
  <2>9. ASSUME NEW i \in 1..Len(attribs), NEW side \in A!Sides, \A m \in DOMAIN longer : ~Of(longer[m], i, side)
        PROVE  F(longer)[i][side] = attribs[i][side]
    <3>1. ~Of(e, i, side) /\ \A m \in DOMAIN s : ~Of(s[m], i, side)
      BY <2>1, <2>9
    <3> QED
      BY <2>5, <2>6, <2>8, <3>1 DEF InPlaceIs
  <2>10. ASSUME NEW i \in 1..Len(attribs), NEW side \in A!Sides, NEW m \in DOMAIN longer, Of(longer[m], i, side)
         PROVE  F(longer)[i][side] = A!Arr(longer[m].tokens)
    <3>1. CASE m = n
      BY <2>1, <2>6, <2>8, <2>10, <3>1
    <3>2. CASE m # n
      <4>1. m \in DOMAIN s /\ Of(s[m], i, side) /\ longer[m] = s[m]
        BY <2>1, <2>10, <3>2
      <4>2. ~Of(e, i, side)
        BY <2>1, <2>10, <3>2 DEF Distinct, Of
      <4> QED
        BY <2>5, <2>6, <2>8, <4>1, <4>2 DEF InPlaceIs
    <3> QED
      BY <3>1, <3>2
  <2> QED
    BY <2>6, <2>8, <2>9, <2>10 DEF InPlaceIs
<1>3. S = Seq(V)
  <2>1. S \in SUBSET Seq(V) /\ <<>> \in S
    BY <1>1, EmptySeq
  <2>2. ASSUME NEW s \in S, NEW p \in V PROVE Append(s, p) \in S
    <3>1. s \in Seq(V) /\ Good(s)
      OBVIOUS
    <3>2. Good(Append(s, p))
      BY <1>2, <3>1
    <3> HIDE DEF Good
    <3> QED
      BY <3>1, <3>2
  <2> HIDE DEF S
  <2> QED
    BY <2>1, <2>2, InPlace!SeqByAppend
<1>4. Good(es)
  BY <1>3
<1> QED
  BY <1>4

-----------------------------------------------------------------------------
(* The attributes of a tag, expanded *)

\* One that has come was to be expanded, and is what a template may give.
CameFor(e, attribs, coming) ==
    /\ ~attribs[e.index][e.side].string /\ A!IsExpansion(e.tokens)
    /\ <<e.index, e.side>> \notin coming
\* None has come twice, and only one brings content with it.
OnceEach(es) ==
    /\ Distinct(es)
    /\ \A n, m \in DOMAIN es : A!Has("nl", es[n].tokens) /\ A!Has("nl", es[m].tokens) => n = m
\* Whatever is to be expanded has come or is on its way.
NoneForgotten ==
    /\ A!Expands(token)
    /\ \A i \in DOMAIN token.attribs, side \in A!Sides :
         token.attribs[i][side].string \/ <<i, side>> \in pending
           \/ \E n \in DOMAIN expandedKVs : Of(expandedKVs[n], i, side)
Changes(old, new) == [i \in DOMAIN old |-> [old |-> old[i], new |-> new[i]]]
GivenIs ==
    /\ pending = {}
    /\ IF expandedKVs = <<>>
       THEN given.attribs = token.attribs /\ (~A!Expands(token) \/ A!NeedsExpansion(token) = {})
       ELSE \E kvs : /\ InPlaceIs(kvs, token.attribs, expandedKVs)
                     /\ BuiltIs(given, Changes(token.attribs, kvs))
AttributesInv ==
    part = "attributes" =>
        /\ token.attribs \in Seq(Attrib)
        /\ expandedKVs \in Seq(Came(token.attribs)) /\ OnceEach(expandedKVs)
        /\ \A n \in DOMAIN expandedKVs : CameFor(expandedKVs[n], token.attribs, pending)
        /\ pending \subseteq A!NeedsExpansion(token)
        /\ pending # {} \/ expandedKVs # <<>> => NoneForgotten
        /\ given # <<>> => GivenIs

LEMMA AttributesStart == Init => AttributesInv
<1> SUFFICES ASSUME part = "attributes", A!Init PROVE AttributesInv
  BY DEF Init, AttributesInv
<1>1. pending = {} /\ expandedKVs = <<>> /\ given = <<>>
  BY DEF A!Init
<1>2. token.attribs \in Seq(Attrib)
  <2>1. PICK tag \in A!Tags, n \in 1..MaxAttributes : \E shapes \in [1..n -> A!Shapes] :
            token = [kind |-> tag.kind, inTemplate |-> tag.inTemplate, about |-> tag.about,
                     standalone |-> tag.standalone, attribs |-> [i \in 1..n |-> A!Attribute(shapes[i])]]
    BY DEF A!Init
  <2>2. PICK shapes \in [1..n -> A!Shapes] :
            token = [kind |-> tag.kind, inTemplate |-> tag.inTemplate, about |-> tag.about,
                     standalone |-> tag.standalone, attribs |-> [i \in 1..n |-> A!Attribute(shapes[i])]]
    BY <2>1
  <2>3. token.attribs = [i \in 1..n |-> A!Attribute(shapes[i])]
    BY <2>2
  <2>4. n \in Nat
    <3>1. MaxAttributes \in Nat
      BY ExpansionAssumption
    <3> QED
      BY <3>1
  <2>5. ASSUME NEW shape \in A!Shapes PROVE A!Attribute(shape) \in Attrib
    <3>1. <<<<"s", 0>>>> \in Seq(MarkedToken) /\ <<>> \in Seq(MarkedToken)
      <4>1. <<"s", 0>> \in MarkedToken
        BY DEF MarkedToken, A!Content
      <4> QED
        BY <4>1, EmptySeq
    <3>2. A!Str(<<<<"s", 0>>>>) \in KV /\ A!Str(<<>>) \in KV /\ A!Arr(<<>>) \in KV
      BY <3>1 DEF KV, A!Str, A!Arr
    <3> QED
      BY <3>2 DEF A!Attribute, Attrib
  <2>6. \A i \in 1..n : A!Attribute(shapes[i]) \in Attrib
    BY <2>5
  <2>7. [i \in 1..n |-> A!Attribute(shapes[i])] \in [1..n -> Attrib]
    BY <2>6
  <2> QED
    BY <2>3, <2>4, <2>7, FunctionIsSeq
<1> QED
  BY <1>1, <1>2, EmptySeq DEF AttributesInv, OnceEach, Distinct

LEMMA ExpansionIsBuilt ==
    ASSUME token.attribs \in Seq(Attrib), expandedKVs \in Seq(Came(token.attribs)), OnceEach(expandedKVs),
           \A n \in DOMAIN expandedKVs : CameFor(expandedKVs[n], token.attribs, pending),
           pending = {}, NoneForgotten
    PROVE  \E kvs, built :
             /\ InPlaceIs(kvs, token.attribs, expandedKVs) /\ BuiltIs(built, Changes(token.attribs, kvs))
             /\ built = A!buildExpandedAttrs(token.attribs, A!getNewKVs(token.attribs))
<1> PICK attribs, es : attribs = token.attribs /\ es = expandedKVs
  OBVIOUS
<1>1. PICK kvs : kvs = A!FoldLeft(A!AddKV, attribs, es)
  OBVIOUS
<1>2. InPlaceIs(kvs, attribs, es)
  BY <1>1, AllInPlace DEF OnceEach
<1>3. PICK ps : ps = Changes(attribs, kvs)
  OBVIOUS
<1>4. A!buildExpandedAttrs(attribs, kvs) = A!FoldLeft(A!Build, A!NothingBuilt, ps)
  BY <1>3 DEF A!buildExpandedAttrs, Changes
<1>5. /\ DOMAIN ps = 1..Len(attribs) /\ Len(kvs) = Len(attribs) /\ kvs \in Seq(Attrib)
      /\ \A i \in 1..Len(attribs) : ps[i] = [old |-> attribs[i], new |-> kvs[i]]
  BY <1>2, <1>3 DEF Changes, InPlaceIs
<1>6. ASSUME NEW i \in 1..Len(attribs), NEW side \in A!Sides
      PROVE  IF attribs[i][side].string THEN kvs[i][side] = attribs[i][side]
             ELSE \E n \in DOMAIN es : /\ Of(es[n], i, side) /\ kvs[i][side] = A!Arr(es[n].tokens)
                                      /\ A!IsExpansion(es[n].tokens)
  <2>1. CASE attribs[i][side].string
    <3>1. \A n \in DOMAIN es : ~Of(es[n], i, side)
      BY <2>1 DEF Of, CameFor
    <3> QED
      BY <1>2, <2>1, <3>1 DEF InPlaceIs
  <2>2. CASE ~attribs[i][side].string
    <3>1. PICK n \in DOMAIN es : Of(es[n], i, side)
      BY <2>2 DEF NoneForgotten
    <3>2. A!IsExpansion(es[n].tokens)
      BY <3>1 DEF CameFor
    <3> QED
      BY <1>2, <2>2, <3>1, <3>2 DEF InPlaceIs
  <2> QED
    BY <2>1, <2>2
<1>7. ASSUME NEW i \in 1..Len(attribs) PROVE ps[i] \in Pairs
  <2>1. attribs[i] \in Attrib /\ kvs[i] \in Attrib /\ "k" \in A!Sides /\ "v" \in A!Sides
    BY <1>5 DEF A!Sides
  <2>2. ASSUME NEW side \in A!Sides
        PROVE  /\ kvs[i][side].string = attribs[i][side].string
               /\ ~attribs[i][side].string => A!IsExpansion(kvs[i][side].tokens)
    <3>1. CASE attribs[i][side].string
      BY <1>6, <3>1
    <3>2. CASE ~attribs[i][side].string
      <4>1. PICK n \in DOMAIN es : kvs[i][side] = A!Arr(es[n].tokens) /\ A!IsExpansion(es[n].tokens)
        BY <1>6, <3>2
      <4>2. attribs[i][side].string \in BOOLEAN
        BY <2>1 DEF A!Sides, Attrib, KV
      <4>3. kvs[i][side].string = FALSE /\ kvs[i][side].tokens = es[n].tokens
        BY <4>1 DEF A!Arr
      <4>4. attribs[i][side].string = FALSE
        BY <3>2, <4>2
      <4> QED
        BY <4>1, <4>3, <4>4
    <3> QED
      BY <3>1, <3>2
  <2>3. PICK p : p = ps[i]
    OBVIOUS
  <2>4. p = [old |-> attribs[i], new |-> kvs[i]]
    BY <1>5, <2>3
  <2>5. p.old = attribs[i] /\ p.new = kvs[i] /\ DOMAIN p = {"old", "new"} /\ p \in [old : Attrib, new : Attrib]
    BY <2>1, <2>4
  <2>6. /\ kvs[i].k.string = attribs[i].k.string
        /\ ~attribs[i].k.string => A!IsExpansion(kvs[i].k.tokens)
        /\ kvs[i].v.string = attribs[i].v.string
        /\ ~attribs[i].v.string => A!IsExpansion(kvs[i].v.tokens)
    BY <2>1, <2>2
  <2>7. Pair(p)
    BY <2>1, <2>5, <2>6 DEF Pair
  <2> QED
    BY <2>3, <2>5, <2>7 DEF Pairs
<1>8. ps \in Seq(Pairs)
  <2>1. Len(attribs) \in Nat
    OBVIOUS
  <2>2. ps = [i \in 1..Len(attribs) |-> ps[i]]
    BY <1>3, <1>5 DEF Changes
  <2>3. ps \in [1..Len(attribs) -> Pairs]
    BY <1>7, <2>2
  <2> QED
    BY <2>1, <2>3, FunctionIsSeq
<1>9. OneBrings(ps)
  <2>1. ASSUME NEW i \in DOMAIN ps, BringsContent(ps[i])
        PROVE  \E n \in DOMAIN es : es[n].index = i /\ A!Has("nl", es[n].tokens)
    <3>0. "k" \in A!Sides /\ "v" \in A!Sides
      BY DEF A!Sides
    <3>1. i \in 1..Len(attribs) /\ ps[i] = [old |-> attribs[i], new |-> kvs[i]]
      BY <1>5
    <3> PICK p : p = ps[i]
      OBVIOUS
    <3>2. p.old = attribs[i] /\ p.new = kvs[i]
      BY <3>1
    <3>3. \A side \in A!Sides : ~attribs[i][side].string /\ A!Has("nl", kvs[i][side].tokens) =>
              \E n \in DOMAIN es : es[n].index = i /\ A!Has("nl", es[n].tokens)
      <4> SUFFICES ASSUME NEW side \in A!Sides, ~attribs[i][side].string, A!Has("nl", kvs[i][side].tokens)
                   PROVE  \E n \in DOMAIN es : es[n].index = i /\ A!Has("nl", es[n].tokens)
        OBVIOUS
      <4>1. PICK n \in DOMAIN es : Of(es[n], i, side) /\ kvs[i][side] = A!Arr(es[n].tokens)
        BY <1>6, <3>1
      <4>2. kvs[i][side].tokens = es[n].tokens
        BY <4>1 DEF A!Arr
      <4> QED
        BY <4>1, <4>2 DEF Of
    <3>4. BringsContent(p)
      BY <2>1
    <3> QED
      BY <3>0, <3>2, <3>3, <3>4 DEF BringsContent, NlInKey, NlInValue
  <2> QED
    BY <2>1 DEF OneBrings, OnceEach
<1>10. BuiltIs(A!FoldLeft(A!Build, A!NothingBuilt, ps), ps)
  BY <1>8, <1>9, AllIsBuilt
<1>11. A!getNewKVs(attribs) = kvs
  BY <1>1 DEF A!getNewKVs
<1> QED
  BY <1>2, <1>3, <1>4, <1>10, <1>11

LEMMA AttributesStepKeeps ==
    ASSUME AttributesInv, part = "attributes", part' = part, A!Next
    PROVE  AttributesInv'
<1>0. /\ token.attribs \in Seq(Attrib)
      /\ expandedKVs \in Seq(Came(token.attribs)) /\ OnceEach(expandedKVs)
      /\ \A n \in DOMAIN expandedKVs : CameFor(expandedKVs[n], token.attribs, pending)
      /\ pending \subseteq A!NeedsExpansion(token)
      /\ pending # {} \/ expandedKVs # <<>> => NoneForgotten
      /\ given # <<>> => GivenIs
  BY DEF AttributesInv
<1>1. CASE A!OnToken
  <2>1. /\ expandedKVs = <<>> /\ given = <<>> /\ A!Expands(token)
        /\ pending' = A!NeedsExpansion(token) /\ token' = token /\ expandedKVs' = <<>> /\ given' = <<>>
    BY <1>1 DEF A!OnToken
  <2>2. A!Expands(token') /\ A!NeedsExpansion(token') = A!NeedsExpansion(token)
    BY <2>1
  <2>3. NoneForgotten'
    <3>1. \A i \in DOMAIN token.attribs, side \in A!Sides :
              token.attribs[i][side].string \/ <<i, side>> \in A!NeedsExpansion(token)
      BY DEF A!NeedsExpansion
    <3> QED
      BY <2>1, <2>2, <3>1 DEF NoneForgotten
  <2> QED
    BY <1>0, <2>1, <2>2, <2>3, EmptySeq DEF AttributesInv, OnceEach, Distinct
<1>2. CASE A!PassToken
  <2>1. /\ pending = {} /\ expandedKVs = <<>> /\ given'.attribs = token.attribs
        /\ ~A!Expands(token) \/ A!NeedsExpansion(token) = {}
        /\ pending' = {} /\ token' = token /\ expandedKVs' = <<>>
    BY <1>2 DEF A!PassToken
  <2>2. GivenIs'
    BY <2>1 DEF GivenIs
  <2> QED
    BY <1>0, <2>1, <2>2, EmptySeq DEF AttributesInv, OnceEach, Distinct
<1>3. CASE A!Expanded
  <2>1. PICK at \in pending, tokens \in Expansions :
            /\ A!Possible(tokens) /\ pending' = pending \ {at}
            /\ expandedKVs' = Append(expandedKVs, [index |-> at[1], side |-> at[2], tokens |-> tokens])
            /\ token' = token /\ given' = given
    BY <1>3 DEF A!Expanded
  <2> DEFINE e == [index |-> at[1], side |-> at[2], tokens |-> tokens]
             len == Len(expandedKVs) + 1
  <2>2. /\ at \in A!NeedsExpansion(token) /\ at = <<at[1], at[2]>>
        /\ at[1] \in DOMAIN token.attribs /\ at[2] \in A!Sides /\ ~token.attribs[at[1]][at[2]].string
    BY <1>0 DEF A!NeedsExpansion
  <2>3. A!IsExpansion(tokens) /\ tokens \in Seq(MarkedToken)
    BY ExpansionAssumption DEF A!IsExpansion, MarkedToken
  <2>4. e.index = at[1] /\ e.side = at[2] /\ e.tokens = tokens /\ e \in Came(token.attribs)
    BY <1>0, <2>2, <2>3 DEF Came
  <2>5. expandedKVs' = Append(expandedKVs, e)
    BY <2>1
  <2> HIDE DEF e
  <2>6. /\ DOMAIN expandedKVs' = DOMAIN expandedKVs \cup {len} /\ len \notin DOMAIN expandedKVs
        /\ expandedKVs'[len] = e /\ \A n \in DOMAIN expandedKVs : expandedKVs'[n] = expandedKVs[n]
        /\ expandedKVs' \in Seq(Came(token.attribs)) /\ expandedKVs' # <<>>
    BY <1>0, <2>4, <2>5
  <2> HIDE DEF len
  <2>7. \A n \in DOMAIN expandedKVs : <<expandedKVs[n].index, expandedKVs[n].side>> # <<at[1], at[2]>>
    BY <1>0, <2>2 DEF CameFor
  <2>8. OnceEach(expandedKVs')
    <3>1. Distinct(expandedKVs')
      BY <1>0, <2>4, <2>6, <2>7 DEF OnceEach, Distinct
    <3>2. ASSUME NEW n \in DOMAIN expandedKVs', NEW m \in DOMAIN expandedKVs',
                 A!Has("nl", expandedKVs'[n].tokens), A!Has("nl", expandedKVs'[m].tokens)
          PROVE  n = m
      <4>1. A!Has("nl", e.tokens) => \A i \in DOMAIN expandedKVs : ~A!Has("nl", expandedKVs[i].tokens)
        BY <2>1, <2>4 DEF A!Possible
      <4>2. \A i, k \in DOMAIN expandedKVs :
                A!Has("nl", expandedKVs[i].tokens) /\ A!Has("nl", expandedKVs[k].tokens) => i = k
        BY <1>0 DEF OnceEach
      <4>3. CASE n = len /\ m # len
        BY <2>6, <3>2, <4>1, <4>3
      <4>4. CASE n # len /\ m = len
        BY <2>6, <3>2, <4>1, <4>4
      <4>5. CASE n # len /\ m # len
        BY <2>6, <3>2, <4>2, <4>5
      <4> QED
        BY <4>3, <4>4, <4>5
    <3> QED
      BY <3>1, <3>2 DEF OnceEach
  <2>9. \A n \in DOMAIN expandedKVs' : CameFor(expandedKVs'[n], token.attribs, pending')
    <3>1. CameFor(e, token.attribs, pending')
      BY <2>1, <2>2, <2>3, <2>4 DEF CameFor
    <3>2. \A n \in DOMAIN expandedKVs : CameFor(expandedKVs[n], token.attribs, pending')
      BY <1>0, <2>1 DEF CameFor
    <3> TAKE n \in DOMAIN expandedKVs'
    <3>3. CASE n = len
      BY <2>6, <3>1, <3>3
    <3>4. CASE n # len
      BY <2>6, <3>2, <3>4
    <3> QED
      BY <3>3, <3>4
  <2>10. NoneForgotten'
    <3>1. NoneForgotten
      BY <1>0
    <3>2. ASSUME NEW i \in DOMAIN token.attribs, NEW side \in A!Sides,
                 ~token.attribs[i][side].string, <<i, side>> \notin pending'
          PROVE  \E n \in DOMAIN expandedKVs' : Of(expandedKVs'[n], i, side)
      <4>1. CASE <<i, side>> \in pending
        <5>1. i = at[1] /\ side = at[2]
          BY <2>1, <2>2, <3>2, <4>1
        <5> QED
          BY <2>4, <2>6, <5>1 DEF Of
      <4>2. CASE <<i, side>> \notin pending
        <5>1. PICK n \in DOMAIN expandedKVs : Of(expandedKVs[n], i, side)
          BY <3>1, <3>2, <4>2 DEF NoneForgotten
        <5> QED
          BY <2>6, <5>1
      <4> QED
        BY <4>1, <4>2
    <3>3. A!Expands(token')
      BY <2>1, <3>1 DEF NoneForgotten
    <3> QED
      BY <2>1, <3>2, <3>3 DEF NoneForgotten
  <2>11. given' = <<>>
    BY <1>0, <2>1 DEF GivenIs
  <2>12. pending' \subseteq A!NeedsExpansion(token')
    BY <1>0, <2>1
  <2> QED
    BY <1>0, <2>1, <2>6, <2>8, <2>9, <2>10, <2>11, <2>12 DEF AttributesInv
<1>4. CASE A!AllExpanded
  <2>1. /\ pending = {} /\ expandedKVs # <<>>
        /\ given' = [A!buildExpandedAttrs(token.attribs, A!getNewKVs(token.attribs)) EXCEPT !.marked = @ /\ ~token.about]
        /\ token' = token /\ pending' = pending /\ expandedKVs' = expandedKVs
    BY <1>4 DEF A!AllExpanded
  <2>2. PICK kvs, built :
            /\ InPlaceIs(kvs, token.attribs, expandedKVs) /\ BuiltIs(built, Changes(token.attribs, kvs))
            /\ built = A!buildExpandedAttrs(token.attribs, A!getNewKVs(token.attribs))
    BY <1>0, <2>1, ExpansionIsBuilt
  <2>3. GivenIs'
    <3>1. BuiltIs(given', Changes(token.attribs, kvs))
      <4>1. given' = [built EXCEPT !.marked = @ /\ ~token.about]
        BY <2>1, <2>2
      <4>2. DOMAIN built = {"attribs", "meta", "content", "marked"}
        BY <2>2 DEF BuiltIs
      <4>3. /\ DOMAIN given' = DOMAIN built /\ given'.attribs = built.attribs
            /\ given'.content = built.content /\ given'.meta = built.meta
        BY <4>1, <4>2
      <4> QED
        BY <2>2, <4>3 DEF BuiltIs
    <3> QED
      BY <2>1, <2>2, <3>1 DEF GivenIs
  <2>4. NoneForgotten'
    BY <1>0, <2>1 DEF NoneForgotten
  <2> QED
    BY <1>0, <2>1, <2>3, <2>4 DEF AttributesInv, CameFor
<1> QED
  BY <1>1, <1>2, <1>3, <1>4 DEF A!Next

-----------------------------------------------------------------------------
(* The theorem: the source is as written *)

CameAt(es, i, side) == {n \in DOMAIN es : es[n].index = i /\ es[n].side = side}

LEMMA AllIsInPlace ==
    ASSUME NEW attribs \in Seq(Attrib), NEW es, NEW kvs, InPlaceIs(kvs, attribs, es)
    PROVE  [i \in DOMAIN attribs |-> [side \in A!Sides |->
                IF CameAt(es, i, side) = {} THEN attribs[i][side]
                ELSE A!Arr(es[CHOOSE n \in CameAt(es, i, side) : TRUE].tokens)]] = kvs
<1>1. kvs \in Seq(Attrib) /\ Len(kvs) = Len(attribs) /\ DOMAIN kvs = DOMAIN attribs
  BY DEF InPlaceIs
<1>2. ASSUME NEW i \in DOMAIN attribs, NEW side \in A!Sides
      PROVE  kvs[i][side] = IF CameAt(es, i, side) = {} THEN attribs[i][side]
                            ELSE A!Arr(es[CHOOSE n \in CameAt(es, i, side) : TRUE].tokens)
  <2>0. i \in 1..Len(attribs)
    OBVIOUS
  <2>1. CASE CameAt(es, i, side) = {}
    <3>1. \A n \in DOMAIN es : ~Of(es[n], i, side)
      BY <2>1 DEF Of, CameAt
    <3> QED
      BY <2>0, <2>1, <3>1 DEF InPlaceIs
  <2>2. CASE CameAt(es, i, side) # {}
    <3> PICK n : n = CHOOSE m \in CameAt(es, i, side) : TRUE
      OBVIOUS
    <3>1. n \in CameAt(es, i, side)
      BY <2>2
    <3>2. n \in DOMAIN es /\ Of(es[n], i, side)
      BY <3>1 DEF Of, CameAt
    <3>3. kvs[i][side] = A!Arr(es[n].tokens)
      BY <2>0, <3>2 DEF InPlaceIs
    <3> QED
      BY <2>2, <3>3
  <2> QED
    BY <2>1, <2>2
<1>3. ASSUME NEW i \in DOMAIN attribs
      PROVE  kvs[i] = [side \in A!Sides |-> IF CameAt(es, i, side) = {} THEN attribs[i][side]
                            ELSE A!Arr(es[CHOOSE n \in CameAt(es, i, side) : TRUE].tokens)]
  <2>1. kvs[i] \in Attrib
    BY <1>1
  <2>2. kvs[i] = [side \in {"k", "v"} |-> kvs[i][side]]
    BY <2>1 DEF Attrib
  <2>3. A!Sides = {"k", "v"}
    BY DEF A!Sides
  <2> QED
    BY <1>2, <2>2, <2>3
<1>4. kvs = [i \in DOMAIN attribs |-> kvs[i]]
  BY <1>1
<1> QED
  BY <1>3, <1>4

LEMMA NothingIsLost == AttributesInv /\ part = "attributes" => A!NothingLost
<1> SUFFICES ASSUME AttributesInv, part = "attributes", given # <<>>, A!Expands(token), A!NeedsExpansion(token) # {}
             PROVE  A!NothingLost
  BY DEF A!NothingLost
<1>1. token.attribs \in Seq(Attrib) /\ GivenIs
  BY DEF AttributesInv
<1>2. PICK kvs : InPlaceIs(kvs, token.attribs, expandedKVs) /\ BuiltIs(given, Changes(token.attribs, kvs))
  BY <1>1 DEF GivenIs
<1> DEFINE came(i, side) ==
               {n \in DOMAIN expandedKVs : expandedKVs[n].index = i /\ expandedKVs[n].side = side}
           inPlace == [i \in DOMAIN token.attribs |-> [side \in A!Sides |->
               IF came(i, side) = {} THEN token.attribs[i][side]
               ELSE A!Arr(expandedKVs[CHOOSE n \in came(i, side) : TRUE].tokens)]]
<1>3. inPlace = kvs
  <2>1. [i \in DOMAIN token.attribs |-> [side \in A!Sides |->
            IF CameAt(expandedKVs, i, side) = {} THEN token.attribs[i][side]
            ELSE A!Arr(expandedKVs[CHOOSE n \in CameAt(expandedKVs, i, side) : TRUE].tokens)]] = kvs
    BY <1>1, <1>2, AllIsInPlace
  <2> QED
    BY ONLY <2>1, Zenon DEF CameAt
<1>4. News(Changes(token.attribs, kvs)) = kvs
  <2>1. DOMAIN kvs = DOMAIN token.attribs /\ kvs \in Seq(Attrib)
    BY <1>1, <1>2 DEF InPlaceIs
  <2>2. kvs = [i \in DOMAIN token.attribs |-> kvs[i]]
    BY <2>1
  <2> QED
    BY <2>2 DEF News, Changes
<1>5. CASE IsReparsed(given.attribs)
  BY <1>5 DEF A!NothingLost, IsReparsed
<1>6. CASE \A t : A!Kind(t) \in A!Content =>
            A!Times(t, A!TextOf(given.attribs)) + A!Times(t, given.content) = A!Times(t, A!TextOf(kvs))
  <2>1. A!TextOf(given.attribs) \in Seq(MarkedToken) /\ given.content \in Seq(MarkedToken)
    BY <1>2, TextType DEF BuiltIs
  <2>2. \A t : A!Times(t, A!TextOf(given.attribs) \o given.content)
                 = A!Times(t, A!TextOf(given.attribs)) + A!Times(t, given.content)
    BY <2>1, TimesConcat
  <2>3. \A t \in A!Range(A!TextOf(inPlace)) : A!Kind(t) \in A!Content =>
            A!Times(t, A!TextOf(given.attribs) \o given.content) = A!Times(t, A!TextOf(inPlace))
    BY <1>3, <1>6, <2>2
  <2> HIDE DEF inPlace
  <2> QED
    BY <2>3 DEF A!NothingLost, inPlace
<1> QED
  BY <1>2, <1>4, <1>5, <1>6 DEF BuiltIs

LEMMA AttributesGoOn == AttributesInv /\ [Next]_vars => AttributesInv'
<1> SUFFICES ASSUME AttributesInv, [Next]_vars, part' = "attributes" PROVE AttributesInv'
  BY DEF AttributesInv
<1>1. part = "attributes" /\ (A!Next \/ UNCHANGED attributeVars)
  BY DEF Next, PipelinesStep, TransclusionStep, AttributesStep, vars
<1>2. CASE A!Next
  BY <1>1, <1>2, AttributesStepKeeps
<1>3. CASE UNCHANGED attributeVars
  <2>1. token' = token /\ pending' = pending /\ expandedKVs' = expandedKVs /\ given' = given
    BY <1>3 DEF attributeVars
  <2>2. NoneForgotten' = NoneForgotten /\ GivenIs' = GivenIs
    BY <2>1 DEF NoneForgotten, GivenIs
  <2> QED
    BY <1>1, <2>1, <2>2 DEF AttributesInv
<1> QED
  BY <1>1, <1>2, <1>3

\* In whatever order the keys and values of a tag are expanded, and whatever of a table
\* goes out after the tag, all of their text is there in the end; and the parameters
\* and the target of a template are those that are written there.
THEOREM SourceIsAsWritten == Spec => []AsWritten
<1>1. ReadInv /\ [Next]_vars => ReadInv'
  <2> SUFFICES ASSUME ReadInv, [Next]_vars, part' = "transclusion" PROVE ReadInv'
    BY DEF ReadInv
  <2>1. part = "transclusion" /\ (T!Next \/ UNCHANGED <<conf, h>>)
    BY DEF Next, PipelinesStep, TransclusionStep, AttributesStep, vars, transclusionVars
  <2>2. CASE T!Next
    BY <2>1, <2>2, ReadStepKeeps
  <2>3. CASE UNCHANGED <<conf, h>>
    <3>1. conf' = conf /\ h' = h
      BY <2>3
    <3> QED
      BY <2>1, <3>1 DEF ReadInv, ReadAtOnce, FramesInv, PathOK, TokenOK, Fetching, Allowed,
            T!NoEndlessInclusion, T!Depth
  <2> QED
    BY <2>1, <2>2, <2>3
<1>2. AttributesInv /\ [Next]_vars => AttributesInv'
  BY AttributesGoOn
<1>3. ReadInv /\ AttributesInv => AsWritten
  BY ParametersAsWritten, TargetsAsWritten, NothingIsLost DEF AsWritten
<1> QED
  BY <1>1, <1>2, <1>3, ReadStart, AttributesStart, PTL DEF Spec

-----------------------------------------------------------------------------
(* The accumulator of a transclusion: its start is the child, the rest the sibling *)

Piece ==
    {"start", "end", "text", "result", "error", "braces", "link", "cell", "meta", "warning",
     "bar", "fragment"} \X Nat
\* What of the sibling is kept, in one chunk.
Keeps(chunks, w) ==
    IF w = <<>> THEN chunks = <<>>
    ELSE \E chunk : chunks = <<chunk>> /\ chunk = [tokens |-> w, rank |-> 2]
\* It waits for the start, or not any more; `sibling` is "waits" or "done".
HasSibling(a, sibling) ==
    /\ DOMAIN a = {"waitForChild", "waitForSibling", "siblingChunks"}
    /\ a.waitForSibling = (sibling = "waits")
Buffers(a, sibling, w) == HasSibling(a, sibling) /\ a.waitForChild = TRUE /\ Keeps(a.siblingChunks, w)
Passes(a, sibling) == HasSibling(a, sibling) /\ a.waitForChild = FALSE /\ a.siblingChunks = <<>>
\* What a callback is given.
IsRet(ret, tokens, sibling) ==
    /\ ret.tokens = tokens /\ ret.rank = 2 /\ ret.async = (sibling = "waits")
    /\ T!Acc!Ranked(ret) = ret
\* One call of the parent.
CallsOnce(calls, tokens, sibling) ==
    \E call : calls = <<call>> /\ call.tokens = tokens /\ call.async = (sibling = "waits")

LEMMA RetIs ==
    ASSUME NEW tokens
    PROVE  IsRet(T!Ret(tokens, TRUE), tokens, "waits") /\ IsRet(T!Ret(tokens, FALSE), tokens, "done")
  BY DEF T!Ret, T!Acc!Ranked, IsRet

LEMMA ChildIsSet ==
    ASSUME NEW a, NEW sibling, HasSibling(a, sibling),
           NEW q, q = [a EXCEPT !.waitForChild = FALSE, !.siblingChunks = <<>>]
    PROVE  Passes(q, sibling)
  BY DEF HasSibling, Passes

LEMMA Concatenated ==
    ASSUME NEW w \in Seq(Piece), NEW tokens \in Seq(Piece), NEW ret, NEW sibling, IsRet(ret, tokens, sibling),
           NEW chunks, Keeps(chunks, w)
    PROVE  Keeps(T!Acc!concatTokens(chunks, ret), w \o tokens)
<1>1. ret.tokens = tokens /\ ret.rank = 2 /\ T!Acc!Ranked(ret) = ret
  BY DEF IsRet
<1>2. CASE tokens = <<>>
  <2>1. w \o tokens = w /\ T!Acc!concatTokens(chunks, ret) = chunks
    BY <1>1, <1>2 DEF T!Acc!concatTokens
  <2> QED
    BY <2>1
<1>3. CASE tokens # <<>> /\ w = <<>>
  <2>1. chunks = <<>> /\ w \o tokens = tokens
    BY <1>3 DEF Keeps
  <2> PICK chunk : chunk = [tokens |-> tokens, rank |-> 2]
    OBVIOUS
  <2>2. T!Acc!concatTokens(chunks, ret) = Append(<<>>, chunk)
    BY <1>1, <1>3, <2>1 DEF T!Acc!concatTokens
  <2>3. Append(<<>>, chunk) = <<chunk>>
    OBVIOUS
  <2>4. Keeps(<<chunk>>, tokens)
    BY <1>3 DEF Keeps
  <2> QED
    BY <2>1, <2>2, <2>3, <2>4
<1>4. CASE tokens # <<>> /\ w # <<>>
  <2>1. PICK chunk : chunks = <<chunk>> /\ chunk = [tokens |-> w, rank |-> 2]
    BY <1>4 DEF Keeps
  <2> PICK more : more = [chunk EXCEPT !.tokens = @ \o tokens]
    OBVIOUS
  <2>2. Len(chunks) = 1 /\ chunks[1] = chunk /\ chunks # <<>>
    BY <2>1
  <2>3. T!Acc!concatTokens(chunks, ret) = [chunks EXCEPT ![1] = more]
    <3>1. T!Acc!concatTokens(chunks, ret) = [chunks EXCEPT ![1].tokens = @ \o tokens]
      BY <1>1, <1>4, <2>1, <2>2 DEF T!Acc!concatTokens
    <3> QED
      BY <2>2, <3>1
  <2>4. [chunks EXCEPT ![1] = more] = <<more>>
    <3>1. \A x, y : [<<x>> EXCEPT ![1] = y] = <<y>>
      OBVIOUS
    <3> QED
      BY <2>1, <3>1
  <2>5. more = [tokens |-> w \o tokens, rank |-> 2]
    <3>1. DOMAIN chunk = {"tokens", "rank"} /\ chunk.tokens = w /\ chunk.rank = 2
      BY <2>1
    <3>2. DOMAIN more = {"tokens", "rank"} /\ more.tokens = w \o tokens /\ more.rank = 2
          /\ more = [k \in DOMAIN more |-> more[k]]
      BY <3>1
    <3> QED
      BY <3>2
  <2>6. w \o tokens # <<>>
    BY <1>4
  <2> QED
    BY <2>3, <2>4, <2>5, <2>6 DEF Keeps
<1> QED
  BY <1>2, <1>3, <1>4

\* What is kept is passed on at once.
LEMMA EmitsOnce ==
    ASSUME NEW w, NEW chunks, Keeps(chunks, w)
    PROVE  CallsOnce(T!Acc!emitTokens(chunks, FALSE), w, "done")
<1>1. CASE w = <<>>
  <2> PICK call : call = [tokens |-> <<>>, rank |-> 0, async |-> FALSE]
    OBVIOUS
  <2>1. T!Acc!emitTokens(chunks, FALSE) = <<call>>
    BY <1>1 DEF T!Acc!emitTokens, Keeps
  <2>2. call.tokens = <<>> /\ call.async = FALSE
    OBVIOUS
  <2> QED
    BY <1>1, <2>1, <2>2 DEF CallsOnce
<1>2. CASE w # <<>>
  <2>1. PICK chunk : chunks = <<chunk>> /\ chunk = [tokens |-> w, rank |-> 2]
    BY <1>2 DEF Keeps
  <2>2. chunks # <<>> /\ Len(chunks) = 1 /\ chunks[1] = chunk /\ chunk.tokens = w
    BY <2>1
  <2> PICK call : call = [tokens |-> chunk.tokens, rank |-> chunk.rank, async |-> FALSE]
    OBVIOUS
  <2>3. T!Acc!emitTokens(chunks, FALSE) = [i \in 1..1 |-> call]
    <3>1. T!Acc!emitTokens(chunks, FALSE) =
              [i \in 1..1 |-> [tokens |-> chunks[i].tokens, rank |-> chunks[i].rank,
                               async |-> IF i < 1 THEN TRUE ELSE FALSE]]
      BY <2>2, Zenon DEF T!Acc!emitTokens
    <3>2. \A i \in 1..1 : [tokens |-> chunks[i].tokens, rank |-> chunks[i].rank,
                           async |-> IF i < 1 THEN TRUE ELSE FALSE] = call
      <4>1. \A i \in 1..1 : i = 1 /\ ~(i < 1)
        OBVIOUS
      <4> QED
        BY <2>2, <4>1
    <3> QED
      BY <3>1, <3>2
  <2>4. [i \in 1..1 |-> call] = <<call>> /\ call.tokens = w /\ call.async = FALSE
    <3>1. \A x : [i \in 1..1 |-> x] = <<x>>
      OBVIOUS
    <3>2. call.tokens = w /\ call.async = FALSE
      BY <2>2
    <3> QED
      BY <3>1, <3>2
  <2> QED
    BY <2>3, <2>4 DEF CallsOnce
<1> QED
  BY <1>1, <1>2

\* While the start is not there, what follows it is kept.
LEMMA SiblingWaits ==
    ASSUME NEW w \in Seq(Piece), NEW tokens \in Seq(Piece), NEW ret, NEW sibling, IsRet(ret, tokens, sibling),
           NEW a, Buffers(a, "waits", w)
    PROVE  /\ T!Acc!receiveToksFromSibling(a, ret).calls = <<>>
           /\ Buffers(T!Acc!receiveToksFromSibling(a, ret).acc, sibling, w \o tokens)
<1>1. a.waitForChild = TRUE /\ a.waitForSibling = TRUE /\ Keeps(a.siblingChunks, w) /\ HasSibling(a, "waits")
  BY DEF Buffers, HasSibling
<1>2. ret.async = (sibling = "waits")
  BY DEF IsRet
<1> PICK chunks : chunks = T!Acc!concatTokens(a.siblingChunks, ret)
  OBVIOUS
<1> PICK q : q = [a EXCEPT !.waitForSibling = (sibling = "waits"), !.siblingChunks = chunks]
  OBVIOUS
<1>3. Keeps(chunks, w \o tokens)
  BY <1>1, Concatenated
<1>4. T!Acc!receiveToksFromSibling(a, ret) = [acc |-> q, calls |-> <<>>, direct |-> FALSE]
  BY <1>1, <1>2 DEF T!Acc!receiveToksFromSibling
<1>5. HasSibling(q, sibling) /\ q.waitForChild = TRUE /\ q.siblingChunks = chunks
  BY <1>1 DEF HasSibling
<1>6. Buffers(q, sibling, w \o tokens)
  BY <1>3, <1>5 DEF Buffers
<1> QED
  BY <1>4, <1>6

\* Then it passes through.
LEMMA SiblingPasses ==
    ASSUME NEW tokens \in Seq(Piece), NEW ret, NEW sibling, IsRet(ret, tokens, sibling), sibling \in {"waits", "done"},
           NEW a, Passes(a, "waits")
    PROVE  /\ CallsOnce(T!Acc!receiveToksFromSibling(a, ret).calls, tokens, sibling)
           /\ Passes(T!Acc!receiveToksFromSibling(a, ret).acc, sibling)
<1>1. a.waitForChild = FALSE /\ a.waitForSibling = TRUE /\ a.siblingChunks = <<>> /\ HasSibling(a, "waits")
  BY DEF Passes, HasSibling
<1>2. /\ ret.async = (sibling = "waits") /\ ret.tokens = tokens /\ T!Acc!Ranked(ret) = ret
  BY DEF IsRet
<1>3. CASE sibling = "waits"
  <2>1. T!Acc!receiveToksFromSibling(a, ret) = [acc |-> a, calls |-> <<ret>>, direct |-> TRUE]
    BY <1>1, <1>2, <1>3 DEF T!Acc!receiveToksFromSibling
  <2>2. CallsOnce(<<ret>>, tokens, sibling)
    BY <1>2 DEF CallsOnce
  <2> QED
    BY <1>3, <2>1, <2>2
<1>4. CASE sibling = "done"
  <2> PICK chunks : chunks = T!Acc!concatTokens(a.siblingChunks, ret)
    OBVIOUS
  <2>1. Keeps(chunks, tokens)
    <3>1. Keeps(a.siblingChunks, <<>>) /\ <<>> \in Seq(Piece) /\ <<>> \o tokens = tokens
      BY <1>1, EmptySeq DEF Keeps
    <3>2. Keeps(chunks, <<>> \o tokens)
      BY <3>1, Concatenated
    <3> QED
      BY <3>1, <3>2
  <2> PICK q : q = [a EXCEPT !.waitForSibling = FALSE, !.siblingChunks = <<>>]
    OBVIOUS
  <2>2. T!Acc!receiveToksFromSibling(a, ret) = [acc |-> q, calls |-> T!Acc!emitTokens(chunks, FALSE), direct |-> FALSE]
    BY <1>1, <1>2, <1>4 DEF T!Acc!receiveToksFromSibling
  <2>3. Passes(q, "done")
    BY <1>1 DEF Passes, HasSibling
  <2>4. CallsOnce(T!Acc!emitTokens(chunks, FALSE), tokens, "done")
    BY <2>1, EmitsOnce
  <2>5. T!Acc!receiveToksFromSibling(a, ret).acc = q /\
        T!Acc!receiveToksFromSibling(a, ret).calls = T!Acc!emitTokens(chunks, FALSE)
    BY <2>2
  <2> QED
    BY <1>4, <2>3, <2>4, <2>5, Zenon
<1> QED
  BY <1>3, <1>4

\* The start comes, and what was kept goes with it.
LEMMA ChildPasses ==
    ASSUME NEW w \in Seq(Piece), NEW tokens \in Seq(Piece), NEW ret, IsRet(ret, tokens, "done"),
           NEW sibling \in {"waits", "done"}, NEW a, Buffers(a, sibling, w)
    PROVE  /\ CallsOnce(T!Acc!receiveToksFromChild(a, ret).calls, tokens \o w, sibling)
           /\ Passes(T!Acc!receiveToksFromChild(a, ret).acc, sibling)
<1>1. /\ a.waitForChild = TRUE /\ a.waitForSibling = (sibling = "waits") /\ Keeps(a.siblingChunks, w)
      /\ HasSibling(a, sibling)
  BY DEF Buffers, HasSibling
<1>2. /\ ret.async = FALSE /\ ret.tokens = tokens /\ ret.rank = 2 /\ T!Acc!Ranked(ret) = ret
  BY DEF IsRet
<1> PICK q : q = [a EXCEPT !.waitForChild = FALSE, !.siblingChunks = <<>>]
  OBVIOUS
<1>3. Passes(q, sibling)
  BY <1>1, ChildIsSet
<1>4. \A x : <<x>> \o <<>> = <<x>>
  OBVIOUS
<1>5. CASE w = <<>>
  <2>1. a.siblingChunks = <<>> /\ tokens \o w = tokens
    BY <1>1, <1>5 DEF Keeps
  <2>2. ~T!Acc!JoinsChild(a, ret)
    BY <2>1 DEF T!Acc!JoinsChild
  <2> PICK first : first = [tokens |-> tokens, rank |-> ret.rank, async |-> sibling = "waits"]
    OBVIOUS
  <2>3. T!Acc!receiveToksFromChild(a, ret) = [acc |-> q, calls |-> <<first>> \o <<>>, direct |-> FALSE]
    BY <1>1, <1>2, <2>1, <2>2 DEF T!Acc!receiveToksFromChild
  <2>4. CallsOnce(<<first>>, tokens \o w, sibling)
    BY <2>1 DEF CallsOnce
  <2> QED
    BY <1>3, <1>4, <2>3, <2>4
<1>6. CASE w # <<>>
  <2>1. PICK chunk : a.siblingChunks = <<chunk>> /\ chunk = [tokens |-> w, rank |-> 2]
    BY <1>1, <1>6 DEF Keeps
  <2>2. /\ a.siblingChunks # <<>> /\ a.siblingChunks[1] = chunk /\ Tail(a.siblingChunks) = <<>>
        /\ chunk.tokens = w /\ chunk.rank = 2
    BY <2>1
  <2>3. T!Acc!JoinsChild(a, ret)
    BY <1>2, <2>2 DEF T!Acc!JoinsChild
  <2> PICK first : first = [tokens |-> tokens \o w, rank |-> ret.rank, async |-> sibling = "waits"]
    OBVIOUS
  <2>4. T!Acc!receiveToksFromChild(a, ret) = [acc |-> q, calls |-> <<first>> \o <<>>, direct |-> FALSE]
    BY <1>1, <1>2, <2>2, <2>3 DEF T!Acc!receiveToksFromChild
  <2>5. CallsOnce(<<first>>, tokens \o w, sibling)
    BY DEF CallsOnce
  <2> QED
    BY <1>3, <1>4, <2>4, <2>5
<1> QED
  BY <1>5, <1>6

\* The start is not there yet.
LEMMA ChildWaits ==
    ASSUME NEW ret, IsRet(ret, <<>>, "waits"), NEW a, a = T!Acc!NewAccumulator
    PROVE  /\ Buffers(a, "waits", <<>>) /\ CallsOnce(T!Acc!receiveToksFromChild(a, ret).calls, <<>>, "waits")
           /\ T!Acc!receiveToksFromChild(a, ret).acc = a
<1>1. Buffers(a, "waits", <<>>) /\ a.siblingChunks = <<>>
  BY DEF T!Acc!NewAccumulator, Buffers, HasSibling, Keeps
<1>2. ret.tokens = <<>> /\ ret.async = TRUE /\ T!Acc!Ranked(ret) = ret
  BY DEF IsRet
<1>3. ~T!Acc!JoinsChild(a, ret)
  BY <1>1 DEF T!Acc!JoinsChild
<1> PICK first : first = [tokens |-> <<>>, rank |-> ret.rank, async |-> TRUE]
  OBVIOUS
<1>4. T!Acc!receiveToksFromChild(a, ret) = [acc |-> a, calls |-> <<first>>, direct |-> FALSE]
  BY <1>2, <1>3 DEF T!Acc!receiveToksFromChild
<1>5. CallsOnce(<<first>>, <<>>, "waits")
  <2>1. first.tokens = <<>> /\ first.async = TRUE
    OBVIOUS
  <2> QED
    BY <2>1 DEF CallsOnce
<1> QED
  BY <1>1, <1>4, <1>5

-----------------------------------------------------------------------------
(* What has been delivered of the expansion *)

\* The final calls there have been.
Finals(sibling) == IF sibling = "done" THEN 1 ELSE 0
Same(s, r) ==
    /\ DOMAIN r = Fields /\ r.token = s.token /\ r.call = s.call /\ r.id = s.id /\ r.pending = s.pending
    /\ r.fatal = s.fatal
\* The same, and given to whom s was.
SameWay(s, r) == Same(s, r) /\ (r.acc = <<>> <=> s.acc = <<>>)
\* r is s with some tokens given to the handler's callback.
Gives(s, r, tokens, sibling) ==
    Same(s, r) /\ r.out = s.out \o tokens /\ r.final = s.final + Finals(sibling)

\* In a transclusion with configuration c, the stream w has been given to the sibling,
\* which is done or not: it went out at once, waits for the start, or followed it.
Delivered(c, s, w, sibling) ==
    \/ /\ s.acc = <<>> /\ "params" \notin s.pending
       /\ s.out = w /\ s.final = Finals(sibling)
    \/ /\ "params" \in s.pending /\ \E a : s.acc = <<a>> /\ Buffers(a, sibling, w)
       /\ s.out = <<>> /\ s.final = 0
    \/ /\ "params" \notin s.pending /\ \E a : s.acc = <<a>> /\ Passes(a, sibling)
       /\ s.out \in Seq(Piece) /\ (c.fetchTemplates => s.out = <<T!Start(s.id)>> \o w)
       /\ s.final = Finals(sibling)

LEMMA FlattenIs ==
    /\ T!FlattenSeq(<<>>) = <<>>
    /\ \A x : T!FlattenSeq(<<x>>) = x
<1>1. T!FlattenSeq(<<>>) = <<>>
  BY DEF T!FlattenSeq
<1>2. ASSUME NEW x PROVE T!FlattenSeq(<<x>>) = x
  <2>1. [i \in 1..1 |-> x] = [i \in 1..1 |-> IF i = 1 THEN <<x>>[i] ELSE [k \in 1..1 |-> x][i - 1] \o <<x>>[i]]
    OBVIOUS
  <2> QED
    BY <2>1 DEF T!FlattenSeq
<1> QED
  BY <1>1, <1>2

LEMMA NoCall ==
    ASSUME NEW s, DOMAIN s = Fields, s.out \in Seq(Piece), s.final \in Nat, NEW r, r.calls = <<>>
    PROVE  Same(s, T!Calls(s, r)) /\ T!Calls(s, r).acc = <<r.acc>> /\ T!Calls(s, r).out = s.out
           /\ T!Calls(s, r).final = s.final
<1>1. [i \in 1..Len(r.calls) |-> r.calls[i].tokens] = <<>>
  OBVIOUS
<1>2. T!Cardinality({i \in 1..Len(r.calls) : ~r.calls[i].async}) = 0
  <2>1. {i \in 1..Len(r.calls) : ~r.calls[i].async} = {}
    OBVIOUS
  <2> QED
    BY <2>1, SameSize, FS_EmptySet
<1>3. T!Calls(s, r) = [s EXCEPT !.acc = <<r.acc>>, !.out = @ \o <<>>, !.final = @ + 0]
  <2>1. T!FlattenSeq([i \in 1..Len(r.calls) |-> r.calls[i].tokens]) = <<>>
    BY <1>1, FlattenIs
  <2> QED
    BY <1>2, <2>1, Zenon DEF T!Calls
<1> QED
  BY <1>3 DEF Same, Fields

LEMMA OneCall ==
    ASSUME NEW s, DOMAIN s = Fields, NEW r, NEW tokens, NEW sibling \in {"waits", "done"},
           CallsOnce(r.calls, tokens, sibling)
    PROVE  Gives(s, T!Calls(s, r), tokens, sibling) /\ T!Calls(s, r).acc = <<r.acc>>
<1>1. PICK call : r.calls = <<call>> /\ call.tokens = tokens /\ call.async = (sibling = "waits")
  BY DEF CallsOnce
<1>2. Len(r.calls) = 1 /\ r.calls[1] = call
  BY <1>1
<1>3. [i \in 1..Len(r.calls) |-> r.calls[i].tokens] = <<tokens>>
  <2>1. [i \in 1..Len(r.calls) |-> r.calls[i].tokens] = [i \in 1..1 |-> tokens]
    BY <1>1, <1>2
  <2>2. \A x : [i \in 1..1 |-> x] = <<x>>
    OBVIOUS
  <2> QED
    BY <2>1, <2>2
<1>4. T!Cardinality({i \in 1..Len(r.calls) : ~r.calls[i].async}) = Finals(sibling)
  <2>1. CASE sibling = "waits"
    <3>1. \A i \in 1..Len(r.calls) : r.calls[i].async
      <4>1. call.async
        BY <1>1, <2>1
      <4>2. \A i \in 1..1 : i = 1
        OBVIOUS
      <4> QED
        BY <1>2, <4>1, <4>2
    <3>2. {i \in 1..Len(r.calls) : ~r.calls[i].async} = {}
      BY <3>1, Zenon
    <3> QED
      BY <2>1, <3>2, SameSize, FS_EmptySet DEF Finals
  <2>2. CASE sibling = "done"
    <3>1. 1..Len(r.calls) = {1} /\ ~r.calls[1].async
      <4>1. ~call.async
        BY <1>1, <2>2
      <4>2. 1..1 = {1}
        OBVIOUS
      <4> QED
        BY <1>2, <4>1, <4>2
    <3>2. {i \in 1..Len(r.calls) : ~r.calls[i].async} = {1}
      BY <3>1, Zenon
    <3> QED
      BY <2>2, <3>2, SameSize, FS_Singleton DEF Finals
  <2> QED
    BY <2>1, <2>2
<1>5. T!Calls(s, r) = [s EXCEPT !.acc = <<r.acc>>, !.out = @ \o tokens, !.final = @ + Finals(sibling)]
  <2>1. T!FlattenSeq([i \in 1..Len(r.calls) |-> r.calls[i].tokens]) = tokens
    BY <1>3, FlattenIs
  <2> QED
    BY <1>4, <2>1, Zenon DEF T!Calls
<1> QED
  BY <1>5 DEF Gives, Same, Fields

LEMMA CbGives ==
    ASSUME NEW s, DOMAIN s = Fields, NEW tokens
    PROVE  /\ Gives(s, T!Cb(s, tokens, TRUE), tokens, "waits") /\ T!Cb(s, tokens, TRUE).acc = s.acc
           /\ Gives(s, T!Cb(s, tokens, FALSE), tokens, "done") /\ T!Cb(s, tokens, FALSE).acc = s.acc
  BY DEF T!Cb, Gives, Same, Fields, Finals

LEMMA SiblingDelivers ==
    ASSUME NEW c, NEW s, DOMAIN s = Fields, NEW w \in Seq(Piece), Delivered(c, s, w, "waits"),
           NEW tokens \in Seq(Piece)
    PROVE  /\ Delivered(c, T!Sibling(s, tokens, TRUE), w \o tokens, "waits")
           /\ SameWay(s, T!Sibling(s, tokens, TRUE))
           /\ Delivered(c, T!Sibling(s, tokens, FALSE), w \o tokens, "done")
           /\ SameWay(s, T!Sibling(s, tokens, FALSE))
<1>1. CASE s.acc = <<>> /\ "params" \notin s.pending /\ s.out = w /\ s.final = 0
  <2>1. T!Sibling(s, tokens, TRUE) = T!Cb(s, tokens, TRUE) /\ T!Sibling(s, tokens, FALSE) = T!Cb(s, tokens, FALSE)
    BY <1>1 DEF T!Sibling
  <2>2. ASSUME NEW r, NEW sibling, Gives(s, r, tokens, sibling), r.acc = s.acc
        PROVE  Delivered(c, r, w \o tokens, sibling) /\ SameWay(s, r)
    BY <1>1, <2>2 DEF Delivered, Gives, Same, SameWay, Finals
  <2> QED
    BY <2>1, <2>2, CbGives
<1>2. ASSUME NEW a, s.acc = <<a>>, NEW ret, NEW sibling \in {"waits", "done"}, IsRet(ret, tokens, sibling),
             NEW r, r = T!Calls(s, T!Acc!receiveToksFromSibling(a, ret))
      PROVE  Delivered(c, r, w \o tokens, sibling) /\ SameWay(s, r)
  <2> PICK x : x = T!Acc!receiveToksFromSibling(a, ret)
    OBVIOUS
  <2>1. CASE "params" \in s.pending /\ Buffers(a, "waits", w) /\ s.out = <<>> /\ s.final = 0
    <3>1. x.calls = <<>> /\ Buffers(x.acc, sibling, w \o tokens)
      BY <1>2, <2>1, SiblingWaits
    <3>2. s.out \in Seq(Piece) /\ s.final \in Nat
      BY <2>1, EmptySeq
    <3>3. Same(s, r) /\ r.acc = <<x.acc>> /\ r.out = s.out /\ r.final = s.final
      BY <1>2, <3>1, <3>2, NoCall
    <3>4. "params" \in r.pending /\ r.out = <<>> /\ r.final = 0
      BY <2>1, <3>3 DEF Same
    <3> QED
      BY <1>2, <3>1, <3>3, <3>4 DEF Delivered, SameWay
  <2>2. CASE /\ "params" \notin s.pending /\ Passes(a, "waits") /\ s.out \in Seq(Piece)
             /\ c.fetchTemplates => s.out = <<T!Start(s.id)>> \o w
             /\ s.final = 0
    <3>1. CallsOnce(x.calls, tokens, sibling) /\ Passes(x.acc, sibling)
      BY <1>2, <2>2, SiblingPasses
    <3>2. Gives(s, r, tokens, sibling) /\ r.acc = <<x.acc>>
      BY <1>2, <3>1, OneCall
    <3>3. r.out = s.out \o tokens /\ r.final = Finals(sibling) /\ "params" \notin r.pending /\ r.id = s.id
          /\ r.out \in Seq(Piece)
      BY <2>2, <3>2 DEF Gives, Same, Finals
    <3>4. c.fetchTemplates => r.out = <<T!Start(r.id)>> \o (w \o tokens)
      <4>1. \A x1 : (<<x1>> \o w) \o tokens = <<x1>> \o (w \o tokens)
        OBVIOUS
      <4> QED
        BY <2>2, <3>3, <4>1
    <3>5. Delivered(c, r, w \o tokens, sibling)
      BY <3>1, <3>2, <3>3, <3>4 DEF Delivered
    <3>6. SameWay(s, r)
      BY <1>2, <3>2 DEF Gives, SameWay
    <3> QED
      BY <3>5, <3>6
  <2>3. s.acc # <<>> /\ \A b : s.acc = <<b>> => a = b
    BY <1>2
  <2> QED
    BY <2>1, <2>2, <2>3 DEF Delivered, Finals
<1>3. ASSUME NEW a, s.acc = <<a>> 
      PROVE  /\ T!Sibling(s, tokens, TRUE) = T!Calls(s, T!Acc!receiveToksFromSibling(a, T!Ret(tokens, TRUE)))
             /\ T!Sibling(s, tokens, FALSE) = T!Calls(s, T!Acc!receiveToksFromSibling(a, T!Ret(tokens, FALSE)))
  <2>1. s.acc # <<>> /\ s.acc[1] = a
    BY <1>3
  <2> QED
    BY <2>1, Zenon DEF T!Sibling
<1>4. CASE \E a : s.acc = <<a>>
  BY <1>2, <1>3, <1>4, RetIs
<1> QED
  BY <1>1, <1>4 DEF Delivered, Finals

\* The start is there.
LEMMA ChildDelivers ==
    ASSUME NEW c, NEW s, DOMAIN s = Fields, NEW w \in Seq(Piece), NEW sibling \in {"waits", "done"},
           NEW a, s.acc = <<a>>, Buffers(a, sibling, w), s.out = <<>>, s.final = 0,
           "params" \notin s.pending, s.id \in Nat
    PROVE  /\ Delivered(c, T!Child(s, <<T!Start(s.id)>>, FALSE), w, sibling)
           /\ SameWay(s, T!Child(s, <<T!Start(s.id)>>, FALSE))
<1> DEFINE start == <<T!Start(s.id)>>
<1>0. start \in Seq(Piece)
  BY DEF T!Start, Piece
<1> HIDE DEF start
<1> PICK ret : ret = T!Ret(start, FALSE)
  OBVIOUS
<1>1. IsRet(ret, start, "done")
  BY RetIs
<1> PICK x : x = T!Acc!receiveToksFromChild(a, ret)
  OBVIOUS
<1> PICK r : r = T!Child(s, start, FALSE)
  OBVIOUS
<1>2. r = T!Calls(s, x)
  <2>1. s.acc[1] = a
    OBVIOUS
  <2> QED
    BY <2>1 DEF T!Child
<1>3. CallsOnce(x.calls, start \o w, sibling) /\ Passes(x.acc, sibling)
  BY <1>0, <1>1, ChildPasses
<1>4. Gives(s, r, start \o w, sibling) /\ r.acc = <<x.acc>>
  BY <1>2, <1>3, OneCall
<1>5. start \o w \in Seq(Piece) /\ <<>> \o (start \o w) = start \o w
  BY <1>0
<1>6. r.out = start \o w /\ r.out \in Seq(Piece)
  BY <1>4, <1>5 DEF Gives
<1>7. r.final = Finals(sibling) /\ r.id = s.id /\ "params" \notin r.pending
  <2>1. Finals(sibling) \in Nat
    BY DEF Finals
  <2>2. r.id = s.id /\ r.pending = s.pending
    BY <1>4 DEF Gives, Same
  <2>3. r.final = s.final + Finals(sibling)
    BY <1>4 DEF Gives
  <2>4. r.final = Finals(sibling)
    <3>1. \A n \in Nat : 0 + n = n
      OBVIOUS
    <3>2. r.final = 0 + Finals(sibling)
      BY <2>3
    <3> QED
      BY ONLY <2>1, <3>1, <3>2, Zenon
  <2> QED
    BY <2>2, <2>4
<1>8. Delivered(c, r, w, sibling)
  BY <1>3, <1>4, <1>6, <1>7 DEF Delivered, start
<1>9. SameWay(s, r)
  <2>1. \A y : <<y>> # <<>>
    OBVIOUS
  <2>2. Same(s, r) /\ r.acc # <<>> /\ s.acc # <<>>
    BY <1>4, <2>1 DEF Gives
  <2> QED
    BY <2>2 DEF SameWay
<1> QED
  BY <1>8, <1>9 DEF start

-----------------------------------------------------------------------------
(* The phases of a transclusion *)

\* What stands between the markers.
Words == {"text", "result", "error", "braces", "bar"} \X {0}
\* What says that a native expansion was given up.
GivenUp(c, out) == ~c.usePHPPreProcessor /\ {T!Text("link"), T!Text("braces")} \cap T!Range(out) # {}
Unwrapped == {T!Text("meta"), T!Text("braces"), T!Text("error")}
RightAnswer(c, id, out) ==
    \/ GivenUp(c, out)
    \/ Head(out) \in Unwrapped
    \/ ~c.toplevel /\ Head(out) = T!Text("cell")
    \/ out = <<T!Fragment>>
    \/ \E body \in Seq(Words) : out = <<T!Start(id)>> \o body \o <<T!End(id)>>
\* The whole of what the sibling was given.
Ending(c, s, w) ==
    c.expandTemplates /\ c.fetchTemplates =>
        IF s.acc = <<>> THEN RightAnswer(c, s.id, w)
        ELSE GivenUp(c, w) \/ \E body \in Seq(Words) : w = body \o <<T!End(s.id)>>

\* Nothing has been given yet.
Silent(s) ==
    DOMAIN s = Fields /\ s.id \in Nat /\ s.acc = <<>> /\ s.out = <<>> /\ s.final = 0 /\ s.fatal = FALSE
Begun(s) == Silent(s) /\ s.call = FALSE /\ s.pending = {}
Asked(s) == Silent(s) /\ s.call = TRUE /\ s.pending = {}
NameAsked(s) == Silent(s) /\ s.call = FALSE /\ s.pending = {"name"}
Stopped(s) == DOMAIN s = Fields /\ s.call = FALSE /\ s.pending = {} /\ s.final = 0

\* The stream w has been given, and `phase` may be under way, besides the start.
Sent(c, s, w, sibling, phase) ==
    /\ DOMAIN s = Fields /\ s.id \in Nat /\ s.call = FALSE /\ s.fatal = FALSE
    /\ s.pending \ {"params"} = phase
    /\ w \in Seq(Piece) /\ Delivered(c, s, w, sibling)
Phases == {"explode", "attributes", "source", "text", "function"}
\* What each phase relies on.
PhaseOK(c, s, phase, w) ==
    /\ IF phase = "text" THEN w \in Seq(Words) ELSE w = <<>>
    /\ s.acc # <<>> => c.expandTemplates
    /\ phase = "explode" /\ s.acc # <<>> => ~c.usePHPPreProcessor
    /\ phase = "attributes" => ~c.usePHPPreProcessor
    /\ phase # "explode" /\ c.expandTemplates => s.acc # <<>>
UnderWay(c, s) == \E w : \E phase \in Phases : Sent(c, s, w, "waits", {phase}) /\ PhaseOK(c, s, phase, w)
Done(c, s) == \E w : Sent(c, s, w, "done", {}) /\ Ending(c, s, w)
TemplateState(c, s) ==
    Asked(s) \/ NameAsked(s) \/ Stopped(s) \/ UnderWay(c, s) \/ Done(c, s)

LEMMA BegunSent ==
    ASSUME NEW c, NEW s, Begun(s)
    PROVE  Sent(c, s, <<>>, "waits", {})
  BY EmptySeq DEF Begun, Silent, Sent, Delivered, Finals

LEMMA SiblingSent ==
    ASSUME NEW c, NEW s, NEW w, NEW phase, Sent(c, s, w, "waits", phase), NEW tokens \in Seq(Piece)
    PROVE  /\ Sent(c, T!Sibling(s, tokens, TRUE), w \o tokens, "waits", phase)
           /\ Sent(c, T!Sibling(s, tokens, FALSE), w \o tokens, "done", phase)
           /\ SameWay(s, T!Sibling(s, tokens, TRUE)) /\ SameWay(s, T!Sibling(s, tokens, FALSE))
<1>1. DOMAIN s = Fields /\ w \in Seq(Piece) /\ Delivered(c, s, w, "waits") /\ w \o tokens \in Seq(Piece)
  BY DEF Sent
<1>2. /\ Delivered(c, T!Sibling(s, tokens, TRUE), w \o tokens, "waits")
      /\ SameWay(s, T!Sibling(s, tokens, TRUE))
      /\ Delivered(c, T!Sibling(s, tokens, FALSE), w \o tokens, "done")
      /\ SameWay(s, T!Sibling(s, tokens, FALSE))
  BY <1>1, SiblingDelivers
<1>3. ASSUME NEW r, NEW sibling, Delivered(c, r, w \o tokens, sibling), SameWay(s, r)
      PROVE  Sent(c, r, w \o tokens, sibling, phase)
  BY <1>1, <1>3 DEF Sent, SameWay, Same
<1> QED
  BY <1>2, <1>3

LEMMA WaitSent ==
    ASSUME NEW c, NEW s, NEW w, NEW sibling, Sent(c, s, w, sibling, {}), NEW phase, phase # "params"
    PROVE  /\ Sent(c, T!Waits(s, phase), w, sibling, {phase}) /\ T!Waits(s, phase).acc = s.acc
           /\ T!Waits(s, phase).id = s.id /\ T!Waits(s, phase).token = s.token
<1> PICK r : r = T!Waits(s, phase)
  OBVIOUS
<1>1. DOMAIN s = Fields
  BY DEF Sent
<1>2. /\ DOMAIN r = Fields /\ r.id = s.id /\ r.call = s.call /\ r.fatal = s.fatal /\ r.pending = s.pending \cup {phase}
      /\ r.acc = s.acc /\ r.out = s.out /\ r.final = s.final /\ r.token = s.token
  BY <1>1 DEF T!Waits, Fields
<1>3. "params" \in r.pending <=> "params" \in s.pending
  BY <1>2
<1>4. Delivered(c, r, w, sibling)
  BY <1>2, <1>3 DEF Delivered, Sent
<1> QED
  BY <1>2, <1>4 DEF Sent

LEMMA ComesSent ==
    ASSUME NEW c, NEW s, NEW w, NEW sibling, NEW phase, Sent(c, s, w, sibling, {phase}), phase # "params"
    PROVE  /\ Sent(c, T!Comes(s, phase), w, sibling, {}) /\ T!Comes(s, phase).acc = s.acc
           /\ T!Comes(s, phase).id = s.id /\ T!Comes(s, phase).token = s.token
<1> PICK r : r = T!Comes(s, phase)
  OBVIOUS
<1>1. DOMAIN s = Fields
  BY DEF Sent
<1>2. /\ DOMAIN r = Fields /\ r.id = s.id /\ r.call = s.call /\ r.fatal = s.fatal /\ r.pending = s.pending \ {phase}
      /\ r.acc = s.acc /\ r.out = s.out /\ r.final = s.final /\ r.token = s.token
  BY <1>1 DEF T!Comes, Fields
<1>3. "params" \in r.pending <=> "params" \in s.pending
  BY <1>2
<1>4. Delivered(c, r, w, sibling)
  BY <1>2, <1>3 DEF Delivered, Sent
<1> QED
  BY <1>2, <1>4 DEF Sent

LEMMA LeftSent ==
    ASSUME NEW c, NEW s, NEW w, NEW sibling, NEW phase, Sent(c, s, w, sibling, phase), NEW n,
           NEW r, r = [s EXCEPT !.left = n]
    PROVE  Sent(c, r, w, sibling, phase) /\ r.acc = s.acc /\ r.id = s.id
<1>1. DOMAIN s = Fields
  BY DEF Sent
<1>2. /\ DOMAIN r = Fields /\ r.id = s.id /\ r.call = s.call /\ r.fatal = s.fatal /\ r.pending = s.pending
      /\ r.acc = s.acc /\ r.out = s.out /\ r.final = s.final
  BY <1>1 DEF Fields
<1>3. Delivered(c, r, w, sibling)
  BY <1>2 DEF Delivered, Sent
<1> QED
  BY <1>2, <1>3 DEF Sent

-----------------------------------------------------------------------------
(* Each phase begins and ends *)

LEMMA PiecesAre ==
    /\ \A x \in {"text", "result", "error", "braces", "link", "cell", "meta", "warning", "bar", "fragment"} :
         <<T!Text(x)>> \in Seq(Piece)
    /\ \A n \in Nat : <<T!Start(n)>> \in Seq(Piece) /\ <<T!End(n)>> \in Seq(Piece)
    /\ \A x \in {"text", "result", "error", "braces", "bar"} : <<T!Text(x)>> \in Seq(Words)
    /\ \A body \in Seq(Words) : body \in Seq(Piece)
  BY DEF Piece, Words, T!Text, T!Start, T!End

LEMMA WrappedIs ==
    ASSUME NEW s, s.id \in Nat, NEW body \in Seq(Words)
    PROVE  /\ T!Wrapped(s, body) = <<T!Start(s.id)>> \o body \o <<T!End(s.id)>>
           /\ T!Wrapped(s, body) \in Seq(Piece)
<1>1. /\ <<T!Start(s.id)>> \in Seq(Piece) /\ <<T!End(s.id)>> \in Seq(Piece) /\ body \in Seq(Piece)
  BY PiecesAre
<1>2. \A p, q, t \in Seq(Piece) : p \o q \o t \in Seq(Piece)
  OBVIOUS
<1> QED
  BY <1>1, <1>2 DEF T!Wrapped

LEMMA CheckResultIs == T!CheckResult \in Seq(Piece) /\ T!Text("link") \in T!Range(T!CheckResult) /\ Head(T!CheckResult) \in Unwrapped
<1>1. T!CheckResult = <<T!Text("error"), T!Text("link")>>
  BY DEF T!CheckResult
<1>2. \A x, y : Head(<<x, y>>) = x /\ y \in T!Range(<<x, y>>)
  BY DEF T!Range
<1>3. T!CheckResult \in Seq(Piece)
  BY DEF T!CheckResult, T!Text, Piece
<1> QED
  BY <1>1, <1>2, <1>3 DEF Unwrapped

LEMMA AnswerIsDone ==
    ASSUME NEW c, NEW s, NEW w, Sent(c, s, w, "waits", {}), NEW tokens \in Seq(Piece), Ending(c, s, w \o tokens)
    PROVE  Done(c, T!Sibling(s, tokens, FALSE))
<1> PICK r : r = T!Sibling(s, tokens, FALSE)
  OBVIOUS
<1>1. Sent(c, r, w \o tokens, "done", {}) /\ SameWay(s, r)
  BY SiblingSent
<1>2. Ending(c, r, w \o tokens)
  BY <1>1 DEF SameWay, Same, Ending
<1> QED
  BY <1>1, <1>2 DEF Done

LEMMA GivenIsDone ==
    ASSUME NEW c, NEW s, Begun(s), NEW tokens \in Seq(Piece), RightAnswer(c, s.id, tokens)
    PROVE  Done(c, T!Cb(s, tokens, FALSE))
<1>1. s.acc = <<>> /\ <<>> \o tokens = tokens
  BY DEF Begun, Silent
<1>2. T!Cb(s, tokens, FALSE) = T!Sibling(s, tokens, FALSE)
  BY <1>1 DEF T!Sibling
<1>3. Ending(c, s, <<>> \o tokens)
  BY <1>1 DEF Ending
<1> QED
  BY <1>2, <1>3, BegunSent, AnswerIsDone

LEMMA PhaseBegins ==
    ASSUME NEW c, NEW s, NEW w, Sent(c, s, w, "waits", {}), NEW phase \in Phases, PhaseOK(c, s, phase, w)
    PROVE  /\ UnderWay(c, T!Waits(s, phase))
           /\ \A n : UnderWay(c, [T!Waits(s, phase) EXCEPT !.left = n])
<1> PICK r : r = T!Waits(s, phase)
  OBVIOUS
<1>1. Sent(c, r, w, "waits", {phase}) /\ r.acc = s.acc
  <2>1. phase # "params"
    BY DEF Phases
  <2> QED
    BY <2>1, WaitSent
<1>2. PhaseOK(c, r, phase, w)
  BY <1>1 DEF PhaseOK
<1>3. ASSUME NEW n PROVE UnderWay(c, [r EXCEPT !.left = n])
  <2> PICK q : q = [r EXCEPT !.left = n]
    OBVIOUS
  <2>1. Sent(c, q, w, "waits", {phase}) /\ q.acc = r.acc
    BY <1>1, LeftSent
  <2>2. PhaseOK(c, q, phase, w)
    BY <1>2, <2>1 DEF PhaseOK
  <2> QED
    BY <2>1, <2>2 DEF UnderWay
<1> QED
  BY <1>1, <1>2, <1>3 DEF UnderWay

\* The sibling is told that more will follow, and then the phase begins.
LEMMA PhaseFollows ==
    ASSUME NEW c, NEW s, Sent(c, s, <<>>, "waits", {}), NEW phase \in Phases, PhaseOK(c, s, phase, <<>>), phase # "text"
    PROVE  UnderWay(c, T!Waits(T!Sibling(s, <<>>, TRUE), phase))
<1> PICK r : r = T!Sibling(s, <<>>, TRUE)
  OBVIOUS
<1>1. <<>> \in Seq(Piece) /\ <<>> \o <<>> = <<>>
  BY EmptySeq
<1>2. Sent(c, r, <<>> \o <<>>, "waits", {}) /\ SameWay(s, r)
  BY <1>1, SiblingSent
<1>3. Sent(c, r, <<>>, "waits", {})
  BY <1>1, <1>2
<1>4. PhaseOK(c, r, phase, <<>>)
  BY <1>2 DEF PhaseOK, SameWay
<1> QED
  BY <1>3, <1>4, PhaseBegins

-----------------------------------------------------------------------------
(* What the handler of a template does *)

\* The start is sent, or is to be when the parameters are expanded.
LEMMA EncapsulateSends ==
    ASSUME NEW s, Begun(s), NEW e, e = T!encapsulateTemplate(T!WithAccumulator(s))
    PROVE  \/ e.fatal = TRUE /\ Stopped(e)
           \/ e.fatal = FALSE /\ Sent(conf, e, <<>>, "waits", {}) /\ e.acc # <<>> /\ e.token = s.token
<1> PICK t, a : t = T!WithAccumulator(s) /\ a = T!Acc!NewAccumulator
  OBVIOUS
<1>1. /\ DOMAIN t = Fields /\ t.acc = <<a>> /\ t.out = <<>> /\ t.final = 0 /\ t.fatal = FALSE /\ t.pending = {}
      /\ t.call = FALSE /\ t.id = s.id /\ t.id \in Nat /\ t.token = s.token
  BY DEF T!WithAccumulator, Begun, Silent, Fields
<1>2. CASE e = [t EXCEPT !.fatal = TRUE]
  BY <1>1, <1>2 DEF Stopped, Fields
<1>3. CASE e = T!Waits(T!Child(t, <<>>, TRUE), "params")
  <2> PICK ret : ret = T!Ret(<<>>, TRUE)
    OBVIOUS
  <2>1. IsRet(ret, <<>>, "waits")
    BY RetIs
  <2> PICK x : x = T!Acc!receiveToksFromChild(a, ret)
    OBVIOUS
  <2>2. Buffers(a, "waits", <<>>) /\ CallsOnce(x.calls, <<>>, "waits") /\ x.acc = a
    BY <2>1, ChildWaits
  <2> PICK r : r = T!Child(t, <<>>, TRUE)
    OBVIOUS
  <2>3. r = T!Calls(t, x)
    <3>1. t.acc[1] = a
      BY <1>1
    <3> QED
      BY <3>1 DEF T!Child
  <2>4. Gives(t, r, <<>>, "waits") /\ r.acc = <<a>>
    <3>1. "waits" \in {"waits", "done"}
      OBVIOUS
    <3>2. DOMAIN t = Fields /\ CallsOnce(x.calls, <<>>, "waits") /\ x.acc = a
      BY <1>1, <2>2
    <3>3. Gives(t, T!Calls(t, x), <<>>, "waits") /\ T!Calls(t, x).acc = <<x.acc>>
      BY ONLY <3>1, <3>2, OneCall, Zenon
    <3> QED
      BY <2>3, <3>2, <3>3
  <2>5. /\ DOMAIN r = Fields /\ r.out = <<>> /\ r.final = 0 /\ r.id \in Nat /\ r.call = FALSE /\ r.fatal = FALSE
        /\ r.pending = {} /\ r.token = s.token
    <3>1. Finals("waits") = 0 /\ <<>> \o <<>> = <<>>
      BY DEF Finals
    <3>2. Same(t, r) /\ r.out = t.out \o <<>> /\ r.final = t.final + 0
      BY <2>4, <3>1 DEF Gives
    <3>3. r.out = <<>>
      BY <1>1, <3>1, <3>2
    <3>4. r.final = 0
      <4>1. r.final = 0 + 0
        BY ONLY <1>1, <3>2, Zenon
      <4> QED
        BY ONLY <4>1
    <3> QED
      BY <1>1, <3>2, <3>3, <3>4 DEF Same
  <2>6. /\ DOMAIN e = Fields /\ e.out = <<>> /\ e.final = 0 /\ e.id \in Nat /\ e.call = FALSE /\ e.fatal = FALSE
        /\ e.pending = {"params"} /\ e.acc = <<a>> /\ e.token = s.token
    BY <1>3, <2>4, <2>5 DEF T!Waits, Fields
  <2>7. Delivered(conf, e, <<>>, "waits")
    BY <2>2, <2>6 DEF Delivered
  <2>8. \A y : <<y>> # <<>>
    OBVIOUS
  <2> QED
    BY <2>6, <2>7, <2>8, EmptySeq DEF Sent
<1>4. CASE e = T!Child(t, <<T!Start(t.id)>>, FALSE)
  <2>1. Buffers(a, "waits", <<>>)
    BY RetIs, ChildWaits
  <2>2. "waits" \in {"waits", "done"} /\ <<>> \in Seq(Piece) /\ "params" \notin t.pending
    BY <1>1, EmptySeq
  <2>3. Delivered(conf, e, <<>>, "waits") /\ SameWay(t, e)
    <3>1. /\ Delivered(conf, T!Child(t, <<T!Start(t.id)>>, FALSE), <<>>, "waits")
          /\ SameWay(t, T!Child(t, <<T!Start(t.id)>>, FALSE))
      BY <1>1, <2>1, <2>2, ChildDelivers
    <3> QED
      BY <1>4, <3>1
  <2>4. t.acc # <<>>
    <3>1. \A y : <<y>> # <<>>
      OBVIOUS
    <3> QED
      BY <1>1, <3>1
  <2>5. /\ DOMAIN e = Fields /\ e.id \in Nat /\ e.call = FALSE /\ e.fatal = FALSE /\ e.pending = {}
        /\ e.token = s.token /\ e.acc # <<>>
    BY <1>1, <2>3, <2>4 DEF SameWay, Same
  <2> QED
    BY <2>2, <2>3, <2>5 DEF Sent
<1> QED
  BY <1>2, <1>3, <1>4 DEF T!encapsulateTemplate

LEMMA ExplodeSends ==
    ASSUME NEW s, Sent(conf, s, <<>>, "waits", {}),
           s.acc # <<>> => conf.expandTemplates /\ ~conf.usePHPPreProcessor
    PROVE  UnderWay(conf, T!convertAttribsToString(s))
<1>1. "explode" \in Phases /\ PhaseOK(conf, s, "explode", <<>>)
  BY DEF Phases, PhaseOK
<1> QED
  BY <1>1, PhaseFollows DEF T!convertAttribsToString

LEMMA FetchSends ==
    ASSUME NEW s, Sent(conf, s, <<>>, "waits", {}), s.acc # <<>> <=> conf.expandTemplates
    PROVE  /\ UnderWay(conf, T!fetchExpandedTpl(s)) \/ Done(conf, T!fetchExpandedTpl(s))
           /\ UnderWay(conf, T!fetchTemplateAndTitle(s)) \/ Done(conf, T!fetchTemplateAndTitle(s))
<1>1. s.id \in Nat /\ DOMAIN s = Fields
  BY DEF Sent
<1>2. ASSUME conf.fetchTemplates PROVE UnderWay(conf, T!Waits(T!Sibling(s, <<>>, TRUE), "source"))
  <2>1. "source" \in Phases /\ PhaseOK(conf, s, "source", <<>>)
    BY DEF Phases, PhaseOK
  <2> QED
    BY <2>1, PhaseFollows
<1>3. ASSUME ~conf.fetchTemplates, NEW r, Sent(conf, r, <<>>, "waits", {}), NEW tokens \in Seq(Piece)
      PROVE  Done(conf, T!Sibling(r, tokens, FALSE))
  <2>1. Ending(conf, r, <<>> \o tokens)
    BY <1>3 DEF Ending
  <2> QED
    BY <1>3, <2>1, AnswerIsDone
<1>4. UnderWay(conf, T!fetchExpandedTpl(s)) \/ Done(conf, T!fetchExpandedTpl(s))
  <2>1. <<T!Text("warning")>> \in Seq(Piece)
    BY PiecesAre
  <2> QED
    BY <1>2, <1>3, <2>1 DEF T!fetchExpandedTpl
<1>5. UnderWay(conf, T!fetchTemplateAndTitle(s)) \/ Done(conf, T!fetchTemplateAndTitle(s))
  <2>1. CASE conf.cached
    <3>1. "text" \in Phases /\ PhaseOK(conf, s, "text", <<>>)
      BY EmptySeq DEF Phases, PhaseOK
    <3>2. UnderWay(conf, [T!Waits(s, "text") EXCEPT !.left = MaxText])
      BY <3>1, PhaseBegins
    <3> QED
      BY <2>1, <3>2 DEF T!fetchTemplateAndTitle
  <2>2. CASE ~conf.cached /\ ~conf.fetchTemplates
    <3> PICK anew : anew = [s EXCEPT !.id = IF conf.expandTemplates THEN @ + 1 ELSE @]
      OBVIOUS
    <3> PICK tokens : tokens = IF conf.expandTemplates THEN T!Wrapped(anew, <<T!Text("error")>>) ELSE <<T!Text("braces")>>
      OBVIOUS
    <3>1. T!fetchTemplateAndTitle(s) = T!Sibling(anew, tokens, FALSE)
      BY <2>2 DEF T!fetchTemplateAndTitle
    <3>2. /\ DOMAIN anew = Fields /\ anew.id \in Nat /\ anew.call = s.call /\ anew.fatal = s.fatal
          /\ anew.pending = s.pending /\ anew.acc = s.acc /\ anew.out = s.out /\ anew.final = s.final
      BY <1>1 DEF Fields
    <3>3. Sent(conf, anew, <<>>, "waits", {})
      <4>1. Delivered(conf, anew, <<>>, "waits")
        BY <2>2, <3>2 DEF Sent, Delivered
      <4> QED
        BY <3>2, <4>1 DEF Sent
    <3>4. tokens \in Seq(Piece)
      BY <3>2, PiecesAre, WrappedIs
    <3> QED
      BY <1>3, <2>2, <3>1, <3>3, <3>4
  <2>3. CASE ~conf.cached /\ conf.fetchTemplates
    BY <1>2, <2>3 DEF T!fetchTemplateAndTitle
  <2> QED
    BY <2>1, <2>2, <2>3
<1> QED
  BY <1>4, <1>5

-----------------------------------------------------------------------------
(* A template is asked for, and its target expanded *)

LEMMA NativelyKeeps ==
    ASSUME NEW s, Begun(s), ~conf.usePHPPreProcessor
    PROVE  TemplateState(conf, T!ExpandNatively(s))
<1> PICK e : e = IF conf.expandTemplates THEN T!encapsulateTemplate(T!WithAccumulator(s)) ELSE s
  OBVIOUS
<1>1. T!ExpandNatively(s) = IF e.fatal THEN e ELSE T!Waits(T!Sibling(e, <<>>, TRUE), "attributes")
  BY DEF T!ExpandNatively
<1>2. ASSUME e.fatal = FALSE, Sent(conf, e, <<>>, "waits", {}), e.acc # <<>> <=> conf.expandTemplates
      PROVE  TemplateState(conf, T!ExpandNatively(s))
  <2>1. "attributes" \in Phases /\ PhaseOK(conf, e, "attributes", <<>>) /\ "attributes" # "text"
    BY <1>2 DEF Phases, PhaseOK
  <2>2. UnderWay(conf, T!Waits(T!Sibling(e, <<>>, TRUE), "attributes"))
    BY <1>2, <2>1, PhaseFollows
  <2> QED
    BY <1>1, <1>2, <2>2 DEF TemplateState
<1>3. CASE conf.expandTemplates
  <2>1. e = T!encapsulateTemplate(T!WithAccumulator(s))
    BY <1>3
  <2>2. \/ e.fatal = TRUE /\ Stopped(e)
        \/ e.fatal = FALSE /\ Sent(conf, e, <<>>, "waits", {}) /\ e.acc # <<>>
    BY <2>1, EncapsulateSends
  <2>3. CASE e.fatal = TRUE /\ Stopped(e)
    BY <1>1, <2>3 DEF TemplateState
  <2> QED
    BY <1>2, <1>3, <2>2, <2>3
<1>4. CASE ~conf.expandTemplates
  <2>1. e = s /\ s.fatal = FALSE /\ s.acc = <<>>
    BY <1>4 DEF Begun, Silent
  <2> QED
    BY <1>2, <1>4, <2>1, BegunSent
<1> QED
  BY <1>3, <1>4

LEMMA ByPHPKeeps ==
    ASSUME NEW s, Begun(s), conf.expandTemplates
    PROVE  TemplateState(conf, T!ExpandByPHP(s))
<1> PICK e : e = T!encapsulateTemplate(T!WithAccumulator(s))
  OBVIOUS
<1>0. s.id \in Nat
  BY DEF Begun, Silent
<1>1. CASE T!loopAndDepthCheck(s.token.title, TRUE)
  <2>1. RightAnswer(conf, s.id, T!CheckResult)
    BY CheckResultIs DEF RightAnswer
  <2>2. Done(conf, T!Cb(s, T!CheckResult, FALSE))
    BY <2>1, CheckResultIs, GivenIsDone
  <2> QED
    BY <1>1, <2>2 DEF T!ExpandByPHP, TemplateState
<1>2. CASE ~T!loopAndDepthCheck(s.token.title, TRUE) /\ conf.cached
  <2>1. <<T!Fragment>> \in Seq(Piece)
    BY PiecesAre DEF T!Fragment
  <2>2. RightAnswer(conf, s.id, <<T!Fragment>>)
    BY DEF RightAnswer
  <2>3. Done(conf, T!Cb(s, <<T!Fragment>>, FALSE))
    BY <2>1, <2>2, GivenIsDone
  <2> QED
    BY <1>2, <2>3 DEF T!ExpandByPHP, TemplateState
<1>3. CASE ~T!loopAndDepthCheck(s.token.title, TRUE) /\ ~conf.cached
  <2>1. \/ e.fatal = TRUE /\ Stopped(e)
        \/ e.fatal = FALSE /\ Sent(conf, e, <<>>, "waits", {}) /\ e.acc # <<>>
    BY EncapsulateSends
  <2>2. T!ExpandByPHP(s) = IF e.fatal THEN e ELSE T!fetchExpandedTpl(e)
    BY <1>3 DEF T!ExpandByPHP
  <2>3. CASE e.fatal = TRUE /\ Stopped(e)
    BY <2>2, <2>3 DEF TemplateState
  <2>4. CASE e.fatal = FALSE /\ Sent(conf, e, <<>>, "waits", {}) /\ e.acc # <<>>
    <3>1. UnderWay(conf, T!fetchExpandedTpl(e)) \/ Done(conf, T!fetchExpandedTpl(e))
      BY <2>4, FetchSends
    <3> QED
      BY <2>2, <2>4, <3>1 DEF TemplateState
  <2> QED
    BY <2>1, <2>3, <2>4
<1> QED
  BY <1>1, <1>2, <1>3

LEMMA OnTemplateKeeps ==
    ASSUME NEW s, Begun(s)
    PROVE  TemplateState(conf, T!onTemplate(s))
<1>1. ASSUME ~conf.expandTemplates \/ s.token.target = "null"
      PROVE  TemplateState(conf, T!convertAttribsToString(s))
  <2>1. Sent(conf, s, <<>>, "waits", {}) /\ s.acc = <<>>
    BY BegunSent DEF Begun, Silent
  <2> QED
    BY <2>1, ExplodeSends DEF TemplateState
<1>2. NameAsked(T!Waits(T!Cb(s, <<>>, TRUE), "name"))
  <2> PICK r, q : r = T!Cb(s, <<>>, TRUE) /\ q = T!Waits(r, "name")
    OBVIOUS
  <2>1. DOMAIN s = Fields /\ s.id \in Nat /\ s.acc = <<>> /\ s.out = <<>> /\ s.final = 0 /\ s.fatal = FALSE
        /\ s.call = FALSE /\ s.pending = {}
    BY DEF Begun, Silent
  <2>2. Gives(s, r, <<>>, "waits") /\ r.acc = s.acc
    BY <2>1, CbGives
  <2>3. Same(s, r) /\ r.out = <<>> \o <<>> /\ r.final = 0 + 0
    BY ONLY <2>1, <2>2 DEF Gives, Finals
  <2>4. r.out = <<>> /\ r.final = 0
    BY ONLY <2>3
  <2>5. /\ DOMAIN r = Fields /\ r.id \in Nat /\ r.acc = <<>> /\ r.fatal = FALSE /\ r.call = FALSE /\ r.pending = {}
    BY <2>1, <2>2, <2>3 DEF Same
  <2> QED
    BY <2>4, <2>5 DEF T!Waits, NameAsked, Silent, Fields
<1>3. ASSUME NEW target PROVE TemplateState(conf, T!processSpecialMagicWord(s, target))
  <2>1. TemplateState(conf, T!Cb(s, <<T!Text("meta")>>, FALSE))
    <3>1. Head(<<T!Text("meta")>>) \in Unwrapped /\ <<T!Text("meta")>> \in Seq(Piece)
      BY PiecesAre DEF Unwrapped
    <3> QED
      BY <3>1, GivenIsDone DEF RightAnswer, TemplateState
  <2>2. CASE ~conf.toplevel
    <3>1. Head(<<T!Text("cell")>>) = T!Text("cell") /\ <<T!Text("cell")>> \in Seq(Piece)
      BY PiecesAre
    <3>2. TemplateState(conf, T!Cb(s, <<T!Text("cell")>>, FALSE))
      BY <2>2, <3>1, GivenIsDone DEF RightAnswer, TemplateState
    <3> QED
      BY <2>1, <2>2, <3>2 DEF T!processSpecialMagicWord
  <2>3. CASE conf.toplevel
    <3> PICK anew : anew = [s EXCEPT !.id = @ + 1]
      OBVIOUS
    <3>1. Begun(anew) /\ anew.id \in Nat
      BY DEF Begun, Silent, Fields
    <3>2. <<T!Text("bar")>> \in Seq(Words)
      BY PiecesAre
    <3> PICK out : out = T!Wrapped(anew, <<T!Text("bar")>>)
      OBVIOUS
    <3>3. out = <<T!Start(anew.id)>> \o <<T!Text("bar")>> \o <<T!End(anew.id)>> /\ out \in Seq(Piece)
      BY <3>1, <3>2, WrappedIs
    <3>4. RightAnswer(conf, anew.id, out)
      BY <3>2, <3>3 DEF RightAnswer
    <3>5. Done(conf, T!Cb(anew, out, FALSE))
      BY <3>1, <3>3, <3>4, GivenIsDone
    <3> QED
      BY <2>1, <2>3, <3>5 DEF T!processSpecialMagicWord, TemplateState
  <2> QED
    BY <2>2, <2>3
<1>4. CASE s.token.templatedName
  BY <1>2, <1>4 DEF T!onTemplate, TemplateState
<1>5. CASE ~s.token.templatedName
  <2>1. CASE s.token.target \in {"!", "masq"}
    BY <1>3, <1>5, <2>1 DEF T!onTemplate
  <2>2. CASE s.token.target \notin {"!", "masq"} /\ conf.expandTemplates /\ s.token.target = "null"
    BY <1>1, <1>5, <2>2 DEF T!onTemplate
  <2>3. CASE s.token.target \notin {"!", "masq"} /\ ~(conf.expandTemplates /\ s.token.target = "null")
    <3>1. CASE ~conf.usePHPPreProcessor
      BY <1>5, <2>3, <3>1, NativelyKeeps DEF T!onTemplate
    <3>2. CASE conf.usePHPPreProcessor /\ conf.expandTemplates
      BY <1>5, <2>3, <3>2, ByPHPKeeps DEF T!onTemplate
    <3>3. CASE conf.usePHPPreProcessor /\ ~conf.expandTemplates
      BY <1>1, <1>5, <2>3, <3>3 DEF T!onTemplate
    <3> QED
      BY <3>1, <3>2, <3>3
  <2> QED
    BY <2>1, <2>2, <2>3
<1> QED
  BY <1>4, <1>5

-----------------------------------------------------------------------------
(* What the template waits for comes *)

\* The phase under way is the one that is waited for.
LEMMA PhaseIs ==
    ASSUME NEW c, NEW s, TemplateState(c, s), NEW phase \in Phases, phase \in s.pending
    PROVE  \E w : Sent(c, s, w, "waits", {phase}) /\ PhaseOK(c, s, phase, w)
<1>1. phase # "params" /\ phase # "name"
  BY DEF Phases
<1>2. ~Asked(s) /\ ~NameAsked(s) /\ ~Stopped(s)
  BY <1>1 DEF Asked, NameAsked, Stopped
<1>3. ~Done(c, s)
  BY <1>1 DEF Done, Sent
<1>4. PICK w, begun : begun \in Phases /\ Sent(c, s, w, "waits", {begun}) /\ PhaseOK(c, s, begun, w)
  BY <1>2, <1>3 DEF TemplateState, UnderWay
<1>5. phase \in s.pending \ {"params"} /\ s.pending \ {"params"} = {begun}
  BY <1>1, <1>4 DEF Sent
<1>6. begun = phase
  BY <1>5
<1> QED
  BY <1>4, <1>6

LEMMA PhaseComes ==
    ASSUME NEW c, NEW s, TemplateState(c, s), NEW phase \in Phases, phase \in s.pending
    PROVE  /\ \E w : Sent(c, T!Comes(s, phase), w, "waits", {}) /\ PhaseOK(c, T!Comes(s, phase), phase, w)
           /\ T!Comes(s, phase).token = s.token
<1>1. PICK w : Sent(c, s, w, "waits", {phase}) /\ PhaseOK(c, s, phase, w)
  BY PhaseIs
<1> PICK r : r = T!Comes(s, phase)
  OBVIOUS
<1>2. Sent(c, r, w, "waits", {}) /\ r.acc = s.acc /\ r.token = s.token
  <2>1. phase # "params"
    BY DEF Phases
  <2> QED
    BY <1>1, <2>1, ComesSent
<1>3. PhaseOK(c, r, phase, w)
  BY <1>1, <1>2 DEF PhaseOK
<1> QED
  BY <1>2, <1>3

LEMMA EndKeeps ==
    ASSUME NEW s, NEW w \in Seq(Words), Sent(conf, s, w, "waits", {}), conf.expandTemplates => s.acc # <<>>
    PROVE  Done(conf, T!onEnd(s))
<1> PICK tokens : tokens = IF conf.expandTemplates THEN <<T!End(s.id)>> ELSE <<>>
  OBVIOUS
<1>1. T!onEnd(s) = T!Sibling(s, tokens, FALSE)
  BY DEF T!onEnd
<1>2. s.id \in Nat
  BY DEF Sent
<1>3. tokens \in Seq(Piece)
  BY <1>2, PiecesAre, EmptySeq
<1>4. Ending(conf, s, w \o tokens)
  BY DEF Ending
<1> QED
  BY <1>1, <1>3, <1>4, AnswerIsDone

LEMMA AttributesCome ==
    ASSUME NEW s, Sent(conf, s, <<>>, "waits", {}), PhaseOK(conf, s, "attributes", <<>>), NEW target
    PROVE  TemplateState(conf, T!expandTemplate(s, target))
<1>1. ~conf.usePHPPreProcessor /\ (s.acc # <<>> <=> conf.expandTemplates)
  BY DEF PhaseOK
<1>2. s.id \in Nat
  BY DEF Sent
<1>3. CASE target = "null"
  BY <1>1, <1>3, ExplodeSends DEF T!expandTemplate, TemplateState
<1>4. CASE target \in {"missing", "!"}
  <2> PICK end : end = IF conf.expandTemplates THEN <<T!End(s.id)>> ELSE <<>>
    OBVIOUS
  <2>1. T!expandTemplate(s, target) = T!Sibling(s, <<T!Text("error")>> \o end, FALSE)
    BY <1>4 DEF T!expandTemplate
  <2>2. end \in Seq(Piece) /\ <<T!Text("error")>> \in Seq(Piece) /\ <<T!Text("error")>> \in Seq(Words)
    BY <1>2, PiecesAre, EmptySeq
  <2>3. \A p, q \in Seq(Piece) : p \o q \in Seq(Piece) /\ <<>> \o (p \o q) = p \o q
    OBVIOUS
  <2>4. Ending(conf, s, <<T!Text("error")>> \o end)
    BY <1>1, <2>2 DEF Ending
  <2>5. Done(conf, T!Sibling(s, <<T!Text("error")>> \o end, FALSE))
    BY <2>2, <2>3, <2>4, AnswerIsDone
  <2> QED
    BY <2>1, <2>5 DEF TemplateState
<1>5. CASE target \in {"function", "masq"}
  <2>1. "function" \in Phases /\ PhaseOK(conf, s, "function", <<>>)
    BY <1>1 DEF Phases, PhaseOK
  <2>2. UnderWay(conf, T!Waits(s, "function"))
    BY <2>1, PhaseBegins
  <2> QED
    BY <1>5, <2>2 DEF T!expandTemplate, TemplateState
<1>6. CASE target \notin {"null", "missing", "!", "function", "masq"} /\ T!loopAndDepthCheck(s.token.title, FALSE)
  <2>1. Ending(conf, s, T!CheckResult)
    BY <1>1, CheckResultIs DEF Ending, RightAnswer, GivenUp
  <2>2. <<>> \o T!CheckResult = T!CheckResult
    BY CheckResultIs
  <2>3. Done(conf, T!Sibling(s, T!CheckResult, FALSE))
    BY <2>1, <2>2, CheckResultIs, AnswerIsDone
  <2> QED
    BY <1>6, <2>3 DEF T!expandTemplate, TemplateState
<1>7. CASE target \notin {"null", "missing", "!", "function", "masq"} /\ ~T!loopAndDepthCheck(s.token.title, FALSE)
  BY <1>1, <1>7, FetchSends DEF T!expandTemplate, TemplateState
<1> QED
  BY <1>3, <1>4, <1>5, <1>6, <1>7

LEMMA FunctionComes ==
    ASSUME NEW s, Sent(conf, s, <<>>, "waits", {}), PhaseOK(conf, s, "function", <<>>)
    PROVE  /\ conf.expandTemplates => Done(conf, T!onEnd(T!Sibling(s, <<T!Text("result")>>, TRUE)))
           /\ ~conf.expandTemplates => Done(conf, T!Cb(s, <<T!Text("result")>>, FALSE))
<1>1. <<T!Text("result")>> \in Seq(Words) /\ <<T!Text("result")>> \in Seq(Piece)
  BY PiecesAre
<1>2. <<>> \o <<T!Text("result")>> = <<T!Text("result")>>
  OBVIOUS
<1>3. ASSUME conf.expandTemplates PROVE Done(conf, T!onEnd(T!Sibling(s, <<T!Text("result")>>, TRUE)))
  <2> PICK q : q = T!Sibling(s, <<T!Text("result")>>, TRUE)
    OBVIOUS
  <2>1. Sent(conf, q, <<>> \o <<T!Text("result")>>, "waits", {}) /\ SameWay(s, q)
    BY <1>1, SiblingSent
  <2>2. Sent(conf, q, <<T!Text("result")>>, "waits", {})
    BY <1>2, <2>1
  <2>3. q.acc # <<>>
    BY <1>3, <2>1 DEF SameWay, PhaseOK
  <2> QED
    BY <1>1, <2>2, <2>3, EndKeeps
<1>4. ASSUME ~conf.expandTemplates PROVE Done(conf, T!Cb(s, <<T!Text("result")>>, FALSE))
  <2>1. s.acc = <<>>
    BY <1>4 DEF PhaseOK
  <2>2. T!Cb(s, <<T!Text("result")>>, FALSE) = T!Sibling(s, <<T!Text("result")>>, FALSE)
    BY <2>1 DEF T!Sibling
  <2>3. Ending(conf, s, <<>> \o <<T!Text("result")>>)
    BY <1>4 DEF Ending
  <2> QED
    BY <1>1, <2>2, <2>3, AnswerIsDone
<1> QED
  BY <1>3, <1>4

LEMMA BetweenIs ==
    ASSUME NEW p \in Seq(Piece), NEW q \in Seq(Piece), NEW y \in Piece
    PROVE  y \in T!Range(p \o <<y>> \o q) /\ y \in T!Range(<<y>>) /\ Head(<<y>>) = y
<1> PICK w : w = p \o <<y>> \o q
  OBVIOUS
<1>1. Len(p) + 1 \in DOMAIN w /\ w[Len(p) + 1] = y
  OBVIOUS
<1>2. 1 \in DOMAIN <<y>> /\ <<y>>[1] = y /\ Head(<<y>>) = y
  OBVIOUS
<1> QED
  BY <1>1, <1>2 DEF T!Range

LEMMA BracesCome ==
    ASSUME NEW s, Sent(conf, s, <<>>, "waits", {}), PhaseOK(conf, s, "explode", <<>>)
    PROVE  /\ Done(conf, T!Sibling(s, T!Wrapped(s, <<T!Text("braces")>>), FALSE))
           /\ Done(conf, T!Sibling(s, <<T!Text("braces")>>, FALSE))
<1>1. s.id \in Nat
  BY DEF Sent
<1>2. <<T!Text("braces")>> \in Seq(Words) /\ <<T!Text("braces")>> \in Seq(Piece)
  BY PiecesAre
<1>3. /\ T!Wrapped(s, <<T!Text("braces")>>) = <<T!Start(s.id)>> \o <<T!Text("braces")>> \o <<T!End(s.id)>>
      /\ T!Wrapped(s, <<T!Text("braces")>>) \in Seq(Piece)
  BY <1>1, <1>2, WrappedIs
<1>4. ASSUME NEW tokens \in Seq(Piece), T!Text("braces") \in T!Range(tokens),
             s.acc = <<>> => RightAnswer(conf, s.id, tokens)
      PROVE  Done(conf, T!Sibling(s, tokens, FALSE))
  <2>1. <<>> \o tokens = tokens
    OBVIOUS
  <2>2. Ending(conf, s, tokens)
    BY <1>4 DEF Ending, GivenUp, PhaseOK
  <2> QED
    BY <2>1, <2>2, AnswerIsDone
<1>5. /\ T!Text("braces") \in T!Range(<<T!Start(s.id)>> \o <<T!Text("braces")>> \o <<T!End(s.id)>>)
      /\ T!Text("braces") \in T!Range(<<T!Text("braces")>>) /\ Head(<<T!Text("braces")>>) = T!Text("braces")
  <2>1. <<T!Start(s.id)>> \in Seq(Piece) /\ <<T!End(s.id)>> \in Seq(Piece) /\ T!Text("braces") \in Piece
    BY <1>1, PiecesAre DEF T!Text, Piece
  <2> QED
    BY ONLY <2>1, BetweenIs
<1>6. RightAnswer(conf, s.id, T!Wrapped(s, <<T!Text("braces")>>))
  BY <1>2, <1>3 DEF RightAnswer
<1>7. RightAnswer(conf, s.id, <<T!Text("braces")>>)
  BY <1>5 DEF RightAnswer, Unwrapped
<1> QED
  BY <1>2, <1>3, <1>4, <1>5, <1>6, <1>7

\* The HTML of the parameters comes, whatever phase is under way or over.
LEMMA ParamsCome ==
    ASSUME NEW c, NEW s, TemplateState(c, s), "params" \in s.pending
    PROVE  TemplateState(c, T!Child(T!Comes(s, "params"), <<T!Start(s.id)>>, FALSE))
<1> PICK r : r = T!Comes(s, "params")
  OBVIOUS
<1> PICK q : q = T!Child(r, <<T!Start(s.id)>>, FALSE)
  OBVIOUS
<1>1. ~Asked(s) /\ ~NameAsked(s) /\ ~Stopped(s)
  BY DEF Asked, NameAsked, Stopped
<1>2. ASSUME NEW w, NEW sibling \in {"waits", "done"}, NEW phase, Sent(c, s, w, sibling, phase)
      PROVE  Sent(c, q, w, sibling, phase) /\ (q.acc = <<>> <=> s.acc = <<>>) /\ q.id = s.id
  <2>1. DOMAIN s = Fields /\ s.id \in Nat /\ w \in Seq(Piece)
    BY <1>2 DEF Sent
  <2>2. PICK a : s.acc = <<a>> /\ Buffers(a, sibling, w) /\ s.out = <<>> /\ s.final = 0
    <3>1. Delivered(c, s, w, sibling)
      BY <1>2 DEF Sent
    <3> QED
      BY <3>1 DEF Delivered
  <2>3. /\ DOMAIN r = Fields /\ r.id = s.id /\ r.call = s.call /\ r.fatal = s.fatal /\ r.pending = s.pending \ {"params"}
        /\ r.acc = s.acc /\ r.out = s.out /\ r.final = s.final /\ r.token = s.token
    BY <2>1 DEF T!Comes, Fields
  <2>4. Delivered(c, T!Child(r, <<T!Start(r.id)>>, FALSE), w, sibling) /\ SameWay(r, T!Child(r, <<T!Start(r.id)>>, FALSE))
    <3>1. /\ DOMAIN r = Fields /\ w \in Seq(Piece) /\ sibling \in {"waits", "done"} /\ r.acc = <<a>>
          /\ Buffers(a, sibling, w) /\ r.out = <<>> /\ r.final = 0 /\ r.id \in Nat
      BY <1>2, <2>1, <2>2, <2>3
    <3>2. "params" \notin r.pending
      BY <2>3
    <3> QED
      BY ONLY <3>1, <3>2, ChildDelivers, Zenon
  <2>5. Delivered(c, q, w, sibling) /\ SameWay(r, q)
    BY <2>3, <2>4
  <2>6. /\ DOMAIN q = Fields /\ q.token = s.token /\ q.call = s.call /\ q.id = s.id /\ q.fatal = s.fatal
        /\ q.pending = s.pending \ {"params"} /\ (q.acc = <<>> <=> s.acc = <<>>)
    BY <2>3, <2>5 DEF SameWay, Same
  <2> QED
    BY <1>2, <2>5, <2>6 DEF Sent
<1>3. CASE UnderWay(c, s)
  <2>1. PICK w, phase : phase \in Phases /\ Sent(c, s, w, "waits", {phase}) /\ PhaseOK(c, s, phase, w)
    BY <1>3 DEF UnderWay
  <2>2. "waits" \in {"waits", "done"}
    OBVIOUS
  <2>3. Sent(c, q, w, "waits", {phase}) /\ (q.acc = <<>> <=> s.acc = <<>>)
    BY <1>2, <2>1, <2>2
  <2>4. PhaseOK(c, q, phase, w)
    BY <2>1, <2>3 DEF PhaseOK
  <2> QED
    BY <2>1, <2>3, <2>4 DEF UnderWay, TemplateState
<1>4. CASE Done(c, s)
  <2>1. PICK w : Sent(c, s, w, "done", {}) /\ Ending(c, s, w)
    BY <1>4 DEF Done
  <2>2. "done" \in {"waits", "done"}
    OBVIOUS
  <2>3. Sent(c, q, w, "done", {}) /\ (q.acc = <<>> <=> s.acc = <<>>) /\ q.id = s.id
    BY <1>2, <2>1, <2>2
  <2>4. Ending(c, q, w)
    BY <2>1, <2>3 DEF Ending
  <2> QED
    BY <2>3, <2>4 DEF Done, TemplateState
<1> QED
  BY <1>1, <1>3, <1>4 DEF TemplateState

-----------------------------------------------------------------------------
(* Every step of a transclusion *)

\* Arguments, and what is read at once: the token waits for nothing, or for one thing,
\* until it is answered.
OtherState(s) ==
    /\ DOMAIN s = Fields
    /\ \/ s.call = TRUE /\ s.pending = {} /\ s.final = 0
       \/ s.call = FALSE /\ s.pending \in {{"argName"}, {"default"}} /\ s.final = 0
       \/ s.call = FALSE /\ s.pending = {} /\ s.final = 1
WrapperInv ==
    part = "transclusion" =>
        IF h.token.kind = "template" THEN TemplateState(conf, h) ELSE OtherState(h)

LEMMA WrapperStart == Init => WrapperInv
<1> SUFFICES ASSUME T!Init PROVE TemplateState(conf, h) /\ OtherState(h)
  BY DEF Init, WrapperInv
<1>1. PICK token1 : h = T!NewCall(token1)
  BY DEF T!Init
<1> QED
  BY <1>1 DEF T!NewCall, TemplateState, OtherState, Asked, Silent, Fields

\* What can be waited for tells what the state is.
LEMMA Waited ==
    ASSUME NEW c, NEW s, TemplateState(c, s)
    PROVE  /\ s.pending \subseteq Phases \cup {"params", "name"}
           /\ "name" \in s.pending => NameAsked(s)
           /\ s.call => Asked(s)
           /\ DOMAIN s = Fields
<1>1. /\ UnderWay(c, s) => s.pending \subseteq Phases \cup {"params"} /\ s.call = FALSE /\ DOMAIN s = Fields
      /\ Done(c, s) => s.pending \subseteq {"params"} /\ s.call = FALSE /\ DOMAIN s = Fields
  BY DEF UnderWay, Done, Sent
<1>2. "name" \notin Phases
  BY DEF Phases
<1> QED
  BY <1>1, <1>2 DEF TemplateState, Asked, NameAsked, Stopped, Silent

LEMMA SentStays ==
    ASSUME NEW c, NEW s, NEW w, NEW phase, Sent(c, s, w, "waits", phase), NEW n, NEW r, r = [s EXCEPT !.left = n]
    PROVE  Sent(c, r, w, "waits", phase) /\ r.acc = s.acc
  BY LeftSent

LEMMA ChunkKeeps ==
    ASSUME NEW c, NEW s, NEW w, w \in Seq(Words), Sent(c, s, w, "waits", {"text"}), PhaseOK(c, s, "text", w),
           NEW tokens, tokens \in Seq(Words), NEW n
    PROVE  UnderWay(c, [T!Sibling(s, tokens, TRUE) EXCEPT !.left = n])
<1> SUFFICES ASSUME NEW q, q = T!Sibling(s, tokens, TRUE), NEW r, r = [q EXCEPT !.left = n]
             PROVE  UnderWay(c, r)
  OBVIOUS
<1> PICK v : v = w \o tokens
  OBVIOUS
<1>1. tokens \in Seq(Piece) /\ v \in Seq(Words)
  BY PiecesAre
<1>2. Sent(c, q, v, "waits", {"text"}) /\ SameWay(s, q)
  BY <1>1, SiblingSent
<1>3. ASSUME NEW p, NEW phase, Sent(c, p, v, "waits", phase), r = [p EXCEPT !.left = n]
      PROVE  Sent(c, r, v, "waits", phase) /\ r.acc = p.acc
  BY ONLY <1>3, SentStays
<1>4. Sent(c, r, v, "waits", {"text"}) /\ r.acc = q.acc
  BY <1>2, <1>3
<1>5. PhaseOK(c, r, "text", v)
  BY <1>1, <1>2, <1>4 DEF PhaseOK, SameWay
<1>6. "text" \in Phases
  BY DEF Phases
<1> QED
  BY <1>4, <1>5, <1>6 DEF UnderWay

\* The text of the transclusion: a chunk, its end, and the request before it.
LEMMA TextSteps ==
    ASSUME TemplateState(conf, h), conf' = conf, T!SourceArrives \/ T!OnChunk \/ T!OnEnd
    PROVE  TemplateState(conf, h')
<1>1. CASE T!SourceArrives
  <2>1. "source" \in h.pending /\ "source" \in Phases /\ "text" \in Phases
    BY <1>1 DEF T!SourceArrives, Phases
  <2> PICK s : s = T!Comes(h, "source")
    OBVIOUS
  <2>2. PICK w : Sent(conf, s, w, "waits", {}) /\ PhaseOK(conf, s, "source", w)
    BY <2>1, PhaseComes
  <2>3. w = <<>> /\ PhaseOK(conf, s, "text", <<>>)
    BY <2>2, EmptySeq DEF PhaseOK
  <2>4. \A n : UnderWay(conf, [T!Waits(s, "text") EXCEPT !.left = n])
    BY <2>1, <2>2, <2>3, PhaseBegins
  <2>5. PICK n : h' = [T!Waits(s, "text") EXCEPT !.left = n]
    BY <1>1 DEF T!SourceArrives
  <2> QED
    BY <2>4, <2>5 DEF TemplateState
<1>2. CASE T!OnChunk
  <2>1. "text" \in h.pending /\ "text" \in Phases
    BY <1>2 DEF T!OnChunk, Phases
  <2>2. PICK w : Sent(conf, h, w, "waits", {"text"}) /\ PhaseOK(conf, h, "text", w)
    BY <2>1, PhaseIs
  <2>3. <<T!Source>> \in Seq(Piece) /\ <<T!Source>> \in Seq(Words) /\ w \in Seq(Words)
    BY <2>2, PiecesAre DEF PhaseOK, T!Source
  <2>4. PICK n : h' = [T!Sibling(h, <<T!Source>>, TRUE) EXCEPT !.left = n]
    BY <1>2 DEF T!OnChunk
  <2> QED
    BY <2>2, <2>3, <2>4, ChunkKeeps DEF TemplateState
<1>3. CASE T!OnEnd
  <2>1. "text" \in h.pending /\ "text" \in Phases
    BY <1>3 DEF T!OnEnd, Phases
  <2> PICK s : s = T!Comes(h, "text")
    OBVIOUS
  <2>2. PICK w : Sent(conf, s, w, "waits", {}) /\ PhaseOK(conf, s, "text", w)
    BY <2>1, PhaseComes
  <2>3. Done(conf, T!onEnd(s))
    <3>1. w \in Seq(Words) /\ (conf.expandTemplates => s.acc # <<>>)
      BY <2>2 DEF PhaseOK
    <3> QED
      BY <2>2, <3>1, EndKeeps
  <2> QED
    BY <1>3, <2>3 DEF T!OnEnd, TemplateState
<1> QED
  BY <1>1, <1>2, <1>3

LEMMA AnswerSteps ==
    ASSUME TemplateState(conf, h), conf' = conf, T!AttributesExpanded \/ T!FunctionAnswers \/ T!Exploded
    PROVE  TemplateState(conf, h')
<1>1. ASSUME NEW phase \in {"attributes", "function", "explode"}, phase \in h.pending
      PROVE  /\ Sent(conf, T!Comes(h, phase), <<>>, "waits", {})
             /\ PhaseOK(conf, T!Comes(h, phase), phase, <<>>)
  <2> PICK s : s = T!Comes(h, phase)
    OBVIOUS
  <2>1. PICK w : Sent(conf, s, w, "waits", {}) /\ PhaseOK(conf, s, phase, w)
    <3>1. phase \in Phases
      BY DEF Phases
    <3> QED
      BY <1>1, <3>1, PhaseComes
  <2>2. w = <<>>
    BY <2>1 DEF PhaseOK
  <2> QED
    BY <2>1, <2>2
<1>2. CASE T!AttributesExpanded
  <2> PICK s : s = T!Comes(h, "attributes")
    OBVIOUS
  <2>1. PICK target : h' = T!expandTemplate(s, target)
    BY <1>2 DEF T!AttributesExpanded
  <2>2. Sent(conf, s, <<>>, "waits", {}) /\ PhaseOK(conf, s, "attributes", <<>>)
    BY <1>1, <1>2 DEF T!AttributesExpanded
  <2> QED
    BY <2>1, <2>2, AttributesCome
<1>3. CASE T!FunctionAnswers
  <2> PICK s : s = T!Comes(h, "function")
    OBVIOUS
  <2>1. h' = IF conf.expandTemplates THEN T!onEnd(T!Sibling(s, <<T!Text("result")>>, TRUE))
             ELSE T!Cb(s, <<T!Text("result")>>, FALSE)
    BY <1>3 DEF T!FunctionAnswers
  <2>2. Sent(conf, s, <<>>, "waits", {}) /\ PhaseOK(conf, s, "function", <<>>)
    BY <1>1, <1>3 DEF T!FunctionAnswers
  <2>3. /\ conf.expandTemplates => Done(conf, T!onEnd(T!Sibling(s, <<T!Text("result")>>, TRUE)))
        /\ ~conf.expandTemplates => Done(conf, T!Cb(s, <<T!Text("result")>>, FALSE))
    BY <2>2, FunctionComes
  <2> QED
    BY <2>1, <2>3 DEF TemplateState
<1>4. CASE T!Exploded
  <2> PICK s : s = T!Comes(h, "explode")
    OBVIOUS
  <2>1. h' = T!Sibling(s, IF s.token.hadTemplatedName THEN T!Wrapped(s, <<T!Text("braces")>>)
                          ELSE <<T!Text("braces")>>, FALSE)
    BY <1>4 DEF T!Exploded
  <2>2. Sent(conf, s, <<>>, "waits", {}) /\ PhaseOK(conf, s, "explode", <<>>)
    BY <1>1, <1>4 DEF T!Exploded
  <2>3. /\ Done(conf, T!Sibling(s, T!Wrapped(s, <<T!Text("braces")>>), FALSE))
        /\ Done(conf, T!Sibling(s, <<T!Text("braces")>>, FALSE))
    BY <2>2, BracesCome
  <2> QED
    BY <2>1, <2>3 DEF TemplateState
<1> QED
  BY <1>2, <1>3, <1>4

\* The handler is called: for the first time, or for the expanded name, or for a
\* template in the text.
LEMMA CallSteps ==
    ASSUME TemplateState(conf, h)
    PROVE  /\ T!OnTemplate => TemplateState(conf, h')
           /\ T!NameExpanded => TemplateState(conf, h')
           /\ T!Nested => TemplateState(conf', h')
<1>1. ASSUME T!OnTemplate PROVE TemplateState(conf, h')
  <2>1. Asked(h) /\ h' = T!onTemplate([h EXCEPT !.call = FALSE])
    BY <1>1, Waited DEF T!OnTemplate
  <2> PICK s : s = [h EXCEPT !.call = FALSE]
    OBVIOUS
  <2>2. Begun(s)
    BY <2>1 DEF Asked, Begun, Silent, Fields
  <2> QED
    BY <2>1, <2>2, OnTemplateKeeps
<1>2. ASSUME T!NameExpanded PROVE TemplateState(conf, h')
  <2>1. NameAsked(h)
    BY <1>2, Waited DEF T!NameExpanded
  <2> PICK s : s = T!Comes(h, "name")
    OBVIOUS
  <2>2. Silent(s) /\ s.pending = {}
    BY <2>1 DEF T!Comes, NameAsked, Silent, Fields
  <2>3. PICK target, generated :
          h' = [s EXCEPT !.call = TRUE, !.token.templatedName = FALSE, !.token.target = target,
                         !.token.hadTemplatedName = generated]
    BY <1>2 DEF T!NameExpanded
  <2>4. Asked(h')
    BY <2>2, <2>3 DEF Asked, Silent, Fields
  <2> QED
    BY <2>4 DEF TemplateState
<1>3. ASSUME T!Nested PROVE TemplateState(conf', h')
  <2>1. PICK token1 : h' = T!NewCall(token1)
    BY <1>3 DEF T!Nested
  <2>2. Asked(h')
    BY <2>1 DEF T!NewCall, Asked, Silent, Fields
  <2> QED
    BY <2>2 DEF TemplateState
<1> QED
  BY <1>1, <1>2, <1>3

\* An argument is looked up, and given or waited for.
LEMMA ArgSteps ==
    ASSUME OtherState(h), h.token.kind # "template", T!Next
    PROVE  OtherState(h')
<1>1. "name" \notin h.pending /\ "attributes" \notin h.pending /\ "params" \notin h.pending
      /\ "source" \notin h.pending /\ "text" \notin h.pending /\ "function" \notin h.pending
      /\ "explode" \notin h.pending /\ DOMAIN h = Fields
  BY DEF OtherState
<1>2. ASSUME NEW s, DOMAIN s = Fields, s.call = FALSE, s.pending = {}, s.final = 0
      PROVE  OtherState(T!lookupArg(s)) /\ OtherState(T!Waits(T!Cb(s, <<>>, TRUE), "argName"))
             /\ \A tokens : OtherState(T!GiveArg(s, tokens))
  <2>1. ASSUME NEW tokens PROVE OtherState(T!Cb(s, tokens, FALSE))
    <3> PICK q : q = T!Cb(s, tokens, FALSE)
      OBVIOUS
    <3>1. Gives(s, q, tokens, "done")
      BY <1>2, CbGives
    <3>2. q.final = 0 + 1
      BY ONLY <1>2, <3>1 DEF Gives, Finals
    <3>3. q.final = 1
      BY ONLY <3>2
    <3> QED
      BY <1>2, <3>1, <3>3 DEF Gives, Same, OtherState
  <2>2. \A tokens : OtherState(T!GiveArg(s, tokens))
    BY <2>1 DEF T!GiveArg
  <2>3. ASSUME NEW what \in {"argName", "default"} PROVE OtherState(T!Waits(T!Cb(s, <<>>, TRUE), what))
    <3> PICK q : q = T!Cb(s, <<>>, TRUE)
      OBVIOUS
    <3>1. Gives(s, q, <<>>, "waits")
      BY <1>2, CbGives
    <3>2. q.final = 0 + 0
      BY ONLY <1>2, <3>1 DEF Gives, Finals
    <3>3. q.final = 0
      BY ONLY <3>2
    <3> PICK r : r = T!Waits(q, what)
      OBVIOUS
    <3>4. DOMAIN q = Fields /\ q.call = FALSE /\ q.pending = {}
      BY <1>2, <3>1 DEF Gives, Same
    <3>5. DOMAIN r = Fields /\ r.call = FALSE /\ r.pending = {what} /\ r.final = 0
      BY <3>3, <3>4 DEF T!Waits, Fields
    <3> QED
      BY <3>5 DEF OtherState
  <2> QED
    BY <2>2, <2>3 DEF T!lookupArg
<1>3. CASE T!OnTemplateArg
  <2> PICK s : s = [h EXCEPT !.call = FALSE]
    OBVIOUS
  <2>1. DOMAIN s = Fields /\ s.call = FALSE /\ s.pending = {} /\ s.final = 0
    BY <1>3 DEF T!OnTemplateArg, OtherState, Fields
  <2>2. h' = IF h.token.stringName THEN T!lookupArg(s) ELSE T!Waits(T!Cb(s, <<>>, TRUE), "argName")
    BY <1>3 DEF T!OnTemplateArg
  <2> QED
    BY <1>2, <2>1, <2>2
<1>4. ASSUME NEW what \in {"argName", "default"}, what \in h.pending
      PROVE  /\ DOMAIN T!Comes(h, what) = Fields /\ T!Comes(h, what).call = FALSE
             /\ T!Comes(h, what).pending = {} /\ T!Comes(h, what).final = 0
  BY <1>4 DEF OtherState, T!Comes, Fields
<1>5. CASE T!ArgNameExpanded
  <2> PICK s : s = T!Comes(h, "argName")
    OBVIOUS
  <2>1. h' = T!lookupArg(s) /\ "argName" \in h.pending
    BY <1>5 DEF T!ArgNameExpanded
  <2> QED
    BY <1>2, <1>4, <2>1
<1>6. CASE T!DefaultExpanded
  <2> PICK s : s = T!Comes(h, "default")
    OBVIOUS
  <2>1. h' = T!GiveArg(s, <<T!Text("default")>>) /\ "default" \in h.pending
    BY <1>6 DEF T!DefaultExpanded
  <2> QED
    BY <1>2, <1>4, <2>1
<1>7. CASE T!GetArgInfo \/ T!ResolveTarget
  <2>1. h.call /\ \E out : h' = [h EXCEPT !.call = FALSE, !.final = 1, !.out = out]
    BY <1>7, Zenon DEF T!GetArgInfo, T!ResolveTarget
  <2> QED
    BY <2>1 DEF OtherState, Fields
<1> QED
  BY <1>1, <1>3, <1>5, <1>6, <1>7
     DEF T!Next, T!OnTemplate, T!NameExpanded, T!AttributesExpanded, T!ParamsExpanded, T!SourceArrives,
         T!OnChunk, T!OnEnd, T!FunctionAnswers, T!Exploded, T!Nested

-----------------------------------------------------------------------------
(* The theorem: whole in its wrapper *)

LEMMA WrapperStepKeeps ==
    ASSUME WrapperInv, part = "transclusion", part' = part, T!Next, h'.token.kind = h.token.kind
    PROVE  WrapperInv'
<1>1. CASE h.token.kind # "template"
  <2>1. OtherState(h')
    BY <1>1, ArgSteps DEF WrapperInv
  <2> QED
    BY <1>1, <2>1 DEF WrapperInv
<1>2. CASE h.token.kind = "template"
  <2>1. TemplateState(conf, h)
    BY <1>2 DEF WrapperInv
  <2>2. h.pending \subseteq Phases \cup {"params", "name"}
    BY <2>1, Waited
  <2>3. ~T!OnTemplateArg /\ ~T!ArgNameExpanded /\ ~T!DefaultExpanded /\ ~T!GetArgInfo /\ ~T!ResolveTarget
    BY <1>2, <2>2 DEF T!OnTemplateArg, T!ArgNameExpanded, T!DefaultExpanded, T!GetArgInfo, T!ResolveTarget, Phases
  <2>4. CASE T!OnTemplate \/ T!NameExpanded \/ T!Nested
    <3>1. (T!OnTemplate \/ T!NameExpanded) => conf' = conf
      BY DEF T!OnTemplate, T!NameExpanded
    <3>2. TemplateState(conf', h')
      BY <2>1, <2>4, <3>1, CallSteps
    <3> QED
      BY <1>2, <3>2 DEF WrapperInv
  <2>5. CASE T!SourceArrives \/ T!OnChunk \/ T!OnEnd
    <3>1. conf' = conf
      BY <2>5 DEF T!SourceArrives, T!OnChunk, T!OnEnd
    <3>2. TemplateState(conf', h')
      BY <2>1, <2>5, <3>1, TextSteps
    <3> QED
      BY <1>2, <3>2 DEF WrapperInv
  <2>6. CASE T!AttributesExpanded \/ T!FunctionAnswers \/ T!Exploded
    <3>1. conf' = conf
      BY <2>6 DEF T!AttributesExpanded, T!FunctionAnswers, T!Exploded
    <3>2. TemplateState(conf', h')
      BY <2>1, <2>6, <3>1, AnswerSteps
    <3> QED
      BY <1>2, <3>2 DEF WrapperInv
  <2>7. CASE T!ParamsExpanded
    <3>1. conf' = conf /\ "params" \in h.pending /\ h' = T!Child(T!Comes(h, "params"), <<T!Start(h.id)>>, FALSE)
      BY <2>7 DEF T!ParamsExpanded
    <3>2. TemplateState(conf', h')
      BY <2>1, <3>1, ParamsCome
    <3> QED
      BY <1>2, <3>2 DEF WrapperInv
  <2> QED
    BY <2>3, <2>4, <2>5, <2>6, <2>7 DEF T!Next
<1> QED
  BY <1>1, <1>2

\* What stands between two markers.
LEMMA WrappedReads ==
    ASSUME NEW id \in Nat, NEW body \in Seq(Words), NEW out, out = <<T!Start(id)>> \o body \o <<T!End(id)>>
    PROVE  /\ Head(out) = T!Start(id) /\ out[Len(out)] = T!End(id)
           /\ \A i \in 2..Len(out) - 1 : out[i][1] \notin {"start", "end"}
           /\ T!Fragment \notin T!Range(out)
<1>1. <<T!Start(id)>> \in Seq(Piece) /\ <<T!End(id)>> \in Seq(Piece) /\ body \in Seq(Piece)
  BY PiecesAre
<1>2. PICK p, q, w : p = <<T!Start(id)>> /\ q = <<T!End(id)>> /\ w = p \o body
  OBVIOUS
<1>3. /\ Head(out) = T!Start(id) /\ out[Len(out)] = T!End(id)
      /\ \A i \in 2..Len(out) - 1 : i - 1 \in DOMAIN body /\ out[i] = body[i - 1]
  <2>1. /\ p \in Seq(Piece) /\ Len(p) = 1 /\ p[1] = T!Start(id)
        /\ q \in Seq(Piece) /\ Len(q) = 1 /\ q[1] = T!End(id)
    BY <1>1, <1>2
  <2>2. /\ w \in Seq(Piece) /\ Len(w) = Len(body) + 1 /\ w[1] = p[1]
        /\ \A i \in 2..Len(w) : i - 1 \in DOMAIN body /\ w[i] = body[i - 1]
    BY <1>1, <1>2, <2>1
  <2>3. /\ out = w \o q /\ out \in Seq(Piece) /\ Len(out) = Len(w) + 1 /\ out[Len(out)] = q[1]
        /\ \A i \in 1..Len(w) : out[i] = w[i]
    BY <1>2, <2>1, <2>2
  <2>4. Len(body) \in Nat
    OBVIOUS
  <2>5. Head(out) = out[1]
    BY <2>3
  <2> QED
    BY <2>1, <2>2, <2>3, <2>4, <2>5
<1>4. \A i \in DOMAIN body : body[i][1] \notin {"start", "end", "fragment"}
  <2> TAKE i \in DOMAIN body
  <2>1. body[i] \in Words
    OBVIOUS
  <2> QED
    BY <2>1 DEF Words
<1>5. ASSUME NEW i \in DOMAIN out PROVE out[i][1] # "fragment"
  <2>1. out \in Seq(Piece) /\ Len(out) \in Nat /\ i \in 1..Len(out) /\ Head(out) = out[1]
    BY <1>1, <1>2
  <2>2. CASE i \in {1, Len(out)}
    BY <1>3, <2>1, <2>2 DEF T!Start, T!End
  <2>3. CASE i \in 2..Len(out) - 1
    BY <1>3, <1>4, <2>3
  <2> QED
    BY <2>1, <2>2, <2>3
<1>6. T!Fragment \notin T!Range(out)
  BY <1>5 DEF T!Range, T!Fragment, T!Text
<1> QED
  BY <1>3, <1>4, <1>6

LEMMA AnswerIsWhole ==
    ASSUME TemplateState(conf, h), h.final = 1, conf.expandTemplates, conf.fetchTemplates, ~GivenUp(conf, h.out),
           Head(h.out) \notin Unwrapped, conf.toplevel \/ Head(h.out) # T!Text("cell"),
           h.out # <<T!Fragment>>
    PROVE  h.id \in Nat /\ \E body \in Seq(Words) : h.out = <<T!Start(h.id)>> \o body \o <<T!End(h.id)>>
<1>1. Done(conf, h)
  <2>1. ~Asked(h) /\ ~NameAsked(h) /\ ~Stopped(h)
    BY DEF Asked, NameAsked, Stopped, Silent
  <2>2. ~UnderWay(conf, h)
    BY DEF UnderWay, Sent, Delivered, Finals
  <2> QED
    BY <2>1, <2>2 DEF TemplateState
<1>2. PICK w : Sent(conf, h, w, "done", {}) /\ Ending(conf, h, w)
  BY <1>1 DEF Done
<1>3. h.id \in Nat /\ w \in Seq(Piece)
  BY <1>2 DEF Sent
<1>4. CASE h.acc = <<>> /\ h.out = w
  BY <1>2, <1>3, <1>4 DEF Ending, RightAnswer
<1>5. CASE h.acc # <<>> /\ h.out = <<T!Start(h.id)>> \o w
  <2>1. <<T!Start(h.id)>> \in Seq(Piece) /\ <<T!End(h.id)>> \in Seq(Piece)
    BY <1>3, PiecesAre
  <2>2. ~GivenUp(conf, w)
    <3>1. \A i \in DOMAIN w : i + 1 \in DOMAIN h.out /\ h.out[i + 1] = w[i]
      BY <1>3, <1>5, <2>1
    <3>2. T!Range(w) \subseteq T!Range(h.out)
      BY <3>1 DEF T!Range
    <3> QED
      BY <3>2 DEF GivenUp
  <2>3. PICK body \in Seq(Words) : w = body \o <<T!End(h.id)>>
    BY <1>2, <1>5, <2>2 DEF Ending
  <2>4. body \in Seq(Piece)
    BY PiecesAre
  <2>5. \A p, q, r \in Seq(Piece) : p \o (q \o r) = p \o q \o r
    OBVIOUS
  <2>6. <<T!Start(h.id)>> \o (body \o <<T!End(h.id)>>) = <<T!Start(h.id)>> \o body \o <<T!End(h.id)>>
    BY <2>1, <2>4, <2>5
  <2>7. h.out = <<T!Start(h.id)>> \o body \o <<T!End(h.id)>>
    BY ONLY <1>5, <2>3, <2>6, Zenon
  <2> QED
    BY <1>3, <2>7
<1>6. \/ h.acc = <<>> /\ h.out = w
      \/ h.acc # <<>> /\ h.out = <<T!Start(h.id)>> \o w
  <2>1. Delivered(conf, h, w, "done")
    BY <1>2 DEF Sent
  <2>2. \A a : <<a>> # <<>>
    OBVIOUS
  <2>3. h.final = 1 /\ conf.fetchTemplates
    OBVIOUS
  <2> QED
    BY ONLY <2>1, <2>2, <2>3, 0 # 1, Zenon DEF Delivered
<1> QED
  BY <1>4, <1>5, <1>6

LEMMA WholeAndOnce ==
    ASSUME WrapperInv, part = "transclusion"
    PROVE  T!WholeInWrapper /\ T!AnsweredOnce
<1>1. CASE h.token.kind = "template"
  <2>1. TemplateState(conf, h)
    BY <1>1 DEF WrapperInv
  <2>2. T!WholeInWrapper
    <3> SUFFICES ASSUME h.final = 1, conf.expandTemplates, ~T!Failed,
                        Head(h.out) \notin {T!Text("meta"), T!Text("braces"), T!Text("error")},
                        conf.toplevel \/ Head(h.out) # T!Text("cell"), h.out # <<T!Fragment>>
                 PROVE  /\ Head(h.out) = T!Start(h.id) /\ T!Last(h.out) = T!End(h.id)
                        /\ \A i \in 2..Len(h.out) - 1 : h.out[i][1] \notin {"start", "end"}
                        /\ T!Fragment \notin T!Range(h.out)
      <4>1. h.out = <<T!Fragment>> => T!Fragment \in T!Range(h.out)
        BY DEF T!Range
      <4> QED
        BY <4>1 DEF T!WholeInWrapper, T!Failed
    <3>1. conf.fetchTemplates /\ ~GivenUp(conf, h.out) /\ Head(h.out) \notin Unwrapped
      BY DEF T!Failed, GivenUp, Unwrapped
    <3>2. h.id \in Nat /\ \E body \in Seq(Words) : h.out = <<T!Start(h.id)>> \o body \o <<T!End(h.id)>>
      BY <2>1, <3>1, AnswerIsWhole
    <3> QED
      BY <3>2, WrappedReads DEF T!Last
  <2>3. T!AnsweredOnce
    <3>1. Asked(h) \/ NameAsked(h) \/ Stopped(h) => h.final = 0
      BY DEF Asked, NameAsked, Stopped, Silent
    <3>2. UnderWay(conf, h) => h.final = 0
      BY DEF UnderWay, Sent, Delivered, Finals
    <3>3. Done(conf, h) => h.final \in {0, 1} /\ (h.final = 1 => h.pending = {} /\ ~h.call)
      <4> SUFFICES ASSUME NEW w, Sent(conf, h, w, "done", {})
                   PROVE  h.final \in {0, 1} /\ (h.final = 1 => h.pending = {} /\ ~h.call)
        BY DEF Done
      <4>1. h.pending \ {"params"} = {} /\ h.call = FALSE /\ Delivered(conf, h, w, "done")
        BY DEF Sent
      <4>2. h.final = 0 \/ (h.final = 1 /\ "params" \notin h.pending)
        BY <4>1 DEF Delivered, Finals
      <4>3. "params" \notin h.pending => h.pending = {}
        BY <4>1
      <4> QED
        BY <4>1, <4>2, <4>3
    <3> QED
      BY <2>1, <3>1, <3>2, <3>3 DEF TemplateState, T!AnsweredOnce
  <2> QED
    BY <2>2, <2>3
<1>2. CASE h.token.kind # "template"
  <2>1. OtherState(h)
    BY <1>2 DEF WrapperInv
  <2> QED
    BY <1>2, <2>1 DEF OtherState, T!WholeInWrapper, T!AnsweredOnce
<1> QED
  BY <1>1, <1>2

LEMMA MarkersArePairs == AttributesInv /\ part = "attributes" => A!MarkersArePaired
<1> SUFFICES ASSUME AttributesInv, part = "attributes", given # <<>>, token.attribs # given.attribs
             PROVE  Paired(given.meta \o given.content)
  BY DEF A!MarkersArePaired, Paired, AreCalls
<1> QED
  BY DEF AttributesInv, GivenIs, BuiltIs

\* What a template made stands between one start and one end marker, whatever comes
\* late, twice in the text, from the cache or not at all; its caller is told once that
\* it is complete; and the markers a tag's attributes leave are pairs.
THEOREM AnswersAreWhole == Spec => []WholeInWrapper
<1>1. FramesInv /\ WrapperInv /\ [Next]_vars => FramesInv' /\ WrapperInv'
  <2> SUFFICES ASSUME FramesInv, WrapperInv, [Next]_vars, part' = "transclusion" PROVE FramesInv' /\ WrapperInv'
    BY DEF FramesInv, WrapperInv
  <2>1. part = "transclusion" /\ (T!Next \/ UNCHANGED <<conf, h>>)
    BY DEF Next, PipelinesStep, TransclusionStep, AttributesStep, vars, transclusionVars
  <2>2. CASE T!Next
    BY <2>1, <2>2, TransclusionStepKeeps, WrapperStepKeeps
  <2>3. CASE UNCHANGED <<conf, h>>
    <3>1. conf' = conf /\ h' = h
      BY <2>3
    <3>2. WrapperInv'
      BY <2>1, <3>1 DEF WrapperInv
    <3> QED
      BY <2>1, <3>1, <3>2 DEF FramesInv, PathOK, TokenOK, Fetching, Allowed, T!NoEndlessInclusion, T!Depth
  <2> QED
    BY <2>1, <2>2, <2>3
<1>2. AttributesInv /\ [Next]_vars => AttributesInv'
  BY AttributesGoOn
<1>3. WrapperInv /\ AttributesInv => WholeInWrapper
  BY WholeAndOnce, MarkersArePairs DEF WholeInWrapper
<1> QED
  BY <1>1, <1>2, <1>3, FramesStart, WrapperStart, AttributesStart, PTL DEF Spec
=============================================================================
