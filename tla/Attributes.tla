------------------------------- MODULE Attributes -------------------------------
(***************************************************************************)
(* The expansion of the attributes of one token: AttributeTransformManager *)
(* of lib/wt2html/TokenTransformManager.js, which expands keys and values  *)
(* on their own and in any order, and AttributeExpander of                 *)
(* lib/wt2html/tt/AttributeExpander.js, which tells what is an attribute   *)
(* from what is content of a table that a template began in the middle of  *)
(* a tag, and marks what templates gave.                                   *)
(*                                                                         *)
(* A token of an expanded key or value is its kind and a number: text      *)
(* ("s"), text with an equals sign ("eq"), a newline, a DOM fragment, or   *)
(* the marker of the start or the end of transclusion n.                   *)
(***************************************************************************)
EXTENDS Integers, Sequences, FiniteSets, SequencesExt

CONSTANTS
    Expansions,   \* what a key or a value may become: sequences of tokens
    MaxAttributes, \* attributes of a token
    MaxExpanded    \* keys and values of it that are expanded

VARIABLES
    token,       \* the tag: its kind and, per attribute, key and value
    pending,     \* expansions under way, by attribute and side
    expandedKVs, \* those that have come, in the order they came
    given        \* what the handler's callback was given, or <<>>

vars == <<token, pending, expandedKVs, given>>

Kind(t) == t[1]
Content == {"s", "eq", "nl", "fragment"}
Has(kind, tokens) == \E i \in DOMAIN tokens : Kind(tokens[i]) = kind
\* Those of some kinds, in order.
Keep(s, t) == IF Kind(t) \in s.kinds THEN [s EXCEPT !.kept = Append(@, t)] ELSE s
Only(kinds, tokens) == FoldLeft(Keep, [kinds |-> kinds, kept |-> <<>>], tokens).kept

\* A key or a value: a string, or an array of tokens.
Str(tokens) == [string |-> TRUE, tokens |-> tokens]
Arr(tokens) == [string |-> FALSE, tokens |-> tokens]

\* What a key or a value may become: transclusions, one after the other, each between
\* its markers.  The tokenizer lets no newline into an attribute, so that one that
\* comes after a marker comes from a transclusion.
IsExpansion(tokens) ==
    LET starts == Only({"start"}, tokens)
        ends == Only({"end"}, tokens)
    IN  /\ tokens \in Seq((Content \cup {"start", "end"}) \X Nat)
        /\ Len(starts) = Len(ends) /\ \A i \in DOMAIN starts : ends[i][2] = starts[i][2]
        /\ \A p \in DOMAIN tokens :
              Kind(tokens[p]) = "nl" /\ (\E n \in 1..p : Kind(tokens[n]) = "start") =>
                Len(Only({"start"}, SubSeq(tokens, 1, p - 1))) = Len(Only({"end"}, SubSeq(tokens, 1, p - 1))) + 1

-----------------------------------------------------------------------------
\* AttributeExpander.onToken: the tokens whose attributes it looks at.
Expands(tk) == tk.kind \in {"tag", "table", "template"}
Sides == {"k", "v"}
NeedsExpansion(tk) ==
    {at \in (DOMAIN tk.attribs) \X Sides : ~tk.attribs[at[1]][at[2]].string}

\* AttributeTransformManager.process
OnToken ==
    /\ given = <<>> /\ pending = {} /\ expandedKVs = <<>>
    /\ Expands(token) /\ NeedsExpansion(token) # {}
    /\ pending' = NeedsExpansion(token)
    /\ UNCHANGED <<token, expandedKVs, given>>

\* Nothing to expand: the token itself.
PassToken ==
    /\ given = <<>> /\ pending = {} /\ expandedKVs = <<>>
    /\ ~Expands(token) \/ NeedsExpansion(token) = {}
    /\ given' = [meta |-> <<>>, attribs |-> token.attribs, content |-> <<>>, marked |-> FALSE]
    /\ UNCHANGED <<token, pending, expandedKVs>>

\* What the handler relies on: at most one key or value of a token brings content
\* with it, in a transclusion; markers are made outside of templates only.
Possible(tokens) ==
    /\ Has("nl", tokens) => \A i \in DOMAIN expandedKVs : ~Has("nl", expandedKVs[i].tokens)
    /\ token.inTemplate => ~Has("start", tokens)

\* One key or value has been expanded (Frame.expand).
Expanded ==
    /\ \E at \in pending, tokens \in Expansions :
        /\ Possible(tokens)
        /\ pending' = pending \ {at}
        /\ expandedKVs' = Append(expandedKVs, [index |-> at[1], side |-> at[2], tokens |-> tokens])
    /\ UNCHANGED <<token, given>>

\* getNewKVs: what was expanded, in its place.
AddKV(kvs, e) == [kvs EXCEPT ![e.index][e.side] = Arr(e.tokens)]
\* Mistake: an expansion that comes late is put where the last one was.
getNewKVsLate(attribs) ==
    FoldLeft(AddKV, attribs, [i \in DOMAIN expandedKVs |->
        [expandedKVs[i] EXCEPT !.index = expandedKVs[1].index]])

getNewKVs(attribs) == FoldLeft(AddKV, attribs, expandedKVs)

-----------------------------------------------------------------------------
\* nlTkIndex: a newline in the attributes of a wikitext table ends them.
nlTkOkay == token.kind # "table"
nlTkIndex(tokens) ==
    IF nlTkOkay THEN 0 ELSE SelectInSeq(tokens, LAMBDA t : Kind(t) = "nl")

\* splitTokens: the marker of the transclusion that has the newline goes before the
\* token, and what follows the newline after it.
wrapTemplates == ~token.inTemplate
\* Mistake: the first transclusion is taken for the one that has the newline.
splitTokensAtFirst(tokens, pos) ==
    LET before == SubSeq(tokens, 1, pos - 1)
        starts == Only({"start"}, before)
    IN  IF wrapTemplates /\ starts # <<>>
        THEN [meta |-> <<Head(starts)>>, tokens |-> before,
              content |-> SubSeq(tokens, pos, Len(tokens)), generated |-> FALSE]
        ELSE [meta |-> <<>>, tokens |-> tokens, content |-> <<>>, generated |-> FALSE]

splitTokens(tokens, pos) ==
    LET before == SubSeq(tokens, 1, pos - 1)
        starts == Only({"start"}, before)
    IN  IF wrapTemplates /\ starts # <<>>
        THEN [meta |-> <<Last(starts)>>, tokens |-> before,
              content |-> SubSeq(tokens, pos, Len(tokens)), generated |-> FALSE]
        ELSE [meta |-> <<>>, tokens |-> tokens, content |-> <<>>, generated |-> FALSE]

\* stripMetaTags: the markers go, and whether there was something a template or an
\* extension made is remembered.
stripMetaTags(tokens) ==
    [meta |-> <<>>, content |-> <<>>,
     tokens |-> Only(Content, tokens),
     generated |-> \E i \in DOMAIN tokens :
        Kind(tokens[i]) = "fragment" \/ (wrapTemplates /\ Kind(tokens[i]) = "start")]

SplitOrStrip(tokens) ==
    LET pos == nlTkIndex(tokens)
    IN  IF pos # 0 THEN splitTokens(tokens, pos) ELSE stripMetaTags(tokens)

\* A key that became text with an equals sign, and no value: attributes to be
\* parsed anew.  The strings of the array count, its markers do not.
Reparses(old, split) ==
    /\ old.v = Str(<<>>) /\ ~token.standalone
    /\ Has("eq", split.tokens)
Reparsed(tokens) ==
    LET text == Only({"s", "eq"}, tokens)
    IN  [i \in 1..Len(Only({"eq"}, text)) |-> [k |-> Str(<<Only({"eq"}, text)[i]>>), v |-> Str(text)]]

-----------------------------------------------------------------------------
\* buildExpandedAttrsG: one attribute after the other.
NoSplit == [meta |-> <<>>, tokens |-> <<>>, content |-> <<>>, generated |-> FALSE]
NothingBuilt == [attribs |-> <<>>, meta |-> <<>>, content |-> <<>>, marked |-> FALSE]
Build(s, attrib) ==
    LET old == attrib.old
        new == attrib.new
        splitsK == ~old.k.string
        k == IF splitsK THEN SplitOrStrip(new.k.tokens) ELSE NoSplit
        reparses == splitsK /\ Reparses(old, k)
        key == IF splitsK THEN Arr(k.tokens) ELSE new.k
        splitsV == (new.k.string \/ reparses) /\ ~old.v.string
        v == IF splitsV THEN SplitOrStrip(new.v.tokens) ELSE NoSplit
        value == IF splitsV THEN Arr(v.tokens) ELSE new.v
        splitAt == IF splitsV THEN v ELSE k
        split == (splitsK \/ splitsV) /\ splitAt.meta \o splitAt.content # <<>>
        meta == IF split THEN splitAt.meta ELSE s.meta
    IN  [attribs |-> s.attribs \o (IF reparses THEN Reparsed(k.tokens) ELSE <<[k |-> key, v |-> value]>>),
         meta |-> meta,
         content |-> IF split THEN splitAt.content ELSE s.content,
         marked |-> s.marked \/ k.generated \/ v.generated \/ (reparses /\ meta # <<>>)]

buildExpandedAttrs(old, new) ==
    FoldLeft(Build, NothingBuilt, [i \in DOMAIN old |-> [old |-> old[i], new |-> new[i]]])

\* The promise of all expansions is fulfilled.  A token that has an about is wrapped
\* already; a template token is marked for its own handler.
AllExpanded ==
    /\ given = <<>> /\ pending = {} /\ expandedKVs # <<>>
    /\ \E built \in {buildExpandedAttrs(token.attribs, getNewKVs(token.attribs))} :
        given' = [built EXCEPT !.marked = @ /\ ~token.about]
    /\ UNCHANGED <<token, pending, expandedKVs>>

-----------------------------------------------------------------------------
Shapes == [k : BOOLEAN, v : {"none", "string", "tokens"}]
Attribute(shape) ==
    [k |-> IF shape.k THEN Arr(<<>>) ELSE Str(<<<<"s", 0>>>>),
     v |-> CASE shape.v = "none" -> Str(<<>>)
             [] shape.v = "string" -> Str(<<<<"s", 0>>>>)
             [] OTHER -> Arr(<<>>)]
Tags ==
    [kind : {"tag", "table", "template", "other"}, inTemplate : BOOLEAN, about : BOOLEAN,
     standalone : BOOLEAN]

Init ==
    /\ \E tag \in Tags, n \in 1..MaxAttributes : \E shapes \in [1..n -> Shapes] :
        token = [kind |-> tag.kind, inTemplate |-> tag.inTemplate, about |-> tag.about,
                 standalone |-> tag.standalone, attribs |-> [i \in 1..n |-> Attribute(shapes[i])]]
    /\ token.standalone <=> token.kind = "template"
    /\ Cardinality(NeedsExpansion(token)) <= MaxExpanded
    /\ pending = {} /\ expandedKVs = <<>> /\ given = <<>>

Next == OnToken \/ PassToken \/ Expanded \/ AllExpanded

Spec == Init /\ [][Next]_vars /\ WF_vars(Next)

-----------------------------------------------------------------------------
\* The markers around the content a template leaves after the tag are a pair: the
\* start before the tag, the end after, so that the tag is in the wrapper, too.
MarkersArePaired ==
    given # <<>> /\ token.attribs # given.attribs =>
        LET stream == given.meta \o given.content
            starts == Only({"start"}, stream)
            ends == Only({"end"}, stream)
        IN  /\ Len(starts) = Len(ends)
            /\ \A i \in DOMAIN starts : ends[i][2] = starts[i][2]

\* Whatever order the expansions come in, all of their text is there in the end, once,
\* in the attributes or after the tag; only markers go, and only what text with an
\* equals sign is parsed for is attributes of its own.
AddText(text, attrib) == text \o attrib.k.tokens \o attrib.v.tokens
TextOf(attribs) == FoldLeft(AddText, <<>>, attribs)
Times(t, tokens) == Cardinality({i \in DOMAIN tokens : tokens[i] = t})
NothingLost ==
    given # <<>> /\ Expands(token) /\ NeedsExpansion(token) # {} =>
        LET came(i, side) ==
                {n \in DOMAIN expandedKVs : expandedKVs[n].index = i /\ expandedKVs[n].side = side}
            inPlace == [i \in DOMAIN token.attribs |-> [side \in Sides |->
                IF came(i, side) = {} THEN token.attribs[i][side]
                ELSE Arr(expandedKVs[CHOOSE n \in came(i, side) : TRUE].tokens)]]
            reparsed == \E i \in DOMAIN given.attribs :
                            given.attribs[i].k.string /\ Has("eq", given.attribs[i].k.tokens)
        IN  \/ reparsed
            \/ \A t \in Range(TextOf(inPlace)) : Kind(t) \in Content =>
                  Times(t, TextOf(given.attribs) \o given.content) = Times(t, TextOf(inPlace))
=============================================================================
