------------------------------ MODULE TreeBuilder ------------------------------
(***************************************************************************)
(* From tokens to a document: HTML5TreeBuilder.js gives each token, and    *)
(* the shadow of each tag, to the HTML parser (domino, external), and      *)
(* prepareDOM.js makes metas of the comments the shadows were passed as.   *)
(* Of the HTML standard the model has what the tags of a page here need:   *)
(* the scopes of end tags, implied table parts, and foster parenting.  It  *)
(* has no list of active formatting elements: a SMALL is closed in the     *)
(* element it was opened in.                                               *)
(*                                                                         *)
(* A token is a kind and the record of the node it may become.             *)
(***************************************************************************)
EXTENDS DomTree

Top(b) == LastOf(b.stack)
TagOf(b, n) == b.d.node[n].tag
Popped(b) == [b EXCEPT !.stack = Front(@)]

\* Open elements up to the last that is in `tags`, with or without it.
UpTo(b, tags) ==
    [b EXCEPT !.stack =
        SubSeq(@, 1, SelectLastInSeq(@, LAMBDA n : TagOf(b, n) \in tags))]
ThroughLast(b, tag) == Popped(UpTo(b, {tag}))

\* The insertion mode is that of the last of these that is open.
TableParts == {"TABLE", "TBODY", "TR", "TD"}
Mode(b) == TagOf(b, Top(UpTo(b, TableParts \cup {"BODY"})))

\* The scope an end tag is looked for in; that of an item ends at its list.
InScope(b, tag) ==
    LET lists == IF tag = "LI" THEN {"UL"} ELSE {}
        scope == UpTo(b, {"BODY", "TABLE", "TD"} \cup lists).stack
    IN  \E i \in Len(scope)..Len(b.stack) : TagOf(b, b.stack[i]) = tag

ClosedP(b) == IF InScope(b, "P") THEN ThroughLast(b, "P") ELSE b

\* Where the standard puts a node: before the table when the open element is
\* a part of the table that has no place for it.
InsertedAt(b, r) ==
    LET table == Top(UpTo(b, {"TABLE"}))
    IN  IF TagOf(b, Top(b)) \in FosterablePosition /\ r.tag \notin TableParts
        THEN Inserted(b.d, r, b.d.up[table], table)
        ELSE Inserted(b.d, r, Top(b), None)

Opened(b, r) ==
    LET d == InsertedAt(b, r) IN [b EXCEPT !.d = d, !.stack = Append(@, Len(d.node))]
Void(b, r) == [b EXCEPT !.d = InsertedAt(b, r)]

\* Comments stay where they are.
Shadowed(b, r) == [b EXCEPT !.d = Inserted(@, r, Top(b), None)]

\* The characters that came one after the other.  In a table whitespace stays;
\* text is put after the text that is there.
Flushed(b) ==
    LET foster == TagOf(b, Top(b)) \in FosterablePosition /\ "x" \in ToSet(b.run)
        table == Top(UpTo(b, {"TABLE"}))
        before == IF foster THEN PreviousSibling(b.d, table) ELSE LastChild(b.d, Top(b))
        d == IF IsText(b.d, before) THEN [b.d EXCEPT !.node[before].data = @ \o b.run]
             ELSE IF foster THEN Inserted(b.d, Text(b.run), b.d.up[table], table)
             ELSE Inserted(b.d, Text(b.run), Top(b), None)
    IN  IF b.run = <<>> THEN b ELSE [b EXCEPT !.d = d, !.run = <<>>]

-----------------------------------------------------------------------------
(* Tags, as the standard has them *)

StartTable(b, r) ==
    LET out == IF Mode(b) \in FosterablePosition THEN ThroughLast(b, "TABLE") ELSE b
    IN  Opened(ClosedP(out), r)

\* Rows and cells: what is open in the part they belong to is closed, and the
\* parts between that the source does not have are implied.  Outside a table
\* the tags are ignored.
WithPart(b, tag) == IF TagOf(b, Top(b)) = tag THEN b ELSE Opened(b, Node(tag))
StartRow(b, r) ==
    IF Mode(b) = "BODY" THEN b
    ELSE Opened(WithPart(UpTo(b, {"TABLE", "TBODY"}), "TBODY"), r)
StartCell(b, r) ==
    LET at == UpTo(b, {"TABLE", "TBODY", "TR"})
    IN  IF Mode(b) = "BODY" THEN b
        ELSE IF TagOf(b, Top(at)) = "TR" THEN Opened(at, r)
        ELSE Opened(WithPart(WithPart(at, "TBODY"), "TR"), r)

\* An item closes the one before, out of blocks that are open in that.
StartItem(b, r) ==
    LET at == UpTo(b, {"BODY", "TABLE", "TBODY", "TR", "TD", "UL", "LI", "H2"})
    IN  Opened(ClosedP(IF TagOf(b, Top(at)) = "LI" THEN Popped(at) ELSE b), r)

StartTag(b, r) ==
    CASE r.tag = "TABLE" -> StartTable(b, r)
      [] r.tag = "TR" -> StartRow(b, r)
      [] r.tag = "TD" -> StartCell(b, r)
      [] r.tag \in {"P", "DIV", "UL", "H2"} -> Opened(ClosedP(b), r)
      [] r.tag = "LI" -> StartItem(b, r)
      [] OTHER -> Opened(b, r)

EndTag(b, tag) ==
    IF tag = "TABLE" THEN IF Mode(b) = "BODY" THEN b ELSE ThroughLast(b, "TABLE")
    ELSE IF InScope(b, tag) THEN ThroughLast(b, tag)
    ELSE IF tag = "P" THEN Popped(Opened(b, Node("P")))
    ELSE b

-----------------------------------------------------------------------------
(* processToken *)

InTable(b) == b.tableDepth > 0

Characters(b, t) ==
    LET c == [b EXCEPT !.run = @ \o t.r.data]
    IN  IF b.inTransclusion /\ InTable(b) /\ t.r.data # <<"n">> /\ ~b.shadow
        THEN [Void(Flushed(c), Meta("TransclusionShadow")) EXCEPT !.shadow = TRUE]
        ELSE c

\* A table that is not of a template gets a foster box before it.
OpenTag(b, t) ==
    LET r == [t.r EXCEPT !.tagId = b.tagId, !.inTransclusion = b.inTransclusion]
        boxed == IF t.r.tag = "TABLE" /\ ~b.inTransclusion
                 THEN StartTag(b, [Node("TABLE") EXCEPT !.type = "FosterBox"]) ELSE b
        shadow == [r EXCEPT !.tag = "META", !.type = "StartTag", !.name = r.tag]
    IN  [Shadowed(StartTag(boxed, r), shadow) EXCEPT
            !.tagId = @ + 1, !.tableDepth = @ + (IF r.tag = "TABLE" THEN 1 ELSE 0)]

\* Void elements have no shadow.
VoidTag(b, t) ==
    [Void(b, [t.r EXCEPT !.tagId = b.tagId, !.inTransclusion = b.inTransclusion]) EXCEPT !.tagId = @ + 1]

CloseTag(b, t) ==
    LET shadow == [t.r EXCEPT !.tag = "META", !.type = "EndTag", !.name = t.r.tag,
                              !.inTransclusion = b.inTransclusion]
    IN  [Shadowed(EndTag(b, t.r.tag), shadow) EXCEPT
            !.tableDepth = @ - (IF t.r.tag = "TABLE" /\ InTable(b) THEN 1 ELSE 0)]

\* The metas of a transclusion, and of the end of a cell, go in as comments.
MetaTag(b, t) ==
    LET in == CASE t.r.type = "Transclusion" -> TRUE
                [] t.r.type = "Transclusion/End" -> FALSE
                [] OTHER -> b.inTransclusion
        r == [t.r EXCEPT !.tagId = b.tagId, !.inTransclusion = b.inTransclusion]
    IN  [Shadowed(b, r) EXCEPT !.tagId = @ + 1, !.inTransclusion = in]

ProcessToken(b, t) ==
    IF t.k = "chars" THEN Characters(b, t)
    ELSE LET c == [Flushed(b) EXCEPT !.shadow = FALSE]
         IN  CASE t.k = "open" -> OpenTag(c, t)
               [] t.k = "void" -> VoidTag(c, t)
               [] t.k = "close" -> CloseTag(c, t)
               [] t.k = "meta" -> MetaTag(c, t)

Document(tokens) ==
    LET start == [d |-> EmptyDocument, stack |-> <<Body>>, run |-> <<>>, tagId |-> 1,
                  inTransclusion |-> FALSE, tableDepth |-> 0, shadow |-> FALSE]
    IN  Flushed(FoldLeft(ProcessToken, start, tokens)).d
================================================================================
