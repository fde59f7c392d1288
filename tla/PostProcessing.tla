----------------------------- MODULE PostProcessing -----------------------------
(***************************************************************************)
(* DOMPostProcessor: the passes from the tree builder to the document that *)
(* can be edited (DomPasses), and among them the one that makes sections   *)
(* (WrapSections), which has a page of its own: of a page it needs to know *)
(* other things, and reads it step by step.  A behaviour is one of one of  *)
(* the two; the variables of the other keep their initial values.          *)
(***************************************************************************)
EXTENDS WrapSections

CONSTANTS Pages      \* of DomPasses

VARIABLES
    part,
    tokens, tree, pass    \* of DomPasses

passesVars == <<tokens, tree, pass>>

Passes == INSTANCE DomPasses WITH page <- tokens, dom <- tree

PostProcessingInit ==
    /\ Init
    /\ \/ part = "passes" /\ Passes!Init
       \/ part = "sections" /\ tokens = <<>> /\ tree = Passes!EmptyDocument /\ pass = "build"

PassesStep == part = "passes" /\ Passes!Next /\ UNCHANGED <<part, vars>>
SectionsStep == part = "sections" /\ Next /\ UNCHANGED <<part, passesVars>>

PostProcessingSpec ==
    PostProcessingInit /\ [][PassesStep \/ SectionsStep]_<<part, passesVars, vars>>

-----------------------------------------------------------------------------
(* Properties: those of WrapSections, and of the passes *)

\* However the tags of a page and of its templates overlap, every transclusion is
\* wrapped, once, with all of its source, and no pass throws.
EachCallWrappedOnce == Passes!EachCallWrappedOnce

\* The source ranges of the document are the page, each place of it once.
SourceClaimedOnce == Passes!SourceClaimedOnce

-----------------------------------------------------------------------------
(* For TLC: every page of up to two lines of any kind, longer ones of tables, of blocks *)
(* and of lists, and the sections of a page of five nodes.                      *)

\* The domain of Lines of DomPasses.
AllLines ==
    {"text", "inline", "mixed", "nothing", "category", "tplcategory", "div", "enddiv",
     "block", "opens", "closes", "table", "row", "cell", "endtable", "tpltable", "tplrow",
     "tplcell", "double", "attribute", "twocells", "tplend", "tplwhole", "heading", "item",
     "subitem", "htmlitem", "tplitem", "small", "span", "nowrap", "flip", "font", "unclosed", "tplattr"}

\* What a table may have where it has no cell.
InTables == {"text", "tplcategory", "div", "opens", "row", "cell", "tpltable", "tplrow", "tplend", "nowrap"}
InLists == {"item", "subitem", "htmlitem", "tplitem", "category", "tplcategory"}

InBlocks == {"text", "mixed", "div", "enddiv", "opens", "closes", "table", "tplend"}

MCPages ==
    {p \in UNION {[1..n -> AllLines] : n \in 1..2} : p[1] = "unclosed" => Len(p) = 1}
        \cup [1..3 -> InBlocks]
        \cup {<<"table">> \o m : m \in [1..3 -> InTables]}
        \cup {<<"table">> \o m \o <<"endtable">> : m \in [1..3 -> InTables]}
        \cup [1..4 -> InLists]
================================================================================
