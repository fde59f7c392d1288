--------------------------- MODULE OneAccumulator ---------------------------
(***************************************************************************)
(* One TokenAccumulator, its child, its sibling and its parent: what the   *)
(* parent is given, for any calls the child and the sibling make.  A       *)
(* method runs to its end before the next call comes (one thread); its     *)
(* calls of the parent are steps of their own.                             *)
(***************************************************************************)
EXTENDS TokenAccumulator

CONSTANTS Call,      \* what the child and the sibling may send in one call
          MaxStream  \* bound: tokens the child, and the sibling, may send

ASSUME CallAssumption == \A ret \in Call : ret \in Ret

VARIABLES
    acc,        \* the accumulator
    calls,      \* calls of the parent that the running method has yet to make
    direct,     \* the sibling holds the parent's callback
    childOpen,  \* the child has not made its last call
    sibOpen,    \* nor the sibling
    childIn,    \* tokens the child has sent so far
    sibIn,      \* tokens the sibling has sent so far
    out,        \* tokens the parent has been given
    closed      \* the parent has been told that nothing follows

vars == <<acc, calls, direct, childOpen, sibOpen, childIn, sibIn, out, closed>>

TypeOK ==
    /\ acc \in [waitForChild : BOOLEAN, waitForSibling : BOOLEAN, siblingChunks : Seq(Chunk)]
    /\ calls \in Seq(Ret)
    /\ {direct, childOpen, sibOpen, closed} \subseteq BOOLEAN
    /\ {childIn, sibIn, out} \subseteq Seq(Token)

Init ==
    /\ acc = NewAccumulator
    /\ calls = <<>>
    /\ direct = FALSE
    /\ childOpen = TRUE /\ sibOpen = TRUE
    /\ childIn = <<>> /\ sibIn = <<>> /\ out = <<>>
    /\ closed = FALSE

\* The child calls receiveToksFromChild.
ChildReturns(ret) ==
    /\ calls = <<>>
    /\ childOpen
    /\ Len(childIn \o ret.tokens) <= MaxStream
    /\ LET result == receiveToksFromChild(acc, ret)
       IN  acc' = result.acc /\ calls' = result.calls
    /\ childOpen' = ret.async
    /\ childIn' = childIn \o ret.tokens
    /\ UNCHANGED <<direct, sibOpen, sibIn, out, closed>>

\* The sibling calls receiveToksFromSibling; when it is an accumulator itself
\* it keeps the callback that is returned, other callers ignore it.
SiblingReturns(ret) ==
    /\ calls = <<>>
    /\ sibOpen /\ ~direct
    /\ Len(sibIn \o ret.tokens) <= MaxStream
    /\ LET result == receiveToksFromSibling(acc, ret)
       IN  /\ acc' = result.acc /\ calls' = result.calls
           /\ direct' \in {FALSE, result.direct}
    /\ sibOpen' = ret.async
    /\ sibIn' = sibIn \o ret.tokens
    /\ UNCHANGED <<childOpen, childIn, out, closed>>

\* The sibling calls the parent's callback that it was handed.
SiblingBypasses(ret) ==
    /\ calls = <<>>
    /\ sibOpen /\ direct
    /\ Len(sibIn \o ret.tokens) <= MaxStream
    /\ sibOpen' = ret.async
    /\ sibIn' = sibIn \o ret.tokens
    /\ calls' = <<ret>>
    /\ UNCHANGED <<acc, direct, childOpen, childIn, out, closed>>

\* _callParentCB: one call of the parent.
CallParent ==
    /\ calls # <<>>
    /\ out' = out \o Head(calls).tokens
    /\ closed' = (closed \/ ~Head(calls).async)
    /\ calls' = Tail(calls)
    /\ UNCHANGED <<acc, direct, childOpen, sibOpen, childIn, sibIn>>

Next ==
    \/ \E ret \in Call : ChildReturns(ret) \/ SiblingReturns(ret) \/ SiblingBypasses(ret)
    \/ CallParent

Spec == Init /\ [][Next]_vars

-----------------------------------------------------------------------------
(* Properties *)

\* Between two calls the parent has been given everything the child sent and,
\* once the child is done, everything the sibling sent, in this order: nothing
\* is lost, repeated or reordered, whichever of the two finishes first, however
\* the ranks split the chunks, and whether or not the sibling goes direct.
InOrder ==
    calls = <<>> => out = IF childOpen THEN childIn ELSE childIn \o sibIn

\* The parent is told that nothing follows when both are done, and not before.
ClosedWhenDone ==
    calls = <<>> => (closed <=> ~childOpen /\ ~sibOpen)

\* The parent is not called after it was told that nothing follows.
NoCallAfterClose == [][closed => calls = <<>> /\ UNCHANGED <<out, closed>>]_vars
=============================================================================
