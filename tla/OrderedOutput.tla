--------------------------- MODULE OrderedOutput ---------------------------
(***************************************************************************)
(* What the asynchronous stage of the pipeline promises the stage after    *)
(* it: the full expansion of the page, in document order, a piece at a     *)
(* time, and one 'end' event when all of it has been delivered.            *)
(***************************************************************************)
EXTENDS Naturals, Sequences

VARIABLES
    promised,   \* the full expansion of the input
    delivered,  \* what has been emitted in 'chunk' events
    ended       \* the 'end' event has been emitted

Init ==
    /\ delivered = <<>>
    /\ ended = FALSE

\* More of the expansion, and with the last of it perhaps the end.
Deliver ==
    /\ ~ended
    /\ \E n \in Len(delivered)..Len(promised) : delivered' = SubSeq(promised, 1, n)
    /\ ended' \in BOOLEAN
    /\ ended' => delivered' = promised
    /\ UNCHANGED promised

Spec == Init /\ [][Deliver]_<<promised, delivered, ended>>
=============================================================================
