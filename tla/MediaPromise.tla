---------------------------- MODULE MediaPromise ----------------------------
(***************************************************************************)
(* What a media row promises, with no request, no count and no store call  *)
(* in it: how the status shown may move, that ready needs both objects and *)
(* keeps them until the row is hidden, that a hidden row never comes back, *)
(* and that a row goes only with nothing stored and nothing stored later.  *)
(***************************************************************************)
CONSTANT Variants

VARIABLES
    shown,   \* none, the status of a live row, hidden, or gone
    kept     \* the variants the store holds an object for

vars == <<shown, kept>>

Unready == {"pending", "processing", "failed"}
Live    == Unready \cup {"ready"}

TypeOK ==
    /\ shown \in Live \cup {"none", "hidden", "gone"}
    /\ kept \subseteq Variants

Init == shown = "none" /\ kept = {}

Create  == shown = "none" /\ shown' = "pending" /\ UNCHANGED kept
Attempt == shown \in Unready /\ shown' = "processing" /\ UNCHANGED kept
Fail    == shown = "processing" /\ shown' = "failed" /\ UNCHANGED kept

Finish ==
    /\ shown = "processing" /\ kept = Variants
    /\ shown' = "ready" /\ UNCHANGED kept

Keep(v) ==
    /\ shown \in Live \cup {"hidden"}
    /\ kept' = kept \cup {v} /\ UNCHANGED shown

Hide == shown \in Live /\ shown' = "hidden" /\ UNCHANGED kept

Discard ==
    /\ shown = "hidden"
    /\ kept' \in SUBSET kept /\ UNCHANGED shown

Erase == shown = "hidden" /\ kept = {} /\ shown' = "gone" /\ UNCHANGED kept

Next ==
    \/ Create \/ Attempt \/ Fail \/ Finish
    \/ \E v \in Variants : Keep(v)
    \/ Hide \/ Discard \/ Erase

Spec == Init /\ [][Next]_vars
=============================================================================
