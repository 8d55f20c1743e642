--------------------------- MODULE SelectionStore ---------------------------
(***************************************************************************)
(* What a session promises its clients about their choices (API.md, "Apply *)
(* several selections atomically" and "Every successful change increments  *)
(* selectionRevision"): a batch takes effect as a whole or not at all, one *)
(* revision per batch, and a batch sent against an older revision, or      *)
(* against other previous states, or that no plan satisfies, changes       *)
(* nothing.                                                                *)
(***************************************************************************)
EXTENDS Selections

VARIABLES selections, revision

Init == /\ selections = NoSelections
        /\ revision = 0

Commit(batch) ==
    /\ PreviousStatesHold(selections, batch)
    /\ selections' = UpdatedSelections(selections, batch)
    /\ Models(selections') # {}
    /\ revision' = revision + 1

Next == \E batch \in Batches : Commit(batch)

Spec == Init /\ [][Next]_<<selections, revision>>
=============================================================================
