--------------------------- MODULE SelectionLoop ---------------------------
(***************************************************************************)
(* The loop of SessionContext._updated_selections, one choice per step.    *)
(* Selections gives its result in closed form; here the loop itself runs   *)
(* over every batch, from every legal set of selections.                   *)
(***************************************************************************)
EXTENDS Selections

VARIABLES before,   \* current: the selections the batch is applied to
          batch,    \* selections: the choices, in the order of the request
          done,     \* how many of them the loop has handled
          updated   \* the dict that the loop builds

vars == <<before, batch, done, updated>>

TypeOK == /\ before \in Selections
          /\ batch \in Batches
          /\ done \in 0..Len(batch)
          /\ updated \in Selections

Init == /\ before \in {sel \in Selections : OnePositivePerStep(sel)}
        /\ batch \in Batches
        /\ done = 0
        /\ updated = before

Handle == /\ done < Len(batch)
          /\ done' = done + 1
          /\ updated' = LET choice == batch[done + 1]
                        IN  Updated(updated, choice.facet, choice.state)
          /\ UNCHANGED <<before, batch>>

Next == Handle

Spec == Init /\ [][Next]_vars

-----------------------------------------------------------------------------
(* After k passes the dict is the closed form of the first k choices, so   *)
(* the loop over the whole batch returns what UpdatedSelections says.      *)
LoopMeetsClosedForm ==
    updated = UpdatedSelections(before, SubSeq(batch, 1, done))

(* No pass leaves two positive actions at one fixed timestep, whatever the *)
(* batch repeats or reverses (test_session_lifecycle.py:104).              *)
NeverTwoPositives == OnePositivePerStep(updated)

(* selectionImpact reports the sum of the two routes as the size of the    *)
(* current plan space when it calls them comparable; every plan then takes *)
(* exactly one of the two routes.                                          *)
ImpactPartitions ==
    \A f \in Facets :
        Comparable(updated, f) =>
            CountModels(RequireRoute(updated, f))
              + CountModels(ForbidRoute(updated, f)) = CountModels(updated)
=============================================================================
