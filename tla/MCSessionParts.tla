--------------------------- MODULE MCSessionParts ---------------------------
(***************************************************************************)
(* Three parts of a session that do not depend on when FASB answers, each  *)
(* from its own initial states: the loop over a batch (SelectionLoop), what *)
(* clients have seen of a session they change (SessionReads), and its      *)
(* solution cache (SolutionCache).                                         *)
(***************************************************************************)
EXTENDS SelectionLoop, SessionReads, SolutionCache

CONSTANTS a, b, c, h, z

(* The loop: two actions compete at step 1, a third acts at step 2, an     *)
(* abstract action has no step, and one state facet shares step 1.         *)

MCFacets == {a, b, c, h, z}
MCStepOf == [f \in MCFacets |-> CASE f \in {a, b, h} -> 1
                                  [] f = c -> 2
                                  [] OTHER -> None]
MCPlans == {{a, z}, {a, c, z}, {a, c, h, z}, {b, c}, {b, h}, {c, z}}

Pick(f, s) == [facet |-> f, state |-> s, previous |-> "any"]

(* every batch of one choice, those of two over the facets with a step,   *)
(* and those of three in the orders that make actions compete              *)
MCBatches ==
    LET two == {<<Pick(f, s), Pick(g, t)>> : f, g \in {a, b, c, h}, s, t \in States}
        three == {<<Pick(f[1], s), Pick(f[2], t), Pick(f[3], "positive")>> :
                    f \in {<<a, b, c>>, <<b, a, h>>, <<a, h, b>>, <<b, c, a>>},
                    s, t \in States}
    IN  {<<Pick(f, s)>> : f \in MCFacets, s \in States}
          \cup {p \in two : DistinctFacets(p)} \cup three

-----------------------------------------------------------------------------

VARIABLE part      \* the part that runs

partVars == <<vars, part, readVars, cacheVars>>

Parts == {"loop", "reads", "cache"}

PartsInit ==
    /\ part \in Parts
    /\ Init /\ (part # "loop" => batch = <<Pick(a, "positive")>> /\ before = NoSelections)
    /\ ReadsInit
    /\ CacheInit /\ (part # "cache" => total = 1)

PartsNext ==
    /\ UNCHANGED part
    /\ \/ part = "loop" /\ Next /\ UNCHANGED <<readVars, cacheVars>>
       \/ part = "reads" /\ ReadsNext /\ UNCHANGED <<vars, cacheVars>>
       \/ part = "cache" /\ CacheNext /\ UNCHANGED <<vars, readVars>>

PartsSpec == PartsInit /\ [][PartsNext]_partVars
=============================================================================
