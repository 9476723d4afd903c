--------------------------- MODULE MCPlanExecution ---------------------------
(* Instances of PlanExecution for TLC.                                       *)
EXTENDS PlanExecution

Wirings == {w \in [1..3 -> SUBSET (1..3)] : \A t \in 1..3 : t \notin w[t]}

\* Tasks of these kinds, wired in every way of a set; a calculation and a
\* capability take everything they depend on as an input.
Wired(kinds, wirings) ==
    {[kind |-> k, depends |-> w,
      inputs |-> [t \in 1..3 |-> IF k[t] \in Structured THEN {} ELSE w[t]]] :
        k \in kinds, w \in wirings}

\* The first task depends on nothing: as a structured task it waits for
\* nothing anyway.
Rooted == {w \in Wirings : w[1] = {}}

CrossGraphs == Wired({<<"cross", "calculate", "capability">>}, Rooted)
FusedGraphs == Wired({<<"fusible", "ranked", "calculate">>, <<"ranked", "ranked", "capability">>},
                     Rooted)
MixedGraphs == Wired({<<"lone", "calculate", "capability">>, <<"capability", "ranked", "calculate">>},
                     Wirings)

AllGraphs == CrossGraphs \cup FusedGraphs \cup MixedGraphs

AllFaults == FaultKinds
=============================================================================
