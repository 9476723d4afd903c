----------------------------- MODULE EngineLeases -----------------------------
(***************************************************************************)
(* What the compute engine catalogue promises a run: the engine it was     *)
(* given stays on offer until the run gives it back, there is always an    *)
(* engine to run on, and a run that gave its engine back stays done.       *)
(***************************************************************************)
CONSTANTS
    Engines,  \* engines that may exist
    Runs,     \* runs that may hold one
    Nobody    \* what a run holds that holds no engine

VARIABLES
    offered,  \* engines a run may be given
    held,     \* the engine every run holds, or Nobody
    done      \* runs that gave theirs back

vars == <<offered, held, done>>

Init ==
    /\ offered \in {{e} : e \in Engines}
    /\ held = [r \in Runs |-> Nobody]
    /\ done = {}

Offer(e) ==
    /\ e \notin offered
    /\ offered' = offered \cup {e}
    /\ UNCHANGED <<held, done>>

Withdraw(e) ==
    /\ e \in offered
    /\ offered # {e}
    /\ \A r \in Runs : held[r] # e
    /\ offered' = offered \ {e}
    /\ UNCHANGED <<held, done>>

Take(r, e) ==
    /\ held[r] = Nobody /\ r \notin done
    /\ e \in offered
    /\ held' = [held EXCEPT ![r] = e]
    /\ UNCHANGED <<offered, done>>

\* One run gives its engine back, or all of them when the process dies.
GiveBack(S) ==
    /\ S # {} /\ \A r \in S : held[r] # Nobody
    /\ held' = [r \in Runs |-> IF r \in S THEN Nobody ELSE held[r]]
    /\ done' = done \cup S
    /\ UNCHANGED offered

Next ==
    \/ \E e \in Engines : Offer(e) \/ Withdraw(e)
    \/ \E r \in Runs, e \in Engines : Take(r, e)
    \/ \E S \in SUBSET Runs : GiveBack(S)

Spec == Init /\ [][Next]_vars
=============================================================================
