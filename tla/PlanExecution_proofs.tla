------------------------ MODULE PlanExecution_proofs ------------------------
(***************************************************************************)
(* Proofs about PlanExecution for every set of well-formed graphs, every   *)
(* size of the thread pool and every combination of faults.                *)
(***************************************************************************)
EXTENDS PlanExecution, WellFoundedInduction, TLAPS

-----------------------------------------------------------------------------
(* The plan derived from a graph is acyclic: every dependency goes to a      *)
(* fragment of smaller rank.                                                 *)

Rank(f) == CASE f[2] = "task" -> 2 + f[1]
             [] f[2] \in {"compute", "post"} -> 2
             [] f[2] = "exchange" -> 1
             [] OTHER -> 0

\* The result of a task is a fragment of the task, and its rank says what the
\* task is: at most 2 for a structured task, 2 + t for a capability.
LEMMA ResultRanked ==
    ASSUME NEW g \in Graphs, NEW t \in Tasks
    PROVE  /\ ResultOf(g, t) \in FragmentsOf(g, t)
           /\ g.kind[t] \in Structured => Rank(ResultOf(g, t)) \in 0..2
           /\ g.kind[t] \notin Structured => Rank(ResultOf(g, t)) = 2 + t
<1>1. /\ WellFormed(g)
      /\ g.kind[t] \in Kinds
    BY ConstantsOK DEF WellFormed
<1>2. t \in FusedTasks(g) => g.kind[t] \in {"fusible", "ranked"}
    BY DEF FusedTasks, Fusible
<1>3. CASE t \in FusedTasks(g) /\ g.kind[t] = "fusible"
    BY <1>3 DEF ResultOf, FragmentsOf, FusedFragment, Rank, Structured
<1>4. CASE t \in FusedTasks(g) /\ g.kind[t] = "ranked"
    BY <1>4 DEF ResultOf, FragmentsOf, Rank, Structured
<1>5. CASE g.kind[t] = "cross"
    BY <1>2, <1>5 DEF ResultOf, FragmentsOf, CrossFragments, Rank, Structured
<1>6. CASE g.kind[t] \in {"calculate", "capability"}
    BY <1>2, <1>6 DEF ResultOf, FragmentsOf, Rank, Structured, Tasks
<1>7. CASE t \notin FusedTasks(g) /\ g.kind[t] \in {"lone", "fusible", "ranked"}
    BY <1>7 DEF ResultOf, FragmentsOf, Rank, Structured
<1> QED BY <1>1, <1>2, <1>3, <1>4, <1>5, <1>6, <1>7 DEF Kinds, Structured

\* Every fragment has one of the shapes of _physical.
LEMMA FragmentShapes ==
    ASSUME NEW g \in Graphs, NEW t \in Tasks, NEW f \in FragmentsOf(g, t)
    PROVE  \/ f = FusedFragment(g) /\ t \in FusedTasks(g)
           \/ f = <<t, "post", 0>> /\ t \in FusedTasks(g)
           \/ g.kind[t] = "cross" /\ \E i \in Sides : f = <<t, "source", i>>
           \/ g.kind[t] = "cross" /\ \E i \in Sides : f = <<t, "exchange", i>>
           \/ g.kind[t] = "cross" /\ f = <<t, "compute", 0>>
           \/ f = <<t, "task", 0>>
           \/ f = <<t, "query", 0>>
<1>1. t \in FusedTasks(g) => g.kind[t] \in {"fusible", "ranked"}
    BY DEF FusedTasks, Fusible
<1>2. CASE t \in FusedTasks(g)
    BY <1>1, <1>2 DEF FragmentsOf
<1>3. CASE t \notin FusedTasks(g) /\ g.kind[t] = "cross"
    BY <1>3 DEF FragmentsOf, CrossFragments
<1>4. CASE t \notin FusedTasks(g) /\ g.kind[t] # "cross"
    BY <1>4 DEF FragmentsOf
<1> QED BY <1>2, <1>3, <1>4

LEMMA PlanRanked ==
    ASSUME NEW g \in Graphs, NEW f \in NodesOf(g)
    PROVE  /\ Rank(f) \in Nat
           /\ \A d \in Depends(g, f) : d \in NodesOf(g) /\ Rank(d) < Rank(f)
<1>1. PICK t \in Tasks : f \in FragmentsOf(g, t)
    BY DEF NodesOf
<1>2. CASE f = FusedFragment(g) /\ t \in FusedTasks(g)
    BY <1>2 DEF FusedFragment, Rank, Depends
<1>3. CASE f = <<t, "post", 0>> /\ t \in FusedTasks(g)
  <2>1. FusedFragment(g) \in FragmentsOf(g, t)
      BY <1>3 DEF FragmentsOf, FusedTasks, Fusible
  <2>2. Rank(FusedFragment(g)) = 0
      BY DEF FusedFragment, Rank
  <2> QED BY <1>3, <2>1, <2>2 DEF Rank, Depends, NodesOf
<1>4. CASE g.kind[t] = "cross" /\ \E i \in Sides : f = <<t, "source", i>>
    BY <1>4 DEF Rank, Depends
<1>5. CASE g.kind[t] = "cross" /\ \E i \in Sides : f = <<t, "exchange", i>>
  <2>1. PICK i \in Sides : f = <<t, "exchange", i>>
      BY <1>5
  <2>2. Depends(g, f) = {<<t, "source", i>>}
      BY <2>1 DEF Depends
  <2>3. <<t, "source", i>> \in FragmentsOf(g, t)
      BY <1>5 DEF FragmentsOf, CrossFragments, FusedTasks, Fusible
  <2>4. Rank(<<t, "source", i>>) = 0 /\ Rank(f) = 1
      BY <2>1 DEF Rank
  <2> QED BY <2>2, <2>3, <2>4 DEF NodesOf
<1>6. CASE g.kind[t] = "cross" /\ f = <<t, "compute", 0>>
  <2>1. Depends(g, f) = {<<t, "exchange", i>> : i \in Sides}
      BY <1>6 DEF Depends
  <2>2. \A i \in Sides : <<t, "exchange", i>> \in FragmentsOf(g, t)
      BY <1>6 DEF FragmentsOf, CrossFragments, FusedTasks, Fusible
  <2>3. Rank(f) = 2 /\ \A i \in Sides : Rank(<<t, "exchange", i>>) = 1
      BY <1>6 DEF Rank
  <2> QED BY <2>1, <2>2, <2>3 DEF NodesOf
<1>7. CASE f = <<t, "task", 0>>
  <2>1. Rank(f) = 2 + t /\ t \in Nat /\ t >= 1
      BY <1>7, ConstantsOK DEF Rank, Tasks
  <2>2. Depends(g, f) = {ResultOf(g, d) : d \in g.depends[t] \cap Placed(g, t)}
      BY <1>7 DEF Depends
  <2>3. ASSUME NEW d \in g.depends[t] \cap Placed(g, t)
        PROVE  ResultOf(g, d) \in NodesOf(g) /\ Rank(ResultOf(g, d)) < 2 + t
    <3>1. d \in Tasks /\ (g.kind[d] \in Structured \/ d < t)
        BY DEF Placed
    <3>2. d \in Nat
        BY <3>1, ConstantsOK DEF Tasks
    <3> QED BY <2>1, <3>1, <3>2, ResultRanked DEF NodesOf
  <2> QED BY <2>1, <2>2, <2>3
<1>8. CASE f = <<t, "query", 0>>
    BY <1>8 DEF Rank, Depends
<1> QED BY <1>1, <1>2, <1>3, <1>4, <1>5, <1>6, <1>7, <1>8, FragmentShapes

\* A nonempty set of fragments has one that depends on no other of the set.
LEMMA SomeReady ==
    ASSUME NEW g \in Graphs, NEW S \in SUBSET NodesOf(g), S # {}
    PROVE  \E f \in S : Depends(g, f) \cap S = {}
<1> DEFINE Ranks == {Rank(f) : f \in S}
<1>1. Ranks \subseteq Nat /\ Ranks # {}
    BY PlanRanked
<1>2. IsWellFoundedOn(OpToRel(<, Nat), Nat)
    BY NatLessThanWellFounded
<1>3. PICK m \in Ranks : \A n \in Ranks : <<n, m>> \notin OpToRel(<, Nat)
    BY <1>1, <1>2, WFMin
<1>4. PICK f \in S : Rank(f) = m
    BY <1>3
<1>5. ASSUME NEW d \in S, d \in Depends(g, f)
      PROVE  FALSE
  <2>1. Rank(d) < Rank(f) /\ Rank(d) \in Nat /\ Rank(f) \in Nat
      BY <1>5, PlanRanked
  <2>2. <<Rank(d), m>> \in OpToRel(<, Nat)
      BY <1>4, <2>1 DEF OpToRel
  <2> QED BY <1>3, <2>2
<1> QED BY <1>4, <1>5

-----------------------------------------------------------------------------
\* The variables a step of the pool leaves alone are typed as they were.
LEMMA NodesClosed ==
    ASSUME TypeOK
    PROVE  /\ Nodes = NodesOf(graph)
           /\ \A f \in Nodes : depends[f] = Depends(graph, f) /\ depends[f] \subseteq Nodes
<1>1. Nodes = NodesOf(graph) /\ \A f \in Nodes : depends[f] = Depends(graph, f)
    BY DEF TypeOK, DependsOf, Nodes
<1> QED BY <1>1, PlanRanked DEF TypeOK

\* Every variable keeps its type: the coordinator never starts a wave the plan
\* does not have, and a row only ever holds a state of the schema.
THEOREM TypeCorrect == Spec => []TypeOK
<1>1. Init => TypeOK
  <2> SUFFICES ASSUME Init PROVE TypeOK
      OBVIOUS
  <2>1. Nodes = NodesOf(graph)
      BY DEF Init, Nodes, DependsOf
  <2>2. wave \in [Nodes -> 0..last] /\ last \in Nat /\ current \in Nat /\ current <= last
      BY <2>1 DEF Init
  <2> QED BY <2>1, <2>2 DEF Init, TypeOK
<1>2. TypeOK /\ [Next]_vars => TypeOK'
  <2> SUFFICES ASSUME TypeOK, [Next]_vars PROVE TypeOK'
      OBVIOUS
  <2> USE DEF TypeOK, Nodes, plan, threads, main, Outcomes
  <2>1. CASE PlanWave
    <3>1. last' = last + 1 /\ last' \in Nat
        BY <2>1 DEF PlanWave
    <3>2. wave' \in [Nodes -> 0..last']
        BY <2>1, <3>1 DEF PlanWave
    <3> QED BY <2>1, <3>1, <3>2 DEF PlanWave
  <2>2. CASE PlanReady
      BY <2>2 DEF PlanReady
  <2>3. CASE OpenEngine
      BY <2>3 DEF OpenEngine
  <2>4. CASE NextWave
      BY <2>4 DEF NextWave
  <2>5. CASE WaveEnd
      BY <2>5 DEF WaveEnd
  <2>6. CASE Close
      BY <2>6 DEF Close
  <2>7. CASE Cancel
      BY <2>7 DEF Cancel
  <2>8. ASSUME NEW f \in Nodes, Start(f) PROVE TypeOK'
      BY <2>8 DEF Start, Recorded
  <2>9. ASSUME NEW f \in Nodes, Finish(f) PROVE TypeOK'
      BY <2>9 DEF Finish, Recorded
  <2>10. ASSUME NEW f \in Nodes, ExecuteSource(f) PROVE TypeOK'
      BY <2>10 DEF ExecuteSource, Ends, Outcome
  <2>11. ASSUME NEW f \in Nodes, ExecuteExchange(f) PROVE TypeOK'
      BY <2>11 DEF ExecuteExchange, Ends
  <2>12. ASSUME NEW f \in Nodes, ExecuteCapability(f) PROVE TypeOK'
      BY <2>12 DEF ExecuteCapability, Ends, Outcome
  <2>13. ASSUME NEW f \in Nodes, ExecuteCalculate(f) PROVE TypeOK'
      BY <2>13 DEF ExecuteCalculate, Ends, Outcome
  <2>14. ASSUME NEW f \in Nodes, LoadInputs(f) PROVE TypeOK'
      BY <2>14 DEF LoadInputs
  <2>15. ASSUME NEW f \in Nodes, RunQuery(f) PROVE TypeOK'
      BY <2>15 DEF RunQuery, Ends, Outcome
  <2>16. CASE UNCHANGED vars
      BY <2>16 DEF vars
  <2> QED BY <2>1, <2>2, <2>3, <2>4, <2>5, <2>6, <2>7, <2>8, <2>9, <2>10, <2>11, <2>12,
             <2>13, <2>14, <2>15, <2>16 DEF Next, Main, Thread
<1> QED BY <1>1, <1>2, PTL DEF Spec

-----------------------------------------------------------------------------
(* The invariant behind the properties: the waves respect the dependencies,  *)
(* and the coordinator is never ahead of a wave.                             *)

Waves == \A f \in Nodes : wave[f] # 0 => \A d \in depends[f] : wave[d] # 0 /\ wave[d] < wave[f]

Phases ==
    /\ phase = "planning" => current = 0 /\ \A f \in Nodes : at[f] = "waiting"
    /\ phase \in {"opening", "failed"} => current = 0
    /\ phase # "planning" => Unplanned = {}
    /\ engine = "closed" => phase = "closed"

Turns ==
    \A f \in Nodes :
        /\ phase # "planning" /\ wave[f] < current => at[f] = "ended"
        /\ phase \in {"between", "closed"} /\ wave[f] = current => at[f] = "ended"
        /\ at[f] # "waiting" => phase # "planning" /\ wave[f] <= current
        /\ result[f] = "none" <=> at[f] \in {"waiting", "executing", "loaded"}

\* A fragment that was not skipped has all it depends on.
Clear ==
    \A f \in Nodes : at[f] \in {"executing", "loaded"} =>
        \A d \in depends[f] : result[d] = "done"

IInv == TypeOK /\ Waves /\ Phases /\ Turns

LEMMA WavesKept ==
    ASSUME TypeOK, Waves, Phases, PlanWave
    PROVE  Waves'
<1> DEFINE Next1 == IF Ready = {} THEN Unplanned ELSE Ready
<1>1. /\ wave' = [f \in Nodes |-> IF f \in Next1 THEN last + 1 ELSE wave[f]]
      /\ depends' = depends /\ Unplanned # {} /\ phase = "planning"
    BY DEF PlanWave, plan
<1>2. Ready # {}
  <2>1. PICK f \in Unplanned : Depends(graph, f) \cap Unplanned = {}
      BY <1>1, NodesClosed, SomeReady DEF Unplanned, TypeOK
  <2> QED BY <2>1, NodesClosed DEF Ready, Unplanned
<1>3. Next1 = Ready
    BY <1>2
<1> HIDE DEF Next1
<1>4. SUFFICES ASSUME NEW f \in Nodes, wave'[f] # 0, NEW d \in depends[f]
               PROVE  wave'[d] # 0 /\ wave'[d] < wave'[f]
    BY <1>1 DEF Waves, Nodes
<1>5. d \in Nodes
    BY NodesClosed
<1>6. last \in Nat /\ \A n \in Nodes : wave[n] \in 0..last
    BY DEF TypeOK
<1>7. CASE f \in Ready
  <2>1. d \notin Unplanned /\ d \notin Ready
      BY <1>7 DEF Ready
  <2>2. wave'[d] = wave[d] /\ wave[d] # 0 /\ wave'[f] = last + 1
      BY <1>1, <1>3, <1>5, <1>7, <2>1 DEF Unplanned
  <2> QED BY <1>5, <1>6, <2>2
<1>8. CASE f \notin Ready
  <2>1. wave'[f] = wave[f] /\ wave[f] # 0
      BY <1>1, <1>3, <1>4, <1>8
  <2>2. wave[d] # 0 /\ wave[d] < wave[f]
      BY <2>1 DEF Waves
  <2>3. d \notin Ready
      BY <2>2 DEF Ready, Unplanned
  <2>4. wave'[d] = wave[d]
      BY <1>1, <1>3, <1>5, <2>3
  <2> QED BY <2>1, <2>2, <2>4
<1> QED BY <1>7, <1>8

\* The guard of topo_waves against cycles is never needed.
LEMMA GuardUnused == ASSUME TypeOK PROVE CycleGuardUnused
<1> SUFFICES ASSUME Unplanned # {} PROVE Ready # {}
    BY DEF CycleGuardUnused
<1>1. PICK f \in Unplanned : Depends(graph, f) \cap Unplanned = {}
    BY NodesClosed, SomeReady DEF Unplanned, TypeOK
<1> QED BY <1>1, NodesClosed DEF Ready, Unplanned

\* Nothing starts before what it depends on has ended.
LEMMA WaitedFromInv == ASSUME IInv PROVE DependenciesWaited
<1> SUFFICES ASSUME NEW f \in Nodes, at[f] # "waiting", NEW d \in depends[f]
             PROVE  at[d] = "ended"
    BY DEF DependenciesWaited, Started
<1>1. d \in Nodes /\ f \in Nodes
    BY NodesClosed DEF IInv
<1>2. phase # "planning" /\ wave[f] <= current /\ wave[f] # 0
    BY DEF IInv, Turns, Phases, Unplanned
<1>3. wave[d] < wave[f]
    BY <1>2 DEF IInv, Waves
<1>4. wave[d] < current
    BY <1>1, <1>2, <1>3 DEF IInv, TypeOK
<1> QED BY <1>1, <1>2, <1>4 DEF IInv, Turns

\* A step of a thread changes nothing of the invariant but the fragment it
\* runs, which is in the wave that was last started.
LEMMA ThreadKeepsTurns ==
    ASSUME TypeOK, Turns, Phases, NEW f \in Nodes, NEW where, NEW outcome,
           main' = main,
           at' = [at EXCEPT ![f] = where],
           result' = [result EXCEPT ![f] = outcome],
           where # "waiting",
           at[f] # "ended",
           phase = "running", wave[f] = current,
           outcome = "none" <=> where \in {"executing", "loaded"}
    PROVE  Turns' /\ Phases'
<1>1. /\ wave' = wave /\ phase' = phase /\ current' = current /\ depends' = depends
      /\ engine' = engine
    BY DEF main, plan
<1>2. ASSUME NEW n \in Nodes
      PROVE  /\ phase # "planning" /\ wave[n] < current => at'[n] = "ended"
             /\ at'[n] # "waiting" => phase # "planning" /\ wave[n] <= current
             /\ result'[n] = "none" <=> at'[n] \in {"waiting", "executing", "loaded"}
  <2>1. wave[n] \in Nat /\ current \in Nat
      BY DEF TypeOK
  <2>2. CASE n = f
    <3>1. at'[n] = where /\ result'[n] = outcome
        BY <2>2 DEF TypeOK
    <3> QED BY <2>1, <2>2, <3>1
  <2>3. CASE n # f
    <3>1. at'[n] = at[n] /\ result'[n] = result[n]
        BY <2>3 DEF TypeOK
    <3> QED BY <3>1 DEF Turns
  <2> QED BY <2>2, <2>3
<1>3. Turns'
    BY <1>1, <1>2 DEF Turns, Nodes
<1>4. Phases'
    BY <1>1 DEF Phases, Nodes, Unplanned
<1> QED BY <1>3, <1>4

\* A thread at work belongs to the wave that runs.
LEMMA AtWork ==
    ASSUME IInv, NEW f \in Nodes, at[f] \notin {"waiting", "ended"}
    PROVE  phase = "running" /\ wave[f] = current
<1>1. wave[f] \in Nat /\ current \in Nat
    BY DEF IInv, TypeOK
<1>2. phase # "planning" /\ wave[f] = current /\ phase \notin {"between", "closed"}
    BY <1>1 DEF IInv, Turns
<1>3. wave[f] # 0
    BY <1>2 DEF IInv, Phases, Unplanned
<1>4. phase \notin {"opening", "failed"}
    BY <1>2, <1>3 DEF IInv, Phases
<1> QED BY <1>2, <1>4 DEF IInv, TypeOK

\* Every step of the main thread keeps Turns and Phases.
LEMMA MainKeepsTurns ==
    ASSUME IInv, Main
    PROVE  Turns' /\ Phases'
<1> USE DEF plan, threads
<1>0. /\ at' = at /\ result' = result /\ depends' = depends
      /\ last \in Nat /\ current \in Nat /\ current <= last
      /\ \A f \in Nodes : wave[f] \in 0..last
    BY DEF IInv, TypeOK, Main, PlanWave, PlanReady, OpenEngine, NextWave, WaveEnd, Close
<1>1. CASE PlanWave
  <2>1. phase = "planning" /\ phase' = phase /\ current' = current /\ engine' = engine
      BY <1>1 DEF PlanWave
  <2> QED BY <1>0, <2>1 DEF IInv, Turns, Phases, Nodes, Unplanned
<1>2. CASE PlanReady
  <2>1. /\ phase = "planning" /\ phase' = "opening" /\ Unplanned = {}
        /\ current' = current /\ wave' = wave /\ engine' = engine
      BY <1>2 DEF PlanReady
  <2>2. current = 0 /\ \A f \in Nodes : at[f] = "waiting"
      BY <2>1 DEF IInv, Phases
  <2> QED BY <1>0, <2>1, <2>2 DEF IInv, Turns, Phases, Nodes, Unplanned
<1>3. CASE OpenEngine
  <2>1. /\ phase = "opening" /\ phase' \in {"between", "failed"}
        /\ current' = current /\ wave' = wave /\ engine' \in {engine, "open"}
      BY <1>3 DEF OpenEngine
  <2>2. current = 0 /\ Unplanned = {}
      BY <2>1 DEF IInv, Phases
  <2>3. \A f \in Nodes : wave[f] # 0
      BY <2>2 DEF Unplanned
  <2> QED BY <1>0, <2>1, <2>2, <2>3 DEF IInv, Turns, Phases, Nodes, Unplanned
<1>4. CASE NextWave
  <2>1. /\ phase = "between" /\ phase' = "running"
        /\ current' = current + 1 /\ wave' = wave /\ engine' = engine
      BY <1>4 DEF NextWave
  <2>2. \A f \in Nodes : wave[f] < current' => at[f] = "ended"
      BY <1>0, <2>1 DEF IInv, Turns
  <2> QED BY <1>0, <2>1, <2>2 DEF IInv, Turns, Phases, Nodes, Unplanned
<1>5. CASE WaveEnd
  <2>1. /\ phase = "running" /\ phase' = "between"
        /\ current' = current /\ wave' = wave /\ engine' = engine
        /\ \A f \in Nodes : wave[f] = current => at[f] = "ended"
      BY <1>5 DEF WaveEnd, InWave
  <2> QED BY <1>0, <2>1 DEF IInv, Turns, Phases, Nodes, Unplanned
<1>6. CASE Close
  <2>1. /\ phase = "between" /\ phase' = "closed"
        /\ current' = current /\ wave' = wave
      BY <1>6 DEF Close
  <2> QED BY <1>0, <2>1 DEF IInv, Turns, Phases, Nodes, Unplanned
<1> QED BY <1>1, <1>2, <1>3, <1>4, <1>5, <1>6 DEF Main

\* So does every step of a thread of the pool.
LEMMA PoolKeepsTurns ==
    ASSUME IInv, NEW f \in Nodes, Thread(f)
    PROVE  Turns' /\ Phases'
<1> USE DEF IInv
<1>0. at \in [Nodes -> {"waiting", "executing", "loaded", "ending", "ended"}]
      /\ result \in [Nodes -> {"none"} \cup Outcomes]
    BY DEF TypeOK
<1>1. CASE Start(f)
  <2>1. main' = main /\ at[f] = "waiting" /\ phase = "running" /\ wave[f] = current
      BY <1>1 DEF Start
  <2>2. result[f] = "none"
      BY <2>1 DEF Turns
  <2>3. result = [result EXCEPT ![f] = "none"]
      BY <1>0, <2>2
  <2>4. CASE UpstreamFailed(f)
      BY <1>1, <2>1, <2>4, ThreadKeepsTurns DEF Start
  <2>5. CASE ~UpstreamFailed(f)
      BY <1>1, <2>1, <2>3, <2>5, ThreadKeepsTurns DEF Start
  <2> QED BY <2>4, <2>5
<1>2. CASE Finish(f)
  <2>1. main' = main /\ at[f] = "ending" /\ result' = result
        /\ at' = [at EXCEPT ![f] = "ended"]
      BY <1>2 DEF Finish
  <2>2. result[f] # "none" /\ result = [result EXCEPT ![f] = result[f]]
      BY <1>0, <2>1 DEF Turns
  <2>3. phase = "running" /\ wave[f] = current
      BY <2>1, AtWork
  <2> QED BY <2>1, <2>2, <2>3, ThreadKeepsTurns
<1>3. CASE LoadInputs(f)
  <2>1. main' = main /\ at[f] = "executing" /\ result' = result
        /\ at' = [at EXCEPT ![f] = "loaded"]
      BY <1>3 DEF LoadInputs
  <2>2. result[f] = "none" /\ result = [result EXCEPT ![f] = "none"]
      BY <1>0, <2>1 DEF Turns
  <2>3. phase = "running" /\ wave[f] = current
      BY <2>1, AtWork
  <2> QED BY <2>1, <2>2, <2>3, ThreadKeepsTurns
<1>4. CASE \E outcomes \in SUBSET {"done", "failed"} :
             main' = main /\ at[f] \in {"executing", "loaded"} /\ Ends(f, outcomes)
  <2>1. PICK r \in {"done", "failed"} : result' = [result EXCEPT ![f] = r]
      BY <1>4 DEF Ends
  <2>2. phase = "running" /\ wave[f] = current
      BY <1>4, AtWork
  <2> QED BY <1>4, <2>1, <2>2, ThreadKeepsTurns DEF Ends
<1>5. Outcome(f) \in SUBSET {"done", "failed"}
    BY DEF Outcome
<1>6. ExecuteSource(f) \/ ExecuteExchange(f) \/ ExecuteCapability(f) \/ ExecuteCalculate(f)
        \/ RunQuery(f)
      => \E outcomes \in SUBSET {"done", "failed"} :
             main' = main /\ at[f] \in {"executing", "loaded"} /\ Ends(f, outcomes)
    BY <1>5 DEF ExecuteSource, ExecuteExchange, ExecuteCapability, ExecuteCalculate, RunQuery
<1> QED BY <1>1, <1>2, <1>3, <1>4, <1>6 DEF Thread

LEMMA OthersKeepWaves ==
    ASSUME Waves, depends' = depends, wave' = wave
    PROVE  Waves'
BY DEF Waves, Nodes

\* The invariant, of every execution.
THEOREM Invariance == Spec => []IInv
<1>1. Init => Waves /\ Phases /\ Turns
  <2> SUFFICES ASSUME Init PROVE Waves /\ Phases /\ Turns
      OBVIOUS
  <2>1. Nodes = NodesOf(graph)
      BY DEF Init, Nodes, DependsOf
  <2> QED BY <2>1 DEF Init, Waves, Phases, Turns
<1>2. IInv /\ [Next]_vars => Waves' /\ Phases' /\ Turns'
  <2> SUFFICES ASSUME IInv, [Next]_vars PROVE Waves' /\ Phases' /\ Turns'
      OBVIOUS
  <2>1. CASE Main
    <3>1. Turns' /\ Phases'
        BY <2>1, MainKeepsTurns
    <3>2. CASE PlanWave
        BY <3>1, <3>2, WavesKept DEF IInv
    <3>3. CASE ~PlanWave
      <4>1. depends' = depends /\ wave' = wave
          BY <2>1, <3>3 DEF Main, PlanReady, OpenEngine, NextWave, WaveEnd, Close, plan
      <4> QED BY <3>1, <4>1, OthersKeepWaves DEF IInv
    <3> QED BY <3>2, <3>3
  <2>2. CASE Cancel
      BY <2>2 DEF Cancel, plan, threads, IInv, Waves, Phases, Turns, Nodes, Unplanned
  <2>3. CASE \E f \in Nodes : Thread(f)
    <3>1. PICK f \in Nodes : Thread(f)
        BY <2>3
    <3>2. main' = main
        BY <3>1 DEF Thread, Start, Finish, ExecuteSource, ExecuteExchange, ExecuteCapability,
                    ExecuteCalculate, LoadInputs, RunQuery
    <3> QED BY <3>1, <3>2, PoolKeepsTurns, OthersKeepWaves DEF main, plan, IInv
  <2>4. CASE UNCHANGED vars
      BY <2>4 DEF vars, IInv, Waves, Phases, Turns, Nodes, Unplanned
  <2> QED BY <2>1, <2>2, <2>3, <2>4 DEF Next
<1>3. IInv <=> TypeOK /\ Waves /\ Phases /\ Turns
    BY DEF IInv
<1> QED BY <1>1, <1>2, <1>3, TypeCorrect, PTL DEF Spec

-----------------------------------------------------------------------------
\* A fragment starts only after all it depends on has ended: the waves of
\* topo_waves and the barrier after each of them are enough.
THEOREM DependenciesHold == Spec => []DependenciesWaited
BY Invariance, WaitedFromInv, PTL

\* However a graph is wired, cycles included, the plan derived from it is
\* acyclic: topo_waves always finds a fragment that is ready.
THEOREM PlansAcyclic == Spec => []CycleGuardUnused
BY TypeCorrect, GuardUnused, PTL

\* The engine of a run is closed when no thread of the run is at work.
THEOREM EngineClosedLast == Spec => []EngineOutlivesThreads
<1>1. IInv => EngineOutlivesThreads
  <2> SUFFICES ASSUME IInv, engine = "closed", NEW f \in Nodes, at[f] \notin {"waiting", "ended"}
               PROVE  FALSE
      BY DEF EngineOutlivesThreads, Busy
  <2>1. phase = "closed"
      BY DEF IInv, Phases
  <2> QED BY <2>1, AtWork
<1> QED BY <1>1, Invariance, PTL

-----------------------------------------------------------------------------
(* Failures                                                                  *)

FInv == Clear /\ FailurePropagates

\* When the wave of a fragment runs, all it depends on has its result.
LEMMA TurnHasResults ==
    ASSUME IInv, NEW f \in Nodes, phase = "running", wave[f] = current, NEW d \in depends[f]
    PROVE  d \in Nodes /\ d # f /\ at[d] = "ended" /\ result[d] \in Outcomes
<1>1. d \in Nodes
    BY NodesClosed DEF IInv
<1>2. wave[f] # 0
    BY DEF IInv, Phases, Unplanned
<1>3. wave[d] < wave[f] /\ wave[d] \in Nat
    BY <1>1, <1>2 DEF IInv, Waves, TypeOK
<1>4. at[d] = "ended"
    BY <1>1, <1>3 DEF IInv, Turns
<1>5. result[d] \in Outcomes
    BY <1>1, <1>4 DEF IInv, TypeOK, Turns
<1> QED BY <1>1, <1>3, <1>4, <1>5

\* What a step of a thread may do to the results and to where threads are.
LEMMA ThreadStep ==
    ASSUME IInv, NEW f \in Nodes, Thread(f)
    PROVE  /\ depends' = depends /\ graph' = graph
           /\ \A n \in Nodes \ {f} : at'[n] = at[n] /\ result'[n] = result[n]
           /\ \/ /\ Start(f) /\ UpstreamFailed(f)
                 /\ result'[f] = "skipped" /\ at'[f] = "ending"
              \/ /\ Start(f) /\ ~UpstreamFailed(f)
                 /\ result'[f] = result[f] /\ at'[f] = "executing"
              \/ /\ at[f] \in {"executing", "loaded"}
                 /\ result'[f] \in {"done", "failed"} /\ at'[f] = "ending"
              \/ /\ LoadInputs(f)
                 /\ at[f] = "executing" /\ at'[f] = "loaded" /\ result'[f] = result[f]
              \/ /\ at[f] = "ending" /\ at'[f] = "ended" /\ result'[f] = result[f]
<1>1. /\ at \in [Nodes -> {"waiting", "executing", "loaded", "ending", "ended"}]
      /\ result \in [Nodes -> {"none"} \cup Outcomes]
    BY DEF IInv, TypeOK
<1>2. CASE Start(f)
    BY <1>1, <1>2 DEF Start, main, plan
<1>3. CASE Finish(f)
    BY <1>1, <1>3 DEF Finish, main, plan
<1>4. CASE LoadInputs(f)
    BY <1>1, <1>4 DEF LoadInputs, main, plan
<1>5. CASE ExecuteSource(f) \/ ExecuteExchange(f) \/ ExecuteCapability(f) \/ ExecuteCalculate(f)
            \/ RunQuery(f)
  <2>1. main' = main /\ at[f] \in {"executing", "loaded"}
        /\ \E r \in {"done", "failed"} : result' = [result EXCEPT ![f] = r]
        /\ at' = [at EXCEPT ![f] = "ending"]
      BY <1>5 DEF ExecuteSource, ExecuteExchange, ExecuteCapability, ExecuteCalculate, RunQuery,
                  Ends, Outcome
  <2> QED BY <1>1, <2>1 DEF main, plan
<1> QED BY <1>2, <1>3, <1>4, <1>5 DEF Thread

\* No other step touches them.
LEMMA OtherStep ==
    ASSUME Main \/ Cancel \/ UNCHANGED vars
    PROVE  UNCHANGED <<graph, depends, at, result>>
BY DEF Main, PlanWave, PlanReady, OpenEngine, NextWave, WaveEnd, Close, Cancel, vars, threads, plan

LEMMA FailuresKept ==
    ASSUME IInv, FInv, [Next]_vars
    PROVE  FInv'
<1>1. CASE Main \/ Cancel \/ UNCHANGED vars
    BY <1>1, OtherStep DEF FInv, Clear, FailurePropagates, Nodes
<1>2. ASSUME NEW f \in Nodes, Thread(f) PROVE FInv'
  <2>1. \A n \in Nodes : depends[n] \subseteq Nodes
      BY NodesClosed DEF IInv
  <2>2. depends' = depends /\ Nodes' = Nodes
      BY <1>2, ThreadStep DEF Nodes
  <2>3. \A n \in Nodes : result[n] # "none" => result'[n] = result[n]
    <3>1. result[f] # "none" => at[f] \notin {"waiting", "executing", "loaded"}
        BY DEF IInv, Turns
    <3>2. Start(f) => at[f] = "waiting"
        BY DEF Start
    <3> QED BY <1>2, <3>1, <3>2, ThreadStep
  <2>4. ASSUME NEW n \in Nodes, n # f
        PROVE  /\ at'[n] \in {"executing", "loaded"} => \A d \in depends[n] : result'[d] = "done"
               /\ result'[n] \in {"done", "failed"} => \A d \in depends[n] : result'[d] = "done"
               /\ result'[n] = "skipped" =>
                    \E d \in depends[n] : result'[d] \in {"failed", "skipped"}
    <3>1. at'[n] = at[n] /\ result'[n] = result[n]
        BY <1>2, <2>4, ThreadStep
    <3> QED BY <2>1, <2>3, <3>1 DEF FInv, Clear, FailurePropagates
  <2>5. /\ at'[f] \in {"executing", "loaded"} => \A d \in depends[f] : result'[d] = "done"
        /\ result'[f] \in {"done", "failed"} => \A d \in depends[f] : result'[d] = "done"
        /\ result'[f] = "skipped" => \E d \in depends[f] : result'[d] \in {"failed", "skipped"}
    <3>1. CASE Start(f)
      <4>1. phase = "running" /\ wave[f] = current /\ at[f] = "waiting"
          BY <3>1 DEF Start
      <4>2. result[f] = "none"
          BY <4>1 DEF IInv, Turns
      <4>3. \A d \in depends[f] : result[d] \in Outcomes /\ result'[d] = result[d]
          BY <2>3, <4>1, TurnHasResults DEF Outcomes
      <4>4. CASE UpstreamFailed(f)
          BY <1>2, <4>1, <4>3, <4>4, ThreadStep DEF UpstreamFailed
      <4>5. CASE ~UpstreamFailed(f)
        <5>1. \A d \in depends[f] : result[d] = "done"
            BY <4>3, <4>5 DEF UpstreamFailed, Outcomes
        <5>2. result'[f] = "none"
            BY <1>2, <4>1, <4>2, <4>5, ThreadStep
        <5> QED BY <4>3, <5>1, <5>2
      <4> QED BY <4>4, <4>5
    <3>2. CASE at[f] \in {"executing", "loaded"}
      <4>1. \A d \in depends[f] : result[d] = "done"
          BY <3>2 DEF FInv, Clear
      <4>2. result'[f] # "skipped"
        <5>1. result[f] = "none"
            BY <3>2 DEF IInv, Turns
        <5> QED BY <1>2, <3>2, <5>1, ThreadStep DEF Start
      <4> QED BY <2>1, <2>3, <4>1, <4>2
    <3>3. CASE at[f] = "ending"
      <4>1. at'[f] = "ended" /\ result'[f] = result[f]
          BY <1>2, <3>3, ThreadStep DEF Start
      <4> QED BY <2>1, <2>3, <4>1 DEF FInv, FailurePropagates
    <3>4. Start(f) \/ at[f] \in {"executing", "loaded"} \/ at[f] = "ending"
        BY <1>2, ThreadStep
    <3> QED BY <3>1, <3>2, <3>3, <3>4
  <2> QED BY <2>2, <2>4, <2>5 DEF FInv, Clear, FailurePropagates
<1> QED BY <1>1, <1>2 DEF Next

LEMMA FailuresInit == ASSUME Init PROVE FInv
<1>1. Nodes = NodesOf(graph)
    BY DEF Init, Nodes, DependsOf
<1> QED BY <1>1 DEF Init, FInv, Clear, FailurePropagates

\* A failure reaches everything downstream of it and nothing else.
THEOREM FailuresPropagate == Spec => []FailurePropagates
<1>1. Init => FInv
    BY FailuresInit
<1>2. FInv => FailurePropagates
    BY DEF FInv
<1> QED BY <1>1, <1>2, FailuresKept, Invariance, PTL DEF Spec

\* What a compute fragment loads is what it waits for, and all of it is done.
LEMMA LoadsAreDone ==
    ASSUME IInv, FInv, NEW f \in Nodes, at[f] = "executing", NeedsEngine(f), NEW d \in Loads(f)
    PROVE  result[d] = "done"
<1>1. depends[f] = Depends(graph, f)
    BY NodesClosed DEF IInv
<1>2. d \in depends[f]
    BY <1>1 DEF Depends, Loads, NeedsEngine
<1> QED BY <1>2 DEF FInv, Clear

\* No query of the compute engine runs over a table that is empty only because
\* the result to load into it was not there yet.
THEOREM ComputeInputsSeen == Spec => []ComputeSeesInputs
<1>1. Init => ComputeSeesInputs
    BY DEF Init, ComputeSeesInputs
<1>2. IInv /\ FInv /\ ComputeSeesInputs /\ [Next]_vars => ComputeSeesInputs'
  <2> SUFFICES ASSUME IInv, FInv, ComputeSeesInputs, [Next]_vars PROVE ComputeSeesInputs'
      OBVIOUS
  <2>1. CASE Main \/ Cancel \/ UNCHANGED vars
      BY <2>1 DEF ComputeSeesInputs, Main, PlanWave, PlanReady, OpenEngine, NextWave, WaveEnd,
                  Close, Cancel, vars, threads
  <2>2. ASSUME NEW f \in Nodes, LoadInputs(f) PROVE ComputeSeesInputs'
    <3>1. \A d \in Loads(f) : result[d] # "none"
        BY <2>2, LoadsAreDone DEF LoadInputs
    <3> QED BY <2>2, <3>1 DEF LoadInputs, ComputeSeesInputs
  <2>3. ASSUME NEW f \in Nodes, ExecuteCalculate(f) PROVE ComputeSeesInputs'
      BY <2>3 DEF ExecuteCalculate, ComputeSeesInputs, NeedsEngine
  <2>4. ASSUME NEW f \in Nodes, Thread(f), ~LoadInputs(f), ~ExecuteCalculate(f)
        PROVE  ComputeSeesInputs'
      BY <2>4 DEF Thread, Start, Finish, ExecuteSource, ExecuteExchange, ExecuteCapability,
                  RunQuery, ComputeSeesInputs
  <2> QED BY <2>1, <2>2, <2>3, <2>4 DEF Next
<1>3. Init => FInv
    BY FailuresInit
<1> QED BY <1>1, <1>2, <1>3, FailuresKept, Invariance, PTL DEF Spec

-----------------------------------------------------------------------------
(* The record of an execution                                                *)

\* A fragment whose thread is over has told its outcome to its row and to its
\* task, and only a cancellation ends an execution before the last wave.
Reported ==
    /\ \A f \in Nodes : at[f] = "ended" => rows[f] = result[f]
    /\ \A t \in Tasks : at[ResultOf(graph, t)] = "ended" => results[t] = result[ResultOf(graph, t)]
    /\ phase = "closed" => cancelled \/ current = last

LEMMA ResultsAreNodes ==
    ASSUME IInv, NEW t \in Tasks PROVE ResultOf(graph, t) \in Nodes
<1>1. ResultOf(graph, t) \in FragmentsOf(graph, t)
    BY ResultRanked DEF IInv, TypeOK
<1> QED BY <1>1, NodesClosed DEF IInv, NodesOf

LEMMA ReportedKept ==
    ASSUME IInv, Reported, [Next]_vars
    PROVE  Reported'
<1> USE DEF Reported
<1>1. CASE Main \/ Cancel \/ UNCHANGED vars
  <2>1. UNCHANGED <<graph, depends, at, result, rows, results>>
      BY <1>1 DEF Main, PlanWave, PlanReady, OpenEngine, NextWave, WaveEnd, Close, Cancel, vars,
                  threads, plan
  <2>2. phase' = "closed" => cancelled' \/ current' = last'
      BY <1>1 DEF Main, PlanWave, PlanReady, OpenEngine, NextWave, WaveEnd, Close, Cancel, vars
  <2> QED BY <2>1, <2>2 DEF Nodes
<1>2. ASSUME NEW f \in Nodes, Thread(f) PROVE Reported'
  <2>1. /\ depends' = depends /\ graph' = graph /\ Nodes' = Nodes
        /\ \A n \in Nodes \ {f} : at'[n] = at[n] /\ result'[n] = result[n]
      BY <1>2, ThreadStep DEF Nodes
  <2>2. UNCHANGED <<phase, cancelled, current, last>>
      BY <1>2 DEF Thread, Start, Finish, ExecuteSource, ExecuteExchange, ExecuteCapability,
                  ExecuteCalculate, LoadInputs, RunQuery, main
  <2>3. CASE Finish(f)
    <3>1. at'[f] = "ended" /\ result' = result /\ rows'[f] = result[f]
          /\ \A n \in Nodes \ {f} : rows'[n] = rows[n]
        BY <2>3 DEF Finish, Recorded, IInv, TypeOK
    <3>2. \A t \in Tasks : results'[t] = IF ResultOf(graph, t) = f THEN result[f] ELSE results[t]
        BY <2>3 DEF Finish
    <3> QED BY <2>1, <2>2, <3>1, <3>2, ResultsAreNodes
  <2>4. CASE ~Finish(f)
    <3>1. at'[f] # "ended" /\ results' = results /\ \A n \in Nodes \ {f} : rows'[n] = rows[n]
        BY <1>2, <2>4 DEF Thread, Start, ExecuteSource, ExecuteExchange, ExecuteCapability,
                          ExecuteCalculate, LoadInputs, RunQuery, Ends, Recorded, IInv, TypeOK
    <3> QED BY <2>1, <2>2, <3>1, ResultsAreNodes
  <2> QED BY <2>3, <2>4
<1> QED BY <1>1, <1>2 DEF Next

\* An execution that ended without being cancelled has closed the row of every
\* fragment with its outcome and given every task the result of its fragment:
\* the last wave is reached, and nothing in it is still under way.
THEOREM ExecutionsReport == Spec => []EverythingReported
<1>1. Init => Reported
  <2> SUFFICES ASSUME Init PROVE Reported
      OBVIOUS
  <2>1. Nodes = NodesOf(graph) /\ \A t \in Tasks : ResultOf(graph, t) \in Nodes
      BY ResultRanked DEF Init, Nodes, DependsOf, NodesOf
  <2> QED BY <2>1 DEF Init, Reported
<1>2. IInv /\ Reported => EverythingReported
  <2> SUFFICES ASSUME IInv, Reported, phase = "closed", ~cancelled
               PROVE  /\ \A f \in Nodes : at[f] = "ended" /\ result[f] \in Outcomes
                      /\ \A t \in Tasks : ResultOf(graph, t) \in Nodes
      BY DEF EverythingReported, Reported
  <2>1. \A f \in Nodes : wave[f] <= current /\ wave[f] \in Nat /\ current \in Nat
      BY DEF Reported, IInv, TypeOK
  <2>2. \A f \in Nodes : at[f] = "ended"
      BY <2>1 DEF IInv, Turns
  <2>3. \A f \in Nodes : result[f] \in Outcomes
      BY <2>2 DEF IInv, Turns, TypeOK
  <2> QED BY <2>2, <2>3, ResultsAreNodes
<1> QED BY <1>1, <1>2, ReportedKept, Invariance, PTL DEF Spec

-----------------------------------------------------------------------------
(* The refinement                                                            *)

THEOREM WavesImplementDataflow == Spec => ImplementsDataflow
<1> DEFINE status == [f \in Nodes |-> Status(f)]
<1>1. Init => Flow!Init
  <2> SUFFICES ASSUME Init PROVE Flow!Init
      OBVIOUS
  <2>1. Nodes = NodesOf(graph) /\ graph \in Graphs
      BY DEF Init, Nodes, DependsOf
  <2>2. \A f \in Nodes : depends[f] \subseteq Nodes
      BY <2>1, PlanRanked DEF Init, DependsOf
  <2>3. status = [f \in Nodes |-> "idle"]
      BY <2>1 DEF Init, Status
  <2> QED BY <2>2, <2>3 DEF Flow!Init, Nodes
<1>2. IInv /\ FInv /\ [Next]_vars => [Flow!Next]_(Flow!vars)
  <2> SUFFICES ASSUME IInv, FInv, [Next]_vars PROVE [Flow!Next]_(Flow!vars)
      OBVIOUS
  <2>1. CASE Main \/ Cancel \/ UNCHANGED vars
      BY <2>1, OtherStep DEF Flow!vars, Status, Nodes
  <2>2. ASSUME NEW f \in Nodes, Thread(f) PROVE [Flow!Next]_(Flow!vars)
    <3>1. depends' = depends /\ Nodes' = Nodes
        BY <2>2, ThreadStep DEF Nodes
    <3>2. \A n \in Nodes \ {f} : Status(n)' = Status(n)
        BY <2>2, ThreadStep DEF Status
    <3>3. ASSUME NEW s, Status(f)' = s
          PROVE  status' = [status EXCEPT ![f] = s]
        BY <3>1, <3>2, <3>3
    <3>4. f \in DOMAIN status /\ status[f] = Status(f)
        OBVIOUS
    <3>5. ASSUME Status(f)' = Status(f) PROVE [Flow!Next]_(Flow!vars)
      <4>1. status' = status
          BY <3>1, <3>2, <3>5
      <4> QED BY <3>1, <4>1 DEF Flow!vars
    <3>6. ASSUME phase = "running", wave[f] = current, NEW d \in depends[f]
          PROVE  status[d] = IF result[d] = "done" THEN "ok" ELSE "bad"
        BY <3>6, TurnHasResults DEF Status
    <3>7. CASE Start(f) /\ UpstreamFailed(f)
      <4>1. phase = "running" /\ wave[f] = current /\ Status(f) = "idle"
          BY <3>7 DEF Start, Status
      <4>2. result'[f] = "skipped" /\ at'[f] = "ending"
          BY <2>2, <3>7, <4>1, ThreadStep DEF Start
      <4>3. Status(f)' = "bad"
          BY <4>2 DEF Status
      <4>4. Flow!Doomed(f)
          BY <3>6, <3>7, <4>1 DEF Flow!Doomed, UpstreamFailed
      <4>5. Flow!Skip(f)
          BY <3>1, <3>3, <3>4, <4>1, <4>3, <4>4 DEF Flow!Skip
      <4> QED BY <3>4, <4>5 DEF Flow!Next
    <3>8. CASE Start(f) /\ ~UpstreamFailed(f)
      <4>1. phase = "running" /\ wave[f] = current /\ at[f] = "waiting" /\ Status(f) = "idle"
          BY <3>8 DEF Start, Status
      <4>2. at'[f] = "executing"
          BY <2>2, <3>8, <4>1, ThreadStep
      <4>3. Status(f)' = "running"
          BY <4>2 DEF Status
      <4>4. \A d \in depends[f] : result[d] = "done"
          BY <3>8, <4>1, TurnHasResults DEF UpstreamFailed, Outcomes
      <4>5. Flow!Met(f)
          BY <3>6, <4>1, <4>4 DEF Flow!Met
      <4>6. Flow!Run(f)
          BY <3>1, <3>3, <3>4, <4>1, <4>3, <4>5 DEF Flow!Run
      <4> QED BY <3>4, <4>6 DEF Flow!Next
    <3>9. CASE /\ at[f] \in {"executing", "loaded"}
               /\ result'[f] \in {"done", "failed"} /\ at'[f] = "ending"
      <4>1. Status(f) = "running" /\ Status(f)' \in {"ok", "bad"}
          BY <3>9 DEF Status
      <4>2. Flow!End(f)
          BY <3>1, <3>3, <3>4, <4>1 DEF Flow!End
      <4> QED BY <3>4, <4>2 DEF Flow!Next
    <3>10. CASE at[f] = "executing" /\ at'[f] = "loaded" /\ result'[f] = result[f]
        BY <3>5, <3>10 DEF Status
    <3>11. CASE at[f] = "ending" /\ at'[f] = "ended" /\ result'[f] = result[f]
        BY <3>5, <3>11 DEF Status
    <3> QED BY <2>2, <3>7, <3>8, <3>9, <3>10, <3>11, ThreadStep
  <2> QED BY <2>1, <2>2 DEF Next
<1>3. Init => FInv
    BY FailuresInit
<1> QED BY <1>1, <1>2, <1>3, FailuresKept, Invariance, PTL DEF Spec, ImplementsDataflow, Flow!Spec
=============================================================================
