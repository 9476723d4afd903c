---------------------------- MODULE PlanExecution ----------------------------
(***************************************************************************)
(* From a semantic query graph to its results: the fragments and the       *)
(* dependencies the optimizer derives (engine/optimizer.py, _physical),    *)
(* the waves they are put in (core/models.py, topo_waves) and their        *)
(* execution by a pool of threads (engine/coordinator.py).                 *)
(*                                                                         *)
(* A task is named by its place in the list of the graph's nodes.  What a  *)
(* fragment computes is abstracted to whether it succeeds.                 *)
(***************************************************************************)
EXTENDS Naturals, FiniteSets

CONSTANTS
    N,            \* number of tasks of a graph
    Graphs,       \* the graphs considered
    Parallelism,  \* ctx.context["parallelism"], at least 1
    Faults        \* what may go wrong, a subset of FaultKinds

FaultKinds == {"fragment",  \* a fragment fails
               "engine",    \* the compute engine cannot be opened
               "cancel"}    \* the token of the run is cancelled

Tasks == 1..N

\* A structured task reads one source alone ("lone"), reads one source and
\* shares its fusion key with the others of its kind ("fusible", or "ranked"
\* when it also filters or ranks its result), or spans two ("cross").
Structured == {"lone", "fusible", "ranked", "cross"}
Kinds == Structured \cup {"calculate", "capability"}

\* SQG.validate_graph: no task depends on itself and every input is declared
\* in depends_on; neither cycles nor the order of the list are checked.
WellFormed(g) ==
    /\ g.kind \in [Tasks -> Kinds]
    /\ g.depends \in [Tasks -> SUBSET Tasks]
    /\ g.inputs \in [Tasks -> SUBSET Tasks]
    /\ \A t \in Tasks : t \notin g.depends[t] /\ g.inputs[t] \subseteq g.depends[t]

ASSUME ConstantsOK ==
    /\ N \in Nat
    /\ \A g \in Graphs : WellFormed(g)
    /\ Parallelism \in Nat \ {0}
    /\ Faults \subseteq FaultKinds

-----------------------------------------------------------------------------
(* Optimizer._physical                                                      *)

Parts == {"source", "fused", "exchange", "compute", "post", "query", "task"}
Sides == {1, 2}
Fragments == Tasks \X Parts \X {0, 1, 2}

\* Tasks that share a fusion key are fused when there are at least two.
Fusible(g) == {t \in Tasks : g.kind[t] \in {"fusible", "ranked"}}
FusedTasks(g) == IF \E t, u \in Fusible(g) : t # u THEN Fusible(g) ELSE {}
FusedFragment(g) == <<CHOOSE t \in FusedTasks(g) : \A u \in FusedTasks(g) : t <= u, "fused", 0>>

\* A projection of every source, an exchange for each, and the query over
\* the exchanged tables.
CrossFragments(t) == ({t} \X {"source", "exchange"} \X Sides) \cup {<<t, "compute", 0>>}

FragmentsOf(g, t) ==
    CASE t \in FusedTasks(g) /\ g.kind[t] = "fusible" -> {FusedFragment(g)}
      [] t \in FusedTasks(g) /\ g.kind[t] = "ranked" -> {FusedFragment(g), <<t, "post", 0>>}
      [] g.kind[t] = "cross" -> CrossFragments(t)
      [] g.kind[t] \in {"calculate", "capability"} -> {<<t, "task", 0>>}
      [] OTHER -> {<<t, "query", 0>>}

\* physical_for_logical: the fragment whose result is the task's.
ResultOf(g, t) ==
    CASE t \in FusedTasks(g) /\ g.kind[t] = "fusible" -> FusedFragment(g)
      [] t \in FusedTasks(g) /\ g.kind[t] = "ranked" -> <<t, "post", 0>>
      [] g.kind[t] = "cross" -> <<t, "compute", 0>>
      [] g.kind[t] \in {"calculate", "capability"} -> <<t, "task", 0>>
      [] OTHER -> <<t, "query", 0>>

\* The tasks that are already in physical_for_logical when the loop over the
\* capability tasks reaches t.
Placed(g, t) == {d \in Tasks : g.kind[d] \in Structured \/ d < t}

\* Mutation: the compute fragment does not wait for its exchanges.
DependsNoExchange(g, f) ==
    CASE f[2] = "exchange" -> {<<f[1], "source", f[3]>>}
      [] f[2] = "post" -> {FusedFragment(g)}
      [] f[2] = "task" -> {ResultOf(g, d) : d \in g.depends[f[1]] \cap Placed(g, f[1])}
      [] OTHER -> {}

\* depends_on of a fragment.  A structured task gets none from the graph, and
\* a capability only those already placed.
Depends(g, f) ==
    CASE f[2] = "exchange" -> {<<f[1], "source", f[3]>>}
      [] f[2] = "compute" -> {<<f[1], "exchange", i>> : i \in Sides}
      [] f[2] = "post" -> {FusedFragment(g)}
      [] f[2] = "task" -> {ResultOf(g, d) : d \in g.depends[f[1]] \cap Placed(g, f[1])}
      [] OTHER -> {}

NodesOf(g) == UNION {FragmentsOf(g, t) : t \in Tasks}
DependsOf(g) == [f \in NodesOf(g) |-> Depends(g, f)]

NeedsEngine(f) == f[2] \in {"compute", "post"}

-----------------------------------------------------------------------------
VARIABLES
    graph,     \* the semantic query graph
    depends,   \* depends_on of every fragment of its plan
    wave,      \* the wave of every fragment, 0 while it has none
    last,      \* the number of waves
    phase,     \* where the optimizer and then the coordinator are
    current,   \* the wave that was last started
    at,        \* where the thread that runs a fragment is
    result,    \* ctx.physical_results
    results,   \* ctx.results, by task
    rows,      \* the run_node rows
    engine,    \* ctx.compute
    cancelled, \* the cancellation token is set
    blind      \* fragments that took a missing result for an empty one

vars == <<graph, depends, wave, last, phase, current, at, result, results, rows, engine,
          cancelled, blind>>

Nodes == DOMAIN depends
Unplanned == {f \in Nodes : wave[f] = 0}
InWave(w) == {f \in Nodes : wave[f] = w}

Outcomes == {"done", "failed", "skipped"}
TypeOK ==
    /\ graph \in Graphs
    /\ depends = DependsOf(graph)
    /\ last \in Nat
    /\ wave \in [Nodes -> 0..last]
    /\ phase \in {"planning", "opening", "between", "running", "closed", "failed"}
    /\ current \in Nat /\ current <= last
    /\ at \in [Nodes -> {"waiting", "executing", "loaded", "ending", "ended"}]
    /\ result \in [Nodes -> {"none"} \cup Outcomes]
    /\ results \in [Tasks -> {"none"} \cup Outcomes]
    /\ rows \in [Nodes -> {"none", "running"} \cup Outcomes]
    /\ engine \in {"none", "open", "closed"}
    /\ cancelled \in BOOLEAN
    /\ blind \subseteq Nodes

Init ==
    /\ graph \in Graphs
    /\ depends = DependsOf(graph)
    /\ wave = [f \in NodesOf(graph) |-> 0]
    /\ last = 0
    /\ phase = "planning"
    /\ current = 0
    /\ at = [f \in NodesOf(graph) |-> "waiting"]
    /\ result = [f \in NodesOf(graph) |-> "none"]
    /\ results = [t \in Tasks |-> "none"]
    /\ rows = [f \in NodesOf(graph) |-> "none"]
    /\ engine = "none"
    /\ cancelled = FALSE
    /\ blind = {}

plan == <<graph, depends>>
threads == <<at, result, results, rows, blind>>

-----------------------------------------------------------------------------
(* topo_waves, one iteration of its loop at a time                          *)

Ready == {f \in Unplanned : depends[f] \cap Unplanned = {}}

\* Everything that is left goes into the last wave when nothing is ready.
PlanWave ==
    /\ phase = "planning" /\ Unplanned # {}
    /\ last' = last + 1
    /\ LET next == IF Ready = {} THEN Unplanned ELSE Ready
       IN  wave' = [f \in Nodes |-> IF f \in next THEN last + 1 ELSE wave[f]]
    /\ UNCHANGED <<plan, threads, phase, current, engine, cancelled>>

PlanReady ==
    /\ phase = "planning" /\ Unplanned = {}
    /\ phase' = "opening"
    /\ UNCHANGED <<plan, threads, wave, last, current, engine, cancelled>>

-----------------------------------------------------------------------------
(* Coordinator.execute                                                      *)

OpenEngine ==
    /\ phase = "opening"
    /\ IF \E f \in Nodes : NeedsEngine(f)
       THEN \/ engine' = "open" /\ phase' = "between"
            \/ "engine" \in Faults /\ phase' = "failed" /\ UNCHANGED engine
       ELSE phase' = "between" /\ UNCHANGED engine
    /\ UNCHANGED <<plan, threads, wave, last, current, cancelled>>

Cancel ==
    /\ "cancel" \in Faults
    /\ ~cancelled
    /\ cancelled' = TRUE
    /\ UNCHANGED <<plan, threads, wave, last, phase, current, engine>>

NextWave ==
    /\ phase = "between" /\ ~cancelled
    /\ current < last
    /\ current' = current + 1 /\ phase' = "running"
    /\ UNCHANGED <<plan, threads, wave, last, engine, cancelled>>

\* Mutation: a failure in a wave is never recovered from.
WaveEndUnlessFailed ==
    /\ phase = "running"
    /\ \A f \in InWave(current) : at[f] = "ended" /\ result[f] # "failed"
    /\ phase' = "between"
    /\ UNCHANGED <<plan, threads, wave, last, current, engine, cancelled>>

WaveEnd ==
    /\ phase = "running"
    /\ \A f \in InWave(current) : at[f] = "ended"
    /\ phase' = "between"
    /\ UNCHANGED <<plan, threads, wave, last, current, engine, cancelled>>

Close ==
    /\ phase = "between"
    /\ cancelled \/ current = last
    /\ engine' = IF engine = "open" THEN "closed" ELSE engine
    /\ phase' = "closed"
    /\ UNCHANGED <<plan, threads, wave, last, current, cancelled>>

-----------------------------------------------------------------------------
(* Coordinator._run_node, on a thread of the pool                           *)

main == <<plan, wave, last, phase, current, engine, cancelled>>

Busy == {f \in Nodes : at[f] \notin {"waiting", "ended"}}
Loading == {f \in Nodes : at[f] = "loaded"}

\* Mutation: a skipped fragment is not a failure.
UpstreamOnlyFailed(f) == \E d \in depends[f] : result[d] = "failed"

UpstreamFailed(f) == \E d \in depends[f] : result[d] \in {"failed", "skipped"}

\* start_node and finish_node; AskRun has the writes that fail.
Recorded(f, state) == rows' = [rows EXCEPT ![f] = state]

Start(f) ==
    /\ phase = "running" /\ wave[f] = current
    /\ at[f] = "waiting"
    /\ Cardinality(Busy) < Parallelism
    /\ Recorded(f, "running")
    /\ IF UpstreamFailed(f)
       THEN /\ result' = [result EXCEPT ![f] = "skipped"]
            /\ at' = [at EXCEPT ![f] = "ending"]
       ELSE /\ at' = [at EXCEPT ![f] = "executing"]
            /\ UNCHANGED result
    /\ UNCHANGED <<main, results, blind>>

Outcome(f) == IF "fragment" \in Faults THEN {"done", "failed"} ELSE {"done"}

Ends(f, outcomes) ==
    /\ \E r \in outcomes : result' = [result EXCEPT ![f] = r]
    /\ at' = [at EXCEPT ![f] = "ending"]

\* resolver.fetch
ExecuteSource(f) ==
    /\ at[f] = "executing" /\ f[2] \in {"source", "query", "fused"}
    /\ Ends(f, Outcome(f))
    /\ UNCHANGED <<main, results, rows, blind>>

\* The rows of the source fragment are copied; it is an error if it has none.
ExecuteExchange(f) ==
    /\ at[f] = "executing" /\ f[2] = "exchange"
    /\ Ends(f, IF result[<<f[1], "source", f[3]>>] = "none" THEN {"failed"} ELSE {"done"})
    /\ UNCHANGED <<main, results, rows, blind>>

\* The fragments whose rows a compute fragment loads.
Loads(f) == IF f[2] = "post" THEN {FusedFragment(graph)}
            ELSE {<<f[1], "exchange", i>> : i \in Sides}

\* The lock of the engine is held from the first load to the end of the query.
\* A missing result is loaded as an empty table.
LoadInputs(f) ==
    /\ at[f] = "executing" /\ NeedsEngine(f)
    /\ Loading = {}
    /\ at' = [at EXCEPT ![f] = "loaded"]
    /\ blind' = IF \E d \in Loads(f) : result[d] = "none" THEN blind \cup {f} ELSE blind
    /\ UNCHANGED <<main, result, results, rows>>

RunQuery(f) ==
    /\ at[f] = "loaded"
    /\ Ends(f, IF engine = "open" THEN Outcome(f) ELSE {"failed"})
    /\ UNCHANGED <<main, results, rows, blind>>

Absent(f) == {t \in graph.inputs[f[1]] : results[t] = "none"}

\* _resolve_inputs raises when an input has no result.
ExecuteCapability(f) ==
    /\ at[f] = "executing" /\ f[2] = "task" /\ graph.kind[f[1]] = "capability"
    /\ Ends(f, IF Absent(f) # {} THEN {"failed"} ELSE Outcome(f))
    /\ UNCHANGED <<main, results, rows, blind>>

\* _calculate takes an empty result instead.
ExecuteCalculate(f) ==
    /\ at[f] = "executing" /\ f[2] = "task" /\ graph.kind[f[1]] = "calculate"
    /\ Ends(f, Outcome(f))
    /\ blind' = IF Absent(f) # {} THEN blind \cup {f} ELSE blind
    /\ UNCHANGED <<main, results, rows>>

\* Mutation: a skipped fragment is not reported.
FinishExecuted(f) ==
    /\ at[f] = "ending"
    /\ at' = [at EXCEPT ![f] = "ended"]
    /\ results' = [t \in Tasks |-> IF ResultOf(graph, t) = f THEN result[f] ELSE results[t]]
    /\ IF result[f] = "skipped" THEN UNCHANGED rows ELSE Recorded(f, result[f])
    /\ UNCHANGED <<main, result, blind>>

\* _publish, then finish_node.
Finish(f) ==
    /\ at[f] = "ending"
    /\ at' = [at EXCEPT ![f] = "ended"]
    /\ results' = [t \in Tasks |-> IF ResultOf(graph, t) = f THEN result[f] ELSE results[t]]
    /\ Recorded(f, result[f])
    /\ UNCHANGED <<main, result, blind>>

Thread(f) ==
    \/ Start(f) \/ Finish(f)
    \/ ExecuteSource(f) \/ ExecuteExchange(f) \/ ExecuteCapability(f) \/ ExecuteCalculate(f)
    \/ LoadInputs(f) \/ RunQuery(f)

Main == PlanWave \/ PlanReady \/ OpenEngine \/ NextWave \/ WaveEnd \/ Close

Next == Main \/ Cancel \/ \E f \in Nodes : Thread(f)

Spec == Init /\ [][Next]_vars

\* The handler's thread and the threads of the pool go on; the engine's lock
\* is held for a finite time, and every waiting thread gets it.
Fairness == WF_vars(Main) /\ \A f \in Fragments : WF_vars(f \in Nodes /\ Thread(f))
FairSpec == Spec /\ Fairness

-----------------------------------------------------------------------------
(* Properties                                                               *)

Started(f) == at[f] # "waiting"

\* A fragment starts only after every fragment it depends on has ended,
\* whatever the list order of the graph, its cycles and the pool do.
DependenciesWaited ==
    \A f \in Nodes : Started(f) => \A d \in depends[f] : at[d] = "ended"

\* The guard of topo_waves against cycles is never needed: however the graph
\* is wired, the plan derived from it is acyclic.
CycleGuardUnused == phase = "planning" /\ Unplanned # {} => Ready # {}

\* A failure reaches everything downstream of it and nothing else: a fragment
\* is skipped iff one it depends on failed or was skipped itself.
FailurePropagates ==
    \A f \in Nodes :
        /\ result[f] \in {"done", "failed"} => \A d \in depends[f] : result[d] = "done"
        /\ result[f] = "skipped" => \E d \in depends[f] : result[d] \in {"failed", "skipped"}

\* No query of the compute engine runs over a table that is empty only
\* because the result to load into it was not there yet.
ComputeSeesInputs == \A f \in blind : ~NeedsEngine(f)

\* The engine stays open as long as a thread of the run uses it.
EngineOutlivesThreads == engine = "closed" => Busy = {}

\* An execution that ended and was not cancelled has closed the row of every
\* fragment with its outcome, and given every task a result.
EverythingReported ==
    phase = "closed" /\ ~cancelled =>
        /\ \A f \in Nodes : rows[f] = result[f] /\ rows[f] \in Outcomes
        /\ \A t \in Tasks : results[t] = result[ResultOf(graph, t)]

\* Whatever fails, a plan that is executed ends.
ExecutionEnds == <>(phase \in {"closed", "failed"})

\* Executing a plan in waves on a pool of threads is one way to execute it as
\* a data flow: every fragment at most once, after all it needs, and doing its
\* work only if all of that succeeded.
Status(f) ==
    CASE at[f] = "waiting" -> "idle"
      [] at[f] \in {"executing", "loaded"} -> "running"
      [] OTHER -> IF result[f] = "done" THEN "ok" ELSE "bad"

Flow == INSTANCE Dataflow WITH needs <- depends, status <- [f \in Nodes |-> Status(f)]
ImplementsDataflow == Flow!Spec

=============================================================================
