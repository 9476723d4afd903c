------------------------------- MODULE AskRun -------------------------------
(***************************************************************************)
(* The life of an ask and of its record in the database: the thread that   *)
(* runs the engine's stages one after the other (nexus/client.py) and the  *)
(* rows of run, run_stage and run_node it writes (bootstrap.py).           *)
(*                                                                         *)
(* What a stage computes is left out.  Of the rows of run_node one stands  *)
(* for all: PlanExecution has the coordinator's threads in full.           *)
(***************************************************************************)
EXTENDS Naturals

CONSTANTS
    Runs,         \* the asks
    Stages,       \* the number of stages, 5 in _STAGE_SEQ
    Coordinator,  \* the stage that executes the plan, 4 in _STAGE_SEQ
    Faults        \* what may go wrong, a subset of FaultKinds

FaultKinds == {"stage",     \* a stage raises
               "output",    \* the result of a stage cannot be serialized
               "recorder",  \* a write of the recorder fails, swallowed
               "spawn",     \* no thread can be started
               "crash"}     \* the process ends

ASSUME ConstantsOK ==
    /\ Stages \in Nat \ {0}
    /\ Coordinator \in 1..Stages
    /\ Faults \subseteq FaultKinds

VARIABLES
    at,      \* where the ask is
    stage,   \* the last stage that was started, 0 before the first
    failed,  \* run_state is "failed"
    pool,    \* where the threads of the coordinator are
    run,     \* the row of run
    rows,    \* the rows of run_stage
    node,    \* a row of run_node
    lost     \* history: the asks the recorder failed to write something of

main == <<at, stage, failed>>
record == <<run, rows, node, lost>>
vars == <<main, pool, record>>

Ended == {"done", "failed"}
States == {"none", "running"} \cup Ended

TypeOK ==
    /\ at \in [Runs -> {"idle", "opened", "between", "working", "ended", "dead"}]
    /\ stage \in [Runs -> 0..Stages]
    /\ failed \in [Runs -> BOOLEAN]
    /\ pool \in [Runs -> {"unused", "busy", "over"}]
    /\ run \in [Runs -> States]
    /\ rows \in [Runs -> [1..Stages -> States]]
    /\ node \in [Runs -> States]
    /\ lost \subseteq Runs

Init ==
    /\ at = [r \in Runs |-> "idle"]
    /\ stage = [r \in Runs |-> 0]
    /\ failed = [r \in Runs |-> FALSE]
    /\ pool = [r \in Runs |-> "unused"]
    /\ run = [r \in Runs |-> "none"]
    /\ rows = [r \in Runs |-> [s \in 1..Stages |-> "none"]]
    /\ node = [r \in Runs |-> "none"]
    /\ lost = {}

-----------------------------------------------------------------------------
(* DbRunRecorder: start_* inserts a row, finish_* updates the row if there   *)
(* is one, and a write that fails is only logged.                            *)

Write(row, r, written) ==
    \/ row' = written /\ UNCHANGED lost
    \/ "recorder" \in Faults /\ lost' = lost \cup {r} /\ UNCHANGED row

StartRow(row, r) == Write(row, r, [row EXCEPT ![r] = "running"])

FinishRow(row, r, state) ==
    Write(row, r, [row EXCEPT ![r] = IF @ = "none" THEN "none" ELSE state])

StartStageRow(r, s) == Write(rows, r, [rows EXCEPT ![r][s] = "running"])

FinishStageRow(r, s, state) ==
    Write(rows, r, [rows EXCEPT ![r][s] = IF @ = "none" THEN "none" ELSE state])

-----------------------------------------------------------------------------
(* NexusClient                                                              *)

\* start_ask, up to the row.
Open(r) ==
    /\ at[r] = "idle"
    /\ at' = [at EXCEPT ![r] = "opened"]
    /\ StartRow(run, r)
    /\ UNCHANGED <<stage, failed, pool, rows, node>>

\* The row stays as it is when the thread cannot be started.
Spawn(r) ==
    /\ at[r] = "opened"
    /\ \/ at' = [at EXCEPT ![r] = "between"]
       \/ "spawn" \in Faults /\ at' = [at EXCEPT ![r] = "ended"]
    /\ UNCHANGED <<stage, failed, pool, record>>

Over(r) == failed[r] \/ stage[r] = Stages

BeginStage(r) ==
    /\ at[r] = "between" /\ ~Over(r)
    /\ at' = [at EXCEPT ![r] = "working"]
    /\ stage' = [stage EXCEPT ![r] = @ + 1]
    /\ StartStageRow(r, stage[r] + 1)
    /\ UNCHANGED <<failed, pool, run, node>>

\* Threads of the coordinator's pool.
BeginNode(r) ==
    /\ at[r] = "working" /\ stage[r] = Coordinator
    /\ pool[r] = "unused"
    /\ pool' = [pool EXCEPT ![r] = "busy"]
    /\ StartRow(node, r)
    /\ UNCHANGED <<main, run, rows>>

FinishNode(r) ==
    /\ pool[r] = "busy" /\ at[r] # "dead"
    /\ pool' = [pool EXCEPT ![r] = "over"]
    /\ \E state \in Ended : FinishRow(node, r, state)
    /\ UNCHANGED <<main, run, rows>>

\* Mutation: the coordinator does not wait for its threads.
PoolLeft(r) == TRUE

\* The coordinator returns when the threads of its pool have.
PoolReturned(r) == pool[r] # "busy"

StageDone(r) ==
    /\ at[r] = "working" /\ PoolReturned(r)
    /\ at' = [at EXCEPT ![r] = "between"]
    /\ FinishStageRow(r, stage[r], "done")
    /\ UNCHANGED <<stage, failed, pool, run, node>>

StageRaises(r) ==
    /\ "stage" \in Faults
    /\ at[r] = "working" /\ PoolReturned(r)
    /\ at' = [at EXCEPT ![r] = "between"]
    /\ failed' = [failed EXCEPT ![r] = TRUE]
    /\ FinishStageRow(r, stage[r], "failed")
    /\ UNCHANGED <<stage, pool, run, node>>

\* out_ser(result) is outside the try of _stage: the row is not written.
OutputRaises(r) ==
    /\ "output" \in Faults
    /\ at[r] = "working" /\ PoolReturned(r)
    /\ at' = [at EXCEPT ![r] = "between"]
    /\ failed' = [failed EXCEPT ![r] = TRUE]
    /\ UNCHANGED <<stage, pool, record>>

\* Mutation: the run is only closed when there is an answer.
CloseAnswered(r) ==
    /\ at[r] = "between" /\ Over(r) /\ ~failed[r]
    /\ at' = [at EXCEPT ![r] = "ended"]
    /\ FinishRow(run, r, "done")
    /\ UNCHANGED <<stage, failed, pool, rows, node>>

\* Mutation: the run is closed as done whatever happened.
CloseDone(r) ==
    /\ at[r] = "between" /\ Over(r)
    /\ at' = [at EXCEPT ![r] = "ended"]
    /\ FinishRow(run, r, "done")
    /\ UNCHANGED <<stage, failed, pool, rows, node>>

\* The finally of ask.
Close(r) ==
    /\ at[r] = "between" /\ Over(r)
    /\ at' = [at EXCEPT ![r] = "ended"]
    /\ FinishRow(run, r, IF failed[r] THEN "failed" ELSE "done")
    /\ UNCHANGED <<stage, failed, pool, rows, node>>

\* The threads are daemons: nothing is written when the process ends, nor
\* when the next one starts.
Crash ==
    /\ "crash" \in Faults
    /\ \E r \in Runs : at[r] \notin {"idle", "ended", "dead"}
    /\ at' = [r \in Runs |-> IF at[r] \in {"idle", "ended"} THEN at[r] ELSE "dead"]
    /\ UNCHANGED <<stage, failed, pool, record>>

Ask(r) ==
    \/ Spawn(r) \/ BeginStage(r) \/ BeginNode(r) \/ FinishNode(r)
    \/ StageDone(r) \/ StageRaises(r) \/ OutputRaises(r) \/ Close(r)

Next == Crash \/ \E r \in Runs : Open(r) \/ Ask(r)

Spec == Init /\ [][Next]_vars

\* The thread of an ask goes on, and a stage ends.
FairSpec == Spec /\ \A r \in Runs : WF_vars(Ask(r))

-----------------------------------------------------------------------------
(* Properties                                                               *)

\* Unless a write was lost, a stage is started only when the one before it is
\* recorded as done, and fragments run only in the coordinator's.
StagesInOrder ==
    \A r \in Runs \ lost :
        /\ \A s \in 1..Stages - 1 : rows[r][s + 1] # "none" => rows[r][s] = "done"
        /\ node[r] # "none" => rows[r][Coordinator] # "none"
        /\ node[r] = "running" => rows[r][Coordinator] = "running"

\* Unless a write was lost, a run is closed as done only if every stage is, and
\* as failed only with a stage to show for it.
RunTellsStages ==
    \A r \in Runs \ lost :
        /\ run[r] = "done" => \A s \in 1..Stages : rows[r][s] = "done"
        /\ run[r] = "failed" => \E s \in 1..Stages : rows[r][s] \in {"failed", "running"}

\* What the record of a run says once it is closed, it says for good: nothing
\* of it is written later, whatever is lost, raised or cut off by a crash.
ClosedForGood ==
    [][\A r \in Runs : run[r] \in Ended =>
            run'[r] = run[r] /\ rows'[r] = rows[r] /\ node'[r] = node[r]]_vars

\* Every ask whose thread was started is closed, whatever its stages do, unless
\* the process ends or its recorder fails.
RunCloses == \A r \in Runs : at[r] = "between" ~> run[r] \in Ended \/ at[r] = "dead" \/ r \in lost
=============================================================================
