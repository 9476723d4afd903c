--------------------------- MODULE ComputeRegistry ---------------------------
(***************************************************************************)
(* The catalogue of compute engines (nexus/engine/compute_registry.py),    *)
(* the provisioning of the SQL Server user an engine owns (compute.py,     *)
(* SqlServerComputeProvisioner) and the lease a run holds on its engine    *)
(* (nexus/client.py).  Several backend processes may share the database.   *)
(* A process serves its requests on one event loop, so it is inside at     *)
(* most one handler; the asks it accepted run on threads of their own.     *)
(* A handler yields between database statements, each of which is atomic.  *)
(***************************************************************************)
EXTENDS Naturals, FiniteSets

CONSTANTS
    Procs,      \* backend processes that share the database
    Engines,    \* engine names
    Users,      \* users of the target SQL Server database
    Foreign,    \* those that exist there independently of Data Nexus
    Runs,       \* run ids
    NoEngine,   \* a request that names no engine
    NoUser,     \* runtime_user IS NULL: a duckdb engine
    Faults      \* what may go wrong, a subset of FaultKinds

FaultKinds == {"reject",      \* a statement fails and has no effect
               "lost_reply",  \* a statement takes effect and is reported failed
               "recorder",    \* a write of the run recorder fails, swallowed
               "spawn",       \* Thread.start() raises
               "crash"}       \* a process dies and restarts

ASSUME ConstantsOK ==
    /\ Foreign \subseteq Users
    /\ IsFiniteSet(Runs)
    /\ NoEngine \notin Engines
    /\ NoUser \notin Users
    /\ Faults \subseteq FaultKinds

VARIABLES
    ready,       \* engines whose row has provision_state = 'ready'
    legacy,      \* engines whose row an older version left in a failed state
    owner,       \* the runtime_user column of every engine
    default,     \* engines whose row has is_default = 1
    principals,  \* users that exist in the target database
    leases,      \* _active_runs of every process
    handler,     \* the handler each process is in
    run,         \* the ask of every run id, and the process that serves it
    row          \* the state column of nexus.run

catalog == <<ready, legacy, owner, default>>
vars == <<ready, legacy, owner, default, principals, leases, handler, run, row>>

-----------------------------------------------------------------------------
CreateSteps == {"user", "test", "undo", "insert", "drop"}
DeleteSteps == {"runs", "remaining", "drop", "delete"}
DefaultSteps == {"switch", "has_default", "pick_default"}
Operations == {"none", "create", "update", "default", "delete", "ask"}

Handlers == [op : Operations,
             at : {"idle", "ask"} \cup CreateSteps \cup DeleteSteps \cup DefaultSteps,
             engine : Engines \cup {NoEngine},
             user : Users \cup {NoUser},
             flag : BOOLEAN]

Idle == [op |-> "none", at |-> "idle", engine |-> NoEngine, user |-> NoUser, flag |-> FALSE]

\* An ask: not yet made, being started by its handler (before and after the
\* run row is written), executing on its thread, failed because its engine
\* could not be opened, recorded as finished, and gone.
RunSteps == {"new", "leased", "recorded", "executing", "unavailable", "finished", "gone"}
HoldingSteps == {"leased", "recorded", "executing", "unavailable", "finished"}

Holders(p, e) == {r \in Runs : run[r].at \in HoldingSteps /\ run[r].proc = p /\ run[r].engine = e}

Rows == ready \cup legacy

TypeOK ==
    /\ ready \subseteq Engines
    /\ legacy \subseteq Engines \ ready
    /\ owner \in [Engines -> Users \cup {NoUser}]
    /\ default \subseteq ready
    /\ principals \subseteq Users
    /\ leases \in [Procs -> [Engines -> Nat]]
    /\ handler \in [Procs -> Handlers]
    /\ run \in [Runs -> [at : RunSteps, proc : Procs, engine : Engines]]
    /\ row \in [Runs -> {"none", "running", "ended"}]

\* The migration leaves one ready duckdb engine as the default; rows of older
\* versions may be there, with or without their user.
Init ==
    \E d \in Engines, old \in SUBSET Engines, p \in Procs :
        /\ ready = {d}
        /\ legacy = old \ {d}
        /\ owner \in {o \in [Engines -> Users \cup {NoUser}] :
                        /\ \A e \in Engines : o[e] # NoUser => e \in legacy
                        /\ \A e, f \in legacy : o[e] = o[f] => e = f \/ o[e] = NoUser}
        /\ default = {d}
        /\ principals = Foreign
        /\ leases = [q \in Procs |-> [e \in Engines |-> 0]]
        /\ handler = [q \in Procs |-> Idle]
        /\ run = [r \in Runs |-> [at |-> "new", proc |-> p, engine |-> d]]
        /\ row = [r \in Runs |-> "none"]

-----------------------------------------------------------------------------
(* Helpers: moving a handler, and the outcomes of a database statement.     *)

At(p, op, step) == handler[p].op = op /\ handler[p].at = step
Goto(p, step) == handler' = [handler EXCEPT ![p].at = step]
Return(p) == handler' = [handler EXCEPT ![p] = Idle]
Enter(p, op, step, e, u, f) ==
    /\ handler[p] = Idle
    /\ handler' = [handler EXCEPT ![p] =
           [op |-> op, at |-> step, engine |-> e, user |-> u, flag |-> f]]

Rejected == "reject" \in Faults
ReplyLost == "lost_reply" \in Faults

\* UX_compute_engines_runtime_user and PK_compute_engines
Conflicts(e, u) == e \in Rows \/ \E f \in Rows : u # NoUser /\ owner[f] = u

-----------------------------------------------------------------------------
(* create_definition                                                        *)

\* The name is free; a duckdb engine is probed in memory and goes straight to
\* its row, an SQL Server engine first gets its user.
CreateBegin(p, e, u, wantDefault) ==
    /\ e \notin Rows
    /\ Enter(p, "create", IF u = NoUser THEN "insert" ELSE "user", e, u, wantDefault)
    /\ UNCHANGED <<catalog, principals, leases, run, row>>

\* Mutation: a user that exists is taken over.
CreateUserTakesOver(p) ==
    /\ At(p, "create", "user")
    /\ principals' = principals \cup {handler[p].user}
    /\ Goto(p, "test")
    /\ UNCHANGED <<catalog, leases, run, row>>

\* create_and_test refuses a user that exists; a lost reply to CREATE USER
\* leaves `created` False, so nothing is cleaned up.
CreateUser(p) ==
    LET u == handler[p].user IN
    /\ At(p, "create", "user")
    /\ \/ u \in principals /\ Return(p) /\ UNCHANGED principals
       \/ u \notin principals /\ principals' = principals \cup {u} /\ Goto(p, "test")
       \/ Rejected /\ Return(p) /\ UNCHANGED principals
       \/ ReplyLost /\ u \notin principals /\ principals' = principals \cup {u} /\ Return(p)
    /\ UNCHANGED <<catalog, leases, run, row>>

\* EXECUTE AS, the probe table, REVERT: the target may refuse any of them.
TestUser(p) ==
    /\ At(p, "create", "test")
    /\ Goto(p, "insert") \/ Goto(p, "undo")
    /\ UNCHANGED <<catalog, principals, leases, run, row>>

\* Removal of the user after a failed test ("undo") or a failed INSERT
\* ("drop"), on a new connection; a failure is reported and leaves the user.
RemoveUser(p) ==
    /\ At(p, "create", "undo") \/ At(p, "create", "drop")
    /\ \/ principals' = principals \ {handler[p].user}
       \/ Rejected /\ UNCHANGED principals
    /\ Return(p)
    /\ UNCHANGED <<catalog, leases, run, row>>

\* The transaction of _insert_ready_definition once it commits.
CommitRow(e, u, wantDefault) ==
    /\ ready' = ready \cup {e}
    /\ owner' = [owner EXCEPT ![e] = u]
    /\ default' = IF wantDefault \/ default = {} THEN {e} ELSE default
    /\ UNCHANGED legacy

\* sql_db retries a statement whose connection broke: a commit whose reply was
\* lost comes back as a primary key violation, and the handler drops the user.
InsertRow(p) ==
    LET h == handler[p]
        fail == IF h.user = NoUser THEN Return(p) ELSE Goto(p, "drop")
    IN
    /\ At(p, "create", "insert")
    /\ \/ ~Conflicts(h.engine, h.user) /\ CommitRow(h.engine, h.user, h.flag) /\ Return(p)
       \/ Conflicts(h.engine, h.user) /\ UNCHANGED catalog /\ fail
       \/ Rejected /\ UNCHANGED catalog /\ fail
       \/ ReplyLost /\ ~Conflicts(h.engine, h.user)
            /\ CommitRow(h.engine, h.user, h.flag) /\ fail
    /\ UNCHANGED <<principals, leases, run, row>>

-----------------------------------------------------------------------------
(* update_definition, set_default and _ensure_default                       *)

\* The configuration itself is abstracted: the UPDATE that writes it changes
\* no other column.  test_existing needs the user.
UpdateBegin(p, e, wantDefault) ==
    /\ e \in ready
    /\ owner[e] \in principals \cup {NoUser}
    /\ Enter(p, "update", IF wantDefault THEN "switch" ELSE "has_default", e, owner[e], TRUE)
    /\ UNCHANGED <<catalog, principals, leases, run, row>>

DefaultBegin(p, e) ==
    /\ e \in ready
    /\ Enter(p, "default", "switch", e, owner[e], FALSE)
    /\ UNCHANGED <<catalog, principals, leases, run, row>>

\* One transaction: clear every default, set this one, THROW (and roll back)
\* unless exactly one ready row was set.  Then the engine is read back, which
\* raises if the statement fails or the engine has gone by now.
SwitchDefault(p) ==
    LET e == handler[p].engine
        next == IF handler[p].flag THEN Goto(p, "has_default") ELSE Return(p)
    IN
    /\ handler[p].at = "switch"
    /\ \/ e \in ready /\ default' = {e} /\ (next \/ Return(p))
       \/ e \notin ready /\ UNCHANGED default /\ Return(p)
       \/ Rejected /\ UNCHANGED default /\ Return(p)
       \/ ReplyLost /\ e \in ready /\ default' = {e} /\ Return(p)
    /\ UNCHANGED <<ready, legacy, owner, principals, leases, run, row>>

HasDefault(p) ==
    /\ handler[p].at = "has_default"
    /\ \/ default # {} /\ Return(p)
       \/ default = {} /\ Goto(p, "pick_default")
       \/ Rejected /\ Return(p)
    /\ UNCHANGED <<catalog, principals, leases, run, row>>

\* A ready engine, duckdb before sql_server (creation times are abstracted).
Candidates == IF \E e \in ready : owner[e] = NoUser
              THEN {e \in ready : owner[e] = NoUser} ELSE ready

\* UX_compute_engines_default makes the UPDATE fail when another process has
\* set a default since it was found missing.
PickDefault(p) ==
    /\ handler[p].at = "pick_default"
    /\ \/ \E e \in Candidates : default \subseteq {e} /\ default' = {e}
       \/ UNCHANGED default /\ (Candidates = {} \/ default # {} \/ Rejected)
    /\ Return(p)
    /\ UNCHANGED <<ready, legacy, owner, principals, leases, run, row>>

-----------------------------------------------------------------------------
(* delete_definition, which holds the registry lock from end to end         *)

Locked(p) == handler[p].op = "delete"

\* Mutation: the leases of the process are not looked up.
DeleteBeginUnchecked(p, e) ==
    /\ e \in Rows
    /\ Enter(p, "delete", "runs", e, owner[e], e \in ready)
    /\ UNCHANGED <<catalog, principals, leases, run, row>>

\* The row is read with its state (flag: it was ready) and the leases of this
\* process are looked up; a missing row and a live lease end the request.
DeleteBegin(p, e) ==
    /\ e \in Rows
    /\ leases[p][e] = 0
    /\ Enter(p, "delete", "runs", e, owner[e], e \in ready)
    /\ UNCHANGED <<catalog, principals, leases, run, row>>

DeleteCheckRuns(p) ==
    LET h == handler[p] IN
    /\ At(p, "delete", "runs")
    /\ IF \E r \in Runs : row[r] = "running" /\ run[r].engine = h.engine
       THEN Return(p)
       ELSE Goto(p, IF h.flag THEN "remaining" ELSE "delete")
    /\ UNCHANGED <<catalog, principals, leases, run, row>>

\* Mutation: the last ready engine may go.
DeleteCheckNothing(p) ==
    /\ At(p, "delete", "remaining")
    /\ Goto(p, IF handler[p].user = NoUser THEN "delete" ELSE "drop")
    /\ UNCHANGED <<catalog, principals, leases, run, row>>

DeleteCheckRemaining(p) ==
    LET h == handler[p] IN
    /\ At(p, "delete", "remaining")
    /\ IF ready \ {h.engine} = {}
       THEN Return(p)
       ELSE Goto(p, IF h.user = NoUser THEN "delete" ELSE "drop")
    /\ UNCHANGED <<catalog, principals, leases, run, row>>

\* A failure keeps the metadata as it is.
DeleteDropUser(p) ==
    LET dropped == principals \ {handler[p].user} IN
    /\ At(p, "delete", "drop")
    /\ \/ principals' = dropped /\ Goto(p, "delete")
       \/ Rejected /\ UNCHANGED principals /\ Return(p)
       \/ ReplyLost /\ principals' = dropped /\ Return(p)
    /\ UNCHANGED <<catalog, leases, run, row>>

RemoveRow(e) ==
    /\ ready' = ready \ {e}
    /\ legacy' = legacy \ {e}
    /\ default' = default \ {e}
    /\ UNCHANGED owner

\* Mutation: the default is not chosen anew.
DeleteRowOnly(p) ==
    /\ At(p, "delete", "delete")
    /\ RemoveRow(handler[p].engine)
    /\ Return(p)
    /\ UNCHANGED <<principals, leases, run, row>>

DeleteRow(p) ==
    LET e == handler[p].engine IN
    /\ At(p, "delete", "delete")
    /\ \/ RemoveRow(e) /\ Goto(p, "has_default")
       \/ Rejected /\ UNCHANGED catalog /\ Return(p)
       \/ ReplyLost /\ RemoveRow(e) /\ Return(p)
    /\ UNCHANGED <<principals, leases, run, row>>

-----------------------------------------------------------------------------
(* start_ask and ask: the lease of a run                                    *)

\* acquire: the engine asked for, or the default one, if it is ready.
Resolves(e) == IF e = NoEngine THEN default \cap ready ELSE {e} \cap ready

AskAcquire(p, r, requested) ==
    /\ run[r].at = "new"
    /\ \E e \in Resolves(requested) :
        /\ leases' = [leases EXCEPT ![p][e] = @ + 1]
        /\ run' = [run EXCEPT ![r] = [at |-> "leased", proc |-> p, engine |-> e]]
    /\ Enter(p, "ask", "ask", NoEngine, NoUser, FALSE)
    /\ UNCHANGED <<catalog, principals, row>>

AskRecord(r) ==
    /\ run[r].at = "leased"
    /\ \/ row' = [row EXCEPT ![r] = "running"]
       \/ "recorder" \in Faults /\ UNCHANGED row
    /\ run' = [run EXCEPT ![r].at = "recorded"]
    /\ UNCHANGED <<catalog, principals, leases, handler>>

\* Mutation: the entry is popped whatever the count.
ReleasedAll(count) == 0

\* release: the count, popped when it would reach zero.
Released(count) == IF count <= 1 THEN 0 ELSE count - 1

Release(r) ==
    leases' = [leases EXCEPT ![run[r].proc][run[r].engine] = Released(@)]

AskSpawn(r) ==
    /\ run[r].at = "recorded"
    /\ \/ run' = [run EXCEPT ![r].at = "executing"] /\ UNCHANGED leases
       \/ "spawn" \in Faults /\ run' = [run EXCEPT ![r].at = "gone"] /\ Release(r)
    /\ Return(run[r].proc)
    /\ UNCHANGED <<catalog, principals, row>>

\* The coordinator resolves the engine a second time when the plan needs it.
RunOpenFails(r) ==
    /\ run[r].at = "executing"
    /\ run[r].engine \notin ready
    /\ run' = [run EXCEPT ![r].at = "unavailable"]
    /\ UNCHANGED <<catalog, principals, leases, handler, row>>

\* finish_run, whatever became of the stages: an UPDATE of the row, if any.
RunFinish(r) ==
    /\ run[r].at \in {"executing", "unavailable"}
    /\ \/ row' = [row EXCEPT ![r] = IF @ = "running" THEN "ended" ELSE @]
       \/ "recorder" \in Faults /\ UNCHANGED row
    /\ run' = [run EXCEPT ![r].at = "finished"]
    /\ UNCHANGED <<catalog, principals, leases, handler>>

\* Mutation: only a run whose row was written is released.
RunReleaseIfUnclosed(r) ==
    /\ run[r].at = "finished"
    /\ row[r] = "running"
    /\ ~Locked(run[r].proc)
    /\ Release(r)
    /\ run' = [run EXCEPT ![r].at = "gone"]
    /\ UNCHANGED <<catalog, principals, handler, row>>

\* The release of the finally block waits for the registry lock.
RunRelease(r) ==
    /\ run[r].at = "finished"
    /\ ~Locked(run[r].proc)
    /\ Release(r)
    /\ run' = [run EXCEPT ![r].at = "gone"]
    /\ UNCHANGED <<catalog, principals, handler, row>>

-----------------------------------------------------------------------------
\* A process dies, with its leases, its handler and its daemon threads, and
\* starts again.  What the database holds stays.
Crash(p) ==
    /\ "crash" \in Faults
    /\ leases' = [leases EXCEPT ![p] = [e \in Engines |-> 0]]
    /\ Return(p)
    /\ run' = [r \in Runs |->
                 IF run[r].proc = p /\ run[r].at \in HoldingSteps
                 THEN [run[r] EXCEPT !.at = "gone"] ELSE run[r]]
    /\ UNCHANGED <<catalog, principals, row>>

Create(p) ==
    \/ \E e \in Engines, u \in Users \cup {NoUser}, f \in BOOLEAN : CreateBegin(p, e, u, f)
    \/ CreateUser(p) \/ TestUser(p) \/ RemoveUser(p) \/ InsertRow(p)

Choose(p) ==
    \/ \E e \in Engines, f \in BOOLEAN : UpdateBegin(p, e, f)
    \/ \E e \in Engines : DefaultBegin(p, e)
    \/ SwitchDefault(p) \/ HasDefault(p) \/ PickDefault(p)

Delete(p) ==
    \/ \E e \in Engines : DeleteBegin(p, e)
    \/ DeleteCheckRuns(p) \/ DeleteCheckRemaining(p) \/ DeleteDropUser(p) \/ DeleteRow(p)

Ask(p) == \E r \in Runs, e \in Engines \cup {NoEngine} : AskAcquire(p, r, e)

Thread(r) == AskRecord(r) \/ AskSpawn(r) \/ RunOpenFails(r) \/ RunFinish(r) \/ RunRelease(r)

Next ==
    \/ \E p \in Procs : Create(p) \/ Choose(p) \/ Delete(p) \/ Ask(p) \/ Crash(p)
    \/ \E r \in Runs : Thread(r)

Spec == Init /\ [][Next]_vars

\* A handler in progress and the thread of an ask go on; a thread that waits
\* for the registry lock gets it if it is free again and again.
HandlerStep(p) ==
    \/ CreateUser(p) \/ TestUser(p) \/ RemoveUser(p) \/ InsertRow(p)
    \/ SwitchDefault(p) \/ HasDefault(p) \/ PickDefault(p)
    \/ DeleteCheckRuns(p) \/ DeleteCheckRemaining(p) \/ DeleteDropUser(p) \/ DeleteRow(p)

Fairness ==
    /\ \A p \in Procs : WF_vars(HandlerStep(p))
    /\ \A r \in Runs : WF_vars(AskRecord(r) \/ AskSpawn(r) \/ RunFinish(r)) /\ SF_vars(RunRelease(r))

FairSpec == Spec /\ Fairness

-----------------------------------------------------------------------------
(* Properties                                                               *)

\* _active_runs counts exactly the asks that hold their lease: no path of
\* start_ask, ask or a crash releases twice or forgets to.
LeaseAccounting ==
    \A p \in Procs, e \in Engines : leases[p][e] = Cardinality(Holders(p, e))

\* While a process deletes an engine none of its own asks holds it, however
\* long the deletion takes and whatever fails in it.
DeletedEngineUnleased ==
    \A p \in Procs : Locked(p) => leases[p][handler[p].engine] = 0

\* With one process, the engine of a run that holds a lease stays available.
RunKeepsEngine ==
    \A r \in Runs : run[r].at \in HoldingSteps => run[r].engine \in ready

\* With one process, there is always an engine to run on.
KeepsOneReady == ready # {}

\* A database user that is not Data Nexus's own is never dropped, neither by
\* the rollback of a failed creation nor by a deletion.
ForeignUsersKept == Foreign \subseteq principals

\* Between requests there is a default engine as long as there is an engine,
\* even if several processes delete and switch defaults at once.
DefaultRestored ==
    (\A p \in Procs : handler[p].op \in {"none", "ask"}) /\ ready # {} => default # {}

\* An ask that was accepted releases its lease and closes its row, so that
\* its engine can be deleted afterwards.
RunsEnd ==
    \A r \in Runs : run[r].at = "leased" ~> run[r].at = "gone" /\ row[r] = "ended"

Leases == INSTANCE EngineLeases WITH
    Nobody <- NoEngine,
    offered <- ready,
    held <- [r \in Runs |-> IF run[r].at \in HoldingSteps THEN run[r].engine ELSE NoEngine],
    done <- {r \in Runs : run[r].at = "gone"}

\* One backend process implements the abstract leases, whatever statement
\* fails and whenever it crashes.
ImplementsLeases == Leases!Spec

=============================================================================
