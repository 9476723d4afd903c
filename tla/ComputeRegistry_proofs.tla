------------------------ MODULE ComputeRegistry_proofs ------------------------
(***************************************************************************)
(* Theorems about ComputeRegistry, for any number of processes, engines,   *)
(* users and runs and for every combination of faults.                     *)
(***************************************************************************)
EXTENDS ComputeRegistry, FiniteSetTheorems, TLAPS

LEMMA IdleType == Idle \in Handlers
  BY DEF Idle, Handlers, Operations

\* Only creations, updates, default switches and deletions name an engine.
EngineNamed ==
    \A p \in Procs : handler[p].op \in {"create", "update", "default", "delete"}
                        => handler[p].engine \in Engines

\* The steps of an operation that touch a row.
StepsMatch ==
    \A p \in Procs :
        /\ handler[p].at \in DefaultSteps => handler[p].op \in {"update", "default", "delete"}
        /\ handler[p].at = "user" => handler[p].user \in Users

HandlerInv == handler \in [Procs -> Handlers] /\ EngineNamed /\ StepsMatch

TypeInv == TypeOK /\ EngineNamed /\ StepsMatch

LEMMA TypeInvInit == Init => TypeInv
<1> SUFFICES ASSUME Init PROVE TypeInv
  OBVIOUS
<1>1. PICK d \in Engines, old \in SUBSET Engines, p \in Procs :
        /\ ready = {d}
        /\ legacy = old \ {d}
        /\ owner \in {o \in [Engines -> Users \cup {NoUser}] :
                        /\ \A e \in Engines : o[e] # NoUser => e \in legacy
                        /\ \A e, f \in legacy : o[e] = o[f] => e = f \/ o[e] = NoUser}
        /\ default = {d}
        /\ principals = Foreign
        /\ leases = [q \in Procs |-> [e \in Engines |-> 0]]
        /\ handler = [q \in Procs |-> Idle]
        /\ run = [r \in Runs |-> [at |-> "new", proc |-> p, engine |-> d]]
        /\ row = [r \in Runs |-> "none"]
  BY DEF Init
<1>2. TypeOK
  <2>1. handler \in [Procs -> Handlers]
    BY <1>1, IdleType
  <2>2. principals \subseteq Users
    BY <1>1, ConstantsOK
  <2>3. run \in [Runs -> [at : RunSteps, proc : Procs, engine : Engines]]
    BY <1>1 DEF RunSteps
  <2>4. ready \subseteq Engines /\ legacy \subseteq Engines \ ready /\ default \subseteq ready
    BY <1>1
  <2>5. owner \in [Engines -> Users \cup {NoUser}]
    BY <1>1
  <2>6. leases \in [Procs -> [Engines -> Nat]] /\ row \in [Runs -> {"none", "running", "ended"}]
    BY <1>1
  <2> QED BY <2>1, <2>2, <2>3, <2>4, <2>5, <2>6 DEF TypeOK
<1>3. EngineNamed /\ StepsMatch
  BY <1>1 DEF EngineNamed, StepsMatch, Idle, DefaultSteps
<1> QED BY <1>2, <1>3 DEF TypeInv

\* What returning, going on and entering do to the handlers.
LEMMA ReturnKeeps ==
    ASSUME TypeInv, NEW p \in Procs, Return(p) PROVE HandlerInv'
  BY IdleType DEF TypeInv, TypeOK, HandlerInv, Return, EngineNamed, StepsMatch, Idle, DefaultSteps

LEMMA GotoKeeps ==
    ASSUME TypeInv, NEW p \in Procs,
           NEW step \in (CreateSteps \ {"user"}) \cup DeleteSteps \cup DefaultSteps,
           step \in DefaultSteps => handler[p].op \in {"update", "default", "delete"},
           Goto(p, step)
    PROVE  HandlerInv'
<1>1. handler[p] \in Handlers
  BY DEF TypeInv, TypeOK
<1>2. [handler[p] EXCEPT !.at = step] \in Handlers
  BY <1>1 DEF Handlers
<1>3. handler' = [handler EXCEPT ![p] = [handler[p] EXCEPT !.at = step]]
  BY DEF Goto
<1>4. handler' \in [Procs -> Handlers]
  BY <1>2, <1>3 DEF TypeInv, TypeOK
<1>5. EngineNamed' /\ StepsMatch'
  BY <1>1, <1>3 DEF TypeInv, TypeOK, EngineNamed, StepsMatch, Handlers,
                    CreateSteps, DeleteSteps, DefaultSteps
<1> QED BY <1>4, <1>5 DEF HandlerInv

LEMMA EnterKeeps ==
    ASSUME TypeInv, NEW p \in Procs,
           NEW op \in Operations \ {"none", "ask"},
           NEW step \in CreateSteps \cup DeleteSteps \cup DefaultSteps,
           step \in DefaultSteps => op \in {"update", "default", "delete"},
           NEW e \in Engines, NEW u \in Users \cup {NoUser}, NEW f \in BOOLEAN,
           step = "user" => u \in Users,
           Enter(p, op, step, e, u, f)
    PROVE  HandlerInv'
<1> DEFINE h == [op |-> op, at |-> step, engine |-> e, user |-> u, flag |-> f]
<1>1. h \in Handlers
  BY DEF Handlers
<1>2. handler' = [handler EXCEPT ![p] = h]
  BY DEF Enter
<1>3. handler' \in [Procs -> Handlers]
  BY <1>1, <1>2 DEF TypeInv, TypeOK
<1>4. EngineNamed' /\ StepsMatch'
  BY <1>2 DEF TypeInv, TypeOK, EngineNamed, StepsMatch
<1> QED BY <1>3, <1>4 DEF HandlerInv

\* The rest of TypeInv when only the tables change.
Tables ==
    /\ ready \subseteq Engines
    /\ legacy \subseteq Engines \ ready
    /\ owner \in [Engines -> Users \cup {NoUser}]
    /\ default \subseteq ready
    /\ principals \subseteq Users

LEMMA TypeInvFromParts ==
    ASSUME TypeInv, UNCHANGED <<leases, run, row>>, HandlerInv', Tables' PROVE TypeInv'
  BY DEF TypeInv, TypeOK, HandlerInv, Tables

LEMMA TablesKept ==
    ASSUME TypeInv, UNCHANGED <<ready, legacy, owner, default, principals>> PROVE Tables'
  BY DEF TypeInv, TypeOK, Tables

LEMMA HandlerFacts ==
    ASSUME TypeInv, NEW p \in Procs
    PROVE  /\ handler[p].user \in Users \cup {NoUser}
           /\ handler[p].flag \in BOOLEAN
           /\ handler[p].op \in {"create", "update", "default", "delete"}
                 => handler[p].engine \in Engines
           /\ handler[p].at \in DefaultSteps => handler[p].engine \in Engines
  BY DEF TypeInv, TypeOK, Handlers, EngineNamed, StepsMatch

LEMMA CommitTypes ==
    ASSUME TypeInv, NEW e \in Engines \ Rows, NEW u \in Users \cup {NoUser}, NEW d \in BOOLEAN,
           CommitRow(e, u, d), UNCHANGED principals
    PROVE  Tables'
  BY DEF TypeInv, TypeOK, Tables, CommitRow, Rows

LEMMA CreateTypes ==
    ASSUME TypeInv, NEW p \in Procs, Create(p) PROVE TypeInv'
<1> USE DEF CreateSteps, DefaultSteps
<1>1. ASSUME NEW e \in Engines, NEW u \in Users \cup {NoUser}, NEW f \in BOOLEAN,
             CreateBegin(p, e, u, f)
      PROVE  TypeInv'
  <2>1. HandlerInv'
    BY <1>1, EnterKeeps DEF CreateBegin, Operations
  <2> QED BY <1>1, <2>1, TablesKept, TypeInvFromParts DEF CreateBegin, catalog
<1>2. CASE CreateUser(p)
  <2>1. HandlerInv'
    BY <1>2, GotoKeeps, ReturnKeeps DEF CreateUser
  <2>2. handler[p].user \in Users
    BY <1>2 DEF CreateUser, At, TypeInv, StepsMatch
  <2>3. Tables'
    BY <1>2, <2>2 DEF CreateUser, Tables, TypeInv, TypeOK, catalog
  <2> QED BY <1>2, <2>1, <2>3, TypeInvFromParts DEF CreateUser
<1>3. CASE TestUser(p)
  <2>1. HandlerInv'
    BY <1>3, GotoKeeps DEF TestUser
  <2> QED BY <1>3, <2>1, TablesKept, TypeInvFromParts DEF TestUser, catalog
<1>4. CASE RemoveUser(p)
  <2>1. HandlerInv'
    BY <1>4, ReturnKeeps DEF RemoveUser
  <2>2. Tables'
    BY <1>4 DEF RemoveUser, Tables, TypeInv, TypeOK, catalog
  <2> QED BY <1>4, <2>1, <2>2, TypeInvFromParts DEF RemoveUser
<1>5. CASE InsertRow(p)
  <2>1. HandlerInv'
    BY <1>5, GotoKeeps, ReturnKeeps DEF InsertRow
  <2>2. handler[p].engine \in Engines /\ handler[p].user \in Users \cup {NoUser}
          /\ handler[p].flag \in BOOLEAN
    BY <1>5, HandlerFacts DEF InsertRow, At
  <2>3. Tables'
    BY <1>5, <2>2, CommitTypes, TablesKept DEF InsertRow, Conflicts, catalog
  <2> QED BY <1>5, <2>1, <2>3, TypeInvFromParts DEF InsertRow
<1> QED BY <1>1, <1>2, <1>3, <1>4, <1>5 DEF Create

LEMMA ChooseTypes ==
    ASSUME TypeInv, NEW p \in Procs, Choose(p) PROVE TypeInv'
<1> USE DEF DefaultSteps
<1>1. ASSUME NEW e \in Engines, NEW f \in BOOLEAN, UpdateBegin(p, e, f) PROVE TypeInv'
  <2>1. owner[e] \in Users \cup {NoUser}
    BY DEF TypeInv, TypeOK
  <2>2. HandlerInv'
    BY <1>1, <2>1, EnterKeeps DEF UpdateBegin, Operations
  <2> QED BY <1>1, <2>2, TablesKept, TypeInvFromParts DEF UpdateBegin, catalog
<1>2. ASSUME NEW e \in Engines, DefaultBegin(p, e) PROVE TypeInv'
  <2>1. owner[e] \in Users \cup {NoUser}
    BY DEF TypeInv, TypeOK
  <2>2. HandlerInv'
    BY <1>2, <2>1, EnterKeeps DEF DefaultBegin, Operations
  <2> QED BY <1>2, <2>2, TablesKept, TypeInvFromParts DEF DefaultBegin, catalog
<1>3. CASE SwitchDefault(p)
  <2>1. handler[p].op \in {"update", "default", "delete"}
    BY <1>3 DEF SwitchDefault, TypeInv, StepsMatch
  <2>2. HandlerInv'
    BY <1>3, <2>1, GotoKeeps, ReturnKeeps DEF SwitchDefault
  <2>3. Tables'
    BY <1>3 DEF SwitchDefault, Tables, TypeInv, TypeOK
  <2> QED BY <1>3, <2>2, <2>3, TypeInvFromParts DEF SwitchDefault
<1>4. CASE HasDefault(p)
  <2>1. handler[p].op \in {"update", "default", "delete"}
    BY <1>4 DEF HasDefault, TypeInv, StepsMatch
  <2>2. HandlerInv'
    BY <1>4, <2>1, GotoKeeps, ReturnKeeps DEF HasDefault
  <2> QED BY <1>4, <2>2, TablesKept, TypeInvFromParts DEF HasDefault, catalog
<1>5. CASE PickDefault(p)
  <2>1. HandlerInv'
    BY <1>5, ReturnKeeps DEF PickDefault
  <2>2. Candidates \subseteq ready
    BY DEF Candidates
  <2>3. Tables'
    BY <1>5, <2>2 DEF PickDefault, Tables, TypeInv, TypeOK
  <2> QED BY <1>5, <2>1, <2>3, TypeInvFromParts DEF PickDefault
<1> QED BY <1>1, <1>2, <1>3, <1>4, <1>5 DEF Choose

LEMMA DeleteTypes ==
    ASSUME TypeInv, NEW p \in Procs, Delete(p) PROVE TypeInv'
<1> USE DEF DeleteSteps, DefaultSteps
<1>1. ASSUME NEW e \in Engines, DeleteBegin(p, e) PROVE TypeInv'
  <2>1. owner[e] \in Users \cup {NoUser}
    BY DEF TypeInv, TypeOK
  <2> DEFINE wasReady == e \in ready
  <2>3. wasReady \in BOOLEAN
    OBVIOUS
  <2>4. Enter(p, "delete", "runs", e, owner[e], wasReady)
    BY <1>1 DEF DeleteBegin
  <2> HIDE DEF wasReady
  <2>2. HandlerInv'
    BY <2>1, <2>3, <2>4, EnterKeeps DEF Operations
  <2> QED BY <1>1, <2>2, TablesKept, TypeInvFromParts DEF DeleteBegin, catalog
<1>2. CASE DeleteCheckRuns(p)
  <2>1. HandlerInv'
    BY <1>2, GotoKeeps, ReturnKeeps DEF DeleteCheckRuns
  <2> QED BY <1>2, <2>1, TablesKept, TypeInvFromParts DEF DeleteCheckRuns, catalog
<1>3. CASE DeleteCheckRemaining(p)
  <2>1. HandlerInv'
    BY <1>3, GotoKeeps, ReturnKeeps DEF DeleteCheckRemaining
  <2> QED BY <1>3, <2>1, TablesKept, TypeInvFromParts DEF DeleteCheckRemaining, catalog
<1>4. CASE DeleteDropUser(p)
  <2>1. HandlerInv'
    BY <1>4, GotoKeeps, ReturnKeeps DEF DeleteDropUser
  <2>2. Tables'
    BY <1>4 DEF DeleteDropUser, Tables, TypeInv, TypeOK, catalog
  <2> QED BY <1>4, <2>1, <2>2, TypeInvFromParts DEF DeleteDropUser
<1>5. CASE DeleteRow(p)
  <2>1. HandlerInv'
    BY <1>5, GotoKeeps, ReturnKeeps DEF DeleteRow, At
  <2>2. Tables'
    BY <1>5 DEF DeleteRow, RemoveRow, Tables, TypeInv, TypeOK, catalog
  <2> QED BY <1>5, <2>1, <2>2, TypeInvFromParts DEF DeleteRow
<1> QED BY <1>1, <1>2, <1>3, <1>4, <1>5 DEF Delete

LEMMA AskTypes ==
    ASSUME TypeInv, NEW p \in Procs, Ask(p) PROVE TypeInv'
<1> PICK r \in Runs, e \in Engines \cup {NoEngine} : AskAcquire(p, r, e)
  BY DEF Ask
<1> PICK f \in Engines :
      /\ f \in ready
      /\ leases' = [leases EXCEPT ![p][f] = @ + 1]
      /\ run' = [run EXCEPT ![r] = [at |-> "leased", proc |-> p, engine |-> f]]
  BY DEF AskAcquire, Resolves, TypeInv, TypeOK
<1>1. leases' \in [Procs -> [Engines -> Nat]]
  BY DEF TypeInv, TypeOK
<1>2. run' \in [Runs -> [at : RunSteps, proc : Procs, engine : Engines]]
  BY DEF TypeInv, TypeOK, RunSteps
<1> QED BY <1>1, <1>2 DEF AskAcquire, TypeInv, TypeOK, EngineNamed, StepsMatch, catalog, Enter,
        Handlers, Operations, CreateSteps, DeleteSteps, DefaultSteps, Idle

\* A release leaves every count a natural number.
LEMMA ReleaseType ==
    ASSUME TypeOK, NEW r \in Runs, Release(r) PROVE leases' \in [Procs -> [Engines -> Nat]]
<1>1. run[r].proc \in Procs /\ run[r].engine \in Engines
  BY DEF TypeOK
<1>2. \A c \in Nat : Released(c) \in Nat
  BY DEF Released
<1> QED BY <1>1, <1>2 DEF Release, TypeOK

LEMMA RunStepType ==
    ASSUME TypeOK, NEW r \in Runs, NEW step \in RunSteps, run' = [run EXCEPT ![r].at = step]
    PROVE  run' \in [Runs -> [at : RunSteps, proc : Procs, engine : Engines]]
  BY DEF TypeOK

LEMMA ThreadTypes ==
    ASSUME TypeInv, NEW r \in Runs, Thread(r) PROVE TypeInv'
<1> USE DEF TypeInv
<1>0. run[r].proc \in Procs
  BY DEF TypeOK
<1>1. CASE AskRecord(r)
  BY <1>1 DEF AskRecord, TypeOK, EngineNamed, StepsMatch, catalog, RunSteps
<1>2. CASE AskSpawn(r)
  <2>1. leases' \in [Procs -> [Engines -> Nat]]
    BY <1>2, ReleaseType DEF AskSpawn, TypeOK
  <2>2. run' \in [Runs -> [at : RunSteps, proc : Procs, engine : Engines]]
    BY <1>2, RunStepType DEF AskSpawn, RunSteps
  <2>3. handler' \in [Procs -> Handlers] /\ EngineNamed' /\ StepsMatch'
    <3>1. Return(run[r].proc)
      BY <1>2 DEF AskSpawn
    <3>2. HandlerInv'
      BY <1>0, <3>1, ReturnKeeps
    <3> QED BY <3>2 DEF HandlerInv
  <2> QED BY <1>2, <2>1, <2>2, <2>3 DEF AskSpawn, TypeOK, catalog
<1>3. CASE RunOpenFails(r)
  BY <1>3 DEF RunOpenFails, TypeOK, EngineNamed, StepsMatch, catalog, RunSteps
<1>4. CASE RunFinish(r)
  BY <1>4 DEF RunFinish, TypeOK, EngineNamed, StepsMatch, catalog, RunSteps
<1>5. CASE RunRelease(r)
  BY <1>5, ReleaseType DEF RunRelease, TypeOK, EngineNamed, StepsMatch, catalog, RunSteps
<1> QED BY <1>1, <1>2, <1>3, <1>4, <1>5 DEF Thread

LEMMA CrashTypes ==
    ASSUME TypeInv, NEW p \in Procs, Crash(p) PROVE TypeInv'
<1>1. leases' \in [Procs -> [Engines -> Nat]]
  BY DEF Crash, TypeInv, TypeOK
<1>2. run' \in [Runs -> [at : RunSteps, proc : Procs, engine : Engines]]
  BY DEF Crash, TypeInv, TypeOK, RunSteps, HoldingSteps
<1>3. handler' \in [Procs -> Handlers] /\ EngineNamed' /\ StepsMatch'
  BY ReturnKeeps DEF Crash, HandlerInv
<1> QED BY <1>1, <1>2, <1>3 DEF Crash, TypeInv, TypeOK, catalog

LEMMA TypeInvNext == TypeInv /\ [Next]_vars => TypeInv'
<1>1. ASSUME TypeInv, UNCHANGED vars PROVE TypeInv'
  BY <1>1 DEF TypeInv, TypeOK, EngineNamed, StepsMatch, vars
<1> QED BY <1>1, CreateTypes, ChooseTypes, DeleteTypes, AskTypes, CrashTypes, ThreadTypes DEF Next

\* Every variable keeps its type.
THEOREM TypeCorrect == Spec => []TypeOK
<1>1. Spec => []TypeInv
  BY TypeInvInit, TypeInvNext, PTL DEF Spec
<1>2. TypeInv => TypeOK
  BY DEF TypeInv
<1> QED BY <1>1, <1>2, PTL

-----------------------------------------------------------------------------
(* Users Data Nexus did not create.                                         *)

\* A row that is ready, a creation past CREATE USER and a deletion that may
\* reach DROP USER are never about a foreign user.
OwnUser(h) ==
    /\ h.op = "create" /\ h.at \in {"test", "undo", "insert", "drop"} => h.user \notin Foreign
    /\ h.op = "delete" /\ h.flag => h.user \notin Foreign
    /\ h.op = "delete" /\ h.at \in {"remaining", "drop"} => h.flag

OwnUsers == \A p \in Procs : OwnUser(handler[p])

OwnersKnown == \A e \in ready : owner[e] \notin Foreign

ForeignInv == ForeignUsersKept /\ OwnersKnown /\ OwnUsers

LEMMA ForeignInit == Init => ForeignInv
  BY ConstantsOK DEF Init, ForeignInv, ForeignUsersKept, OwnersKnown, OwnUsers, OwnUser, Idle

LEMMA OwnReturn ==
    ASSUME TypeInv, OwnUsers, NEW p \in Procs, Return(p) PROVE OwnUsers'
  BY DEF TypeInv, TypeOK, OwnUsers, OwnUser, Return, Idle

LEMMA OwnGoto ==
    ASSUME TypeInv, OwnUsers, NEW p \in Procs, NEW step, Goto(p, step),
           handler[p].op = "create" => step = "user" \/ handler[p].user \notin Foreign,
           handler[p].op = "delete" /\ step \in {"remaining", "drop"} => handler[p].flag
    PROVE  OwnUsers'
<1> DEFINE h == handler[p]
           g == [op |-> h.op, at |-> step, engine |-> h.engine, user |-> h.user, flag |-> h.flag]
<1>1. h \in Handlers
  BY DEF TypeInv, TypeOK
<1>2. [h EXCEPT !.at = step] = g
  BY <1>1 DEF Handlers
<1>3. handler' = [handler EXCEPT ![p] = g]
  BY <1>2 DEF Goto
<1>4. OwnUser(g)
  BY DEF OwnUsers, OwnUser
<1> HIDE DEF g
<1>5. \A q \in Procs : handler'[q] = IF q = p THEN g ELSE handler[q]
  BY <1>3 DEF TypeInv, TypeOK
<1> QED BY <1>4, <1>5 DEF OwnUsers

LEMMA OwnEnter ==
    ASSUME TypeInv, OwnUsers, NEW p \in Procs, NEW op, NEW step,
           NEW e \in Engines \cup {NoEngine}, NEW u \in Users \cup {NoUser}, NEW f \in BOOLEAN,
           Enter(p, op, step, e, u, f),
           op = "create" => step = "user" \/ u \notin Foreign,
           op = "delete" => step = "runs" /\ (f => u \notin Foreign)
    PROVE  OwnUsers'
<1> DEFINE g == [op |-> op, at |-> step, engine |-> e, user |-> u, flag |-> f]
<1>1. handler' = [handler EXCEPT ![p] = g]
  BY DEF Enter
<1>2. OwnUser(g)
  BY DEF OwnUser
<1> HIDE DEF g
<1>3. \A q \in Procs : handler'[q] = IF q = p THEN g ELSE handler[q]
  BY <1>1 DEF TypeInv, TypeOK
<1> QED BY <1>2, <1>3 DEF OwnUsers

LEMMA ForeignCreate ==
    ASSUME TypeInv, ForeignInv, NEW p \in Procs, Create(p) PROVE ForeignInv'
<1> USE DEF ForeignInv
<1>1. ASSUME NEW e \in Engines, NEW u \in Users \cup {NoUser}, NEW f \in BOOLEAN,
             CreateBegin(p, e, u, f)
      PROVE  ForeignInv'
  <2>1. CASE u = NoUser
    <3>1. Enter(p, "create", "insert", e, u, f) /\ u \notin Foreign
      BY <1>1, <2>1, ConstantsOK DEF CreateBegin
    <3> QED BY <1>1, <3>1, OwnEnter DEF CreateBegin, ForeignUsersKept, OwnersKnown, catalog
  <2>2. CASE u # NoUser
    <3>1. Enter(p, "create", "user", e, u, f)
      BY <1>1, <2>2 DEF CreateBegin
    <3> QED BY <1>1, <3>1, OwnEnter DEF CreateBegin, ForeignUsersKept, OwnersKnown, catalog
  <2> QED BY <2>1, <2>2
<1>2. CASE CreateUser(p)
  <2>1. ForeignUsersKept' /\ OwnersKnown'
    BY <1>2 DEF CreateUser, ForeignUsersKept, OwnersKnown, catalog
  <2>2. Return(p) \/ (handler[p].user \notin Foreign /\ Goto(p, "test"))
    BY <1>2 DEF CreateUser, ForeignUsersKept
  <2> QED BY <1>2, <2>1, <2>2, OwnReturn, OwnGoto DEF CreateUser, At
<1>3. CASE TestUser(p)
  <2>1. handler[p].op = "create" /\ handler[p].user \notin Foreign
    BY <1>3 DEF TestUser, At, OwnUsers, OwnUser
  <2>2. OwnUsers'
    BY <1>3, <2>1, OwnGoto DEF TestUser
  <2> QED BY <1>3, <2>2 DEF TestUser, ForeignUsersKept, OwnersKnown, catalog
<1>4. CASE RemoveUser(p)
  <2>1. handler[p].user \notin Foreign
    BY <1>4 DEF RemoveUser, At, OwnUsers, OwnUser
  <2>2. OwnUsers'
    BY <1>4, OwnReturn DEF RemoveUser
  <2> QED BY <1>4, <2>1, <2>2 DEF RemoveUser, ForeignUsersKept, OwnersKnown, catalog
<1>5. CASE InsertRow(p)
  <2>1. handler[p].op = "create" /\ handler[p].user \notin Foreign
    BY <1>5 DEF InsertRow, At, OwnUsers, OwnUser
  <2>2. UNCHANGED catalog \/ CommitRow(handler[p].engine, handler[p].user, handler[p].flag)
    BY <1>5 DEF InsertRow
  <2>3. OwnersKnown'
    <3>1. handler[p].engine \in Engines
      BY <2>1, HandlerFacts
    <3> QED BY <2>1, <2>2, <3>1 DEF OwnersKnown, CommitRow, TypeInv, TypeOK, catalog
  <2>4. Return(p) \/ Goto(p, "drop")
    BY <1>5 DEF InsertRow
  <2>5. OwnUsers'
    BY <2>1, <2>4, OwnReturn, OwnGoto
  <2> QED BY <1>5, <2>3, <2>5 DEF InsertRow, ForeignUsersKept
<1> QED BY <1>1, <1>2, <1>3, <1>4, <1>5 DEF Create

LEMMA ForeignDelete ==
    ASSUME TypeInv, ForeignInv, NEW p \in Procs, Delete(p) PROVE ForeignInv'
<1> USE DEF ForeignInv
<1>1. ASSUME NEW e \in Engines, DeleteBegin(p, e) PROVE ForeignInv'
  <2> DEFINE wasReady == e \in ready
  <2>1. wasReady \in BOOLEAN /\ owner[e] \in Users \cup {NoUser}
    BY DEF TypeInv, TypeOK
  <2>2. wasReady => owner[e] \notin Foreign
    BY DEF OwnersKnown
  <2>3. Enter(p, "delete", "runs", e, owner[e], wasReady)
    BY <1>1 DEF DeleteBegin
  <2> HIDE DEF wasReady
  <2>4. OwnUsers'
    BY <2>1, <2>2, <2>3, OwnEnter
  <2> QED BY <1>1, <2>4 DEF DeleteBegin, ForeignUsersKept, OwnersKnown, catalog
<1>2. CASE DeleteCheckRuns(p)
  <2>1. handler[p].op = "delete"
    BY <1>2 DEF DeleteCheckRuns, At
  <2>2. Return(p) \/ (handler[p].flag /\ Goto(p, "remaining")) \/ Goto(p, "delete")
    BY <1>2 DEF DeleteCheckRuns
  <2>3. OwnUsers'
    BY <2>1, <2>2, OwnReturn, OwnGoto
  <2> QED BY <1>2, <2>3 DEF DeleteCheckRuns, ForeignUsersKept, OwnersKnown, catalog
<1>3. CASE DeleteCheckRemaining(p)
  <2>1. handler[p].op = "delete" /\ handler[p].flag
    BY <1>3 DEF DeleteCheckRemaining, At, OwnUsers, OwnUser
  <2>2. Return(p) \/ Goto(p, "drop") \/ Goto(p, "delete")
    BY <1>3 DEF DeleteCheckRemaining
  <2>3. OwnUsers'
    BY <2>1, <2>2, OwnReturn, OwnGoto
  <2> QED BY <1>3, <2>3 DEF DeleteCheckRemaining, ForeignUsersKept, OwnersKnown, catalog
<1>4. CASE DeleteDropUser(p)
  <2>1. handler[p].op = "delete" /\ handler[p].user \notin Foreign
    BY <1>4 DEF DeleteDropUser, At, OwnUsers, OwnUser
  <2>2. Return(p) \/ Goto(p, "delete")
    BY <1>4 DEF DeleteDropUser
  <2>3. OwnUsers'
    BY <2>1, <2>2, OwnReturn, OwnGoto
  <2> QED BY <1>4, <2>1, <2>3 DEF DeleteDropUser, ForeignUsersKept, OwnersKnown, catalog
<1>5. CASE DeleteRow(p)
  <2>1. handler[p].op = "delete"
    BY <1>5 DEF DeleteRow, At
  <2>2. Return(p) \/ Goto(p, "has_default")
    BY <1>5 DEF DeleteRow
  <2>3. OwnUsers'
    BY <2>1, <2>2, OwnReturn, OwnGoto
  <2> QED BY <1>5, <2>3 DEF DeleteRow, RemoveRow, ForeignUsersKept, OwnersKnown, catalog
<1> QED BY <1>1, <1>2, <1>3, <1>4, <1>5 DEF Delete

LEMMA ForeignChoose ==
    ASSUME TypeInv, ForeignInv, NEW p \in Procs, Choose(p) PROVE ForeignInv'
<1> USE DEF ForeignInv
<1>0. \A e \in Engines : owner[e] \in Users \cup {NoUser}
  BY DEF TypeInv, TypeOK
<1>1. ASSUME NEW e \in Engines, NEW f \in BOOLEAN, UpdateBegin(p, e, f) PROVE ForeignInv'
  <2>1. \E step : Enter(p, "update", step, e, owner[e], TRUE)
    BY <1>1 DEF UpdateBegin
  <2> QED BY <1>0, <1>1, <2>1, OwnEnter DEF UpdateBegin, ForeignUsersKept, OwnersKnown, catalog
<1>2. ASSUME NEW e \in Engines, DefaultBegin(p, e) PROVE ForeignInv'
  <2>1. Enter(p, "default", "switch", e, owner[e], FALSE)
    BY <1>2 DEF DefaultBegin
  <2> QED BY <1>0, <1>2, <2>1, OwnEnter DEF DefaultBegin, ForeignUsersKept, OwnersKnown, catalog
<1>3. ASSUME Return(p) \/ Goto(p, "has_default") \/ Goto(p, "pick_default"),
             handler[p].at \in DefaultSteps
      PROVE  OwnUsers'
  <2>1. handler[p].op # "create"
    BY <1>3 DEF TypeInv, StepsMatch
  <2> QED BY <1>3, <2>1, OwnReturn, OwnGoto
<1>4. CASE SwitchDefault(p) \/ HasDefault(p) \/ PickDefault(p)
  <2>1. Return(p) \/ Goto(p, "has_default") \/ Goto(p, "pick_default")
    BY <1>4 DEF SwitchDefault, HasDefault, PickDefault
  <2>2. handler[p].at \in DefaultSteps
    BY <1>4 DEF SwitchDefault, HasDefault, PickDefault, DefaultSteps
  <2>3. UNCHANGED <<ready, owner, principals>>
    BY <1>4 DEF SwitchDefault, HasDefault, PickDefault, catalog
  <2> QED BY <1>3, <2>1, <2>2, <2>3 DEF ForeignUsersKept, OwnersKnown
<1> QED BY <1>1, <1>2, <1>4 DEF Choose

LEMMA ForeignThread ==
    ASSUME TypeInv, ForeignInv, NEW r \in Runs, Thread(r) PROVE ForeignInv'
<1> USE DEF ForeignInv
<1>1. UNCHANGED <<ready, owner, principals>>
  BY DEF Thread, AskRecord, AskSpawn, RunOpenFails, RunFinish, RunRelease, catalog
<1>2. UNCHANGED handler \/ Return(run[r].proc)
  BY DEF Thread, AskRecord, AskSpawn, RunOpenFails, RunFinish, RunRelease
<1>3. OwnUsers'
  BY <1>2, OwnReturn DEF TypeInv, TypeOK, OwnUsers
<1> QED BY <1>1, <1>3 DEF ForeignUsersKept, OwnersKnown

\* A user of the target database that Data Nexus did not create is never
\* dropped, whatever fails and however many processes create and delete.
THEOREM ForeignUsersSafe == Spec => []ForeignUsersKept
<1>1. TypeInv /\ ForeignInv /\ [Next]_vars => ForeignInv'
  <2> SUFFICES ASSUME TypeInv, ForeignInv, [Next]_vars PROVE ForeignInv'
    OBVIOUS
  <2> USE DEF ForeignInv
  <2>1. CASE UNCHANGED vars
    BY <2>1 DEF vars, ForeignUsersKept, OwnersKnown, OwnUsers
  <2>2. ASSUME NEW p \in Procs, Ask(p) PROVE ForeignInv'
    <3>1. Enter(p, "ask", "ask", NoEngine, NoUser, FALSE)
      BY <2>2 DEF Ask, AskAcquire
    <3>2. OwnUsers'
      BY <3>1, OwnEnter
    <3> QED BY <2>2, <3>2 DEF Ask, AskAcquire, ForeignUsersKept, OwnersKnown, catalog
  <2>3. ASSUME NEW p \in Procs, Crash(p) PROVE ForeignInv'
    BY <2>3, OwnReturn DEF Crash, ForeignUsersKept, OwnersKnown, catalog
  <2> QED BY <2>1, <2>2, <2>3, ForeignCreate, ForeignDelete, ForeignChoose, ForeignThread DEF Next
<1>2. Spec => [](TypeInv /\ ForeignInv)
  BY <1>1, TypeInvInit, TypeInvNext, ForeignInit, PTL DEF Spec
<1>3. ForeignInv => ForeignUsersKept
  BY DEF ForeignInv
<1> QED BY <1>2, <1>3, PTL

-----------------------------------------------------------------------------
(* Leases.                                                                  *)

LEMMA HoldersFinite ==
    ASSUME NEW p \in Procs, NEW e \in Engines
    PROVE  IsFiniteSet(Holders(p, e)) /\ Cardinality(Holders(p, e)) \in Nat
<1>1. Holders(p, e) \subseteq Runs
  BY DEF Holders
<1> QED BY <1>1, ConstantsOK, FS_Subset, FS_CardinalityType

\* A step of an ask that neither takes nor gives back its lease.
LEMMA LeaseKept ==
    ASSUME TypeOK, LeaseAccounting, UNCHANGED leases, NEW r \in Runs, NEW step,
           run' = [run EXCEPT ![r].at = step],
           run[r].at \in HoldingSteps, step \in HoldingSteps
    PROVE  LeaseAccounting'
<1>1. ASSUME NEW p \in Procs, NEW e \in Engines PROVE Holders(p, e)' = Holders(p, e)
  <2>1. \A s \in Runs : /\ run'[s].proc = run[s].proc /\ run'[s].engine = run[s].engine
                        /\ s # r => run'[s].at = run[s].at
                        /\ run'[r].at = step
    BY DEF TypeOK
  <2> QED BY <2>1 DEF Holders
<1> QED BY <1>1 DEF LeaseAccounting

LEMMA LeaseGivenBack ==
    ASSUME TypeOK, LeaseAccounting, NEW r \in Runs, run[r].at \in HoldingSteps, Release(r),
           run' = [run EXCEPT ![r].at = "gone"]
    PROVE  LeaseAccounting'
<1>1. PICK p \in Procs, e \in Engines : p = run[r].proc /\ e = run[r].engine
  BY DEF TypeOK
<1>2. \A s \in Runs : /\ run'[s].proc = run[s].proc /\ run'[s].engine = run[s].engine
                      /\ s # r => run'[s].at = run[s].at
                      /\ run'[r].at = "gone"
  BY DEF TypeOK
<1>3. r \in Holders(p, e)
  BY <1>1 DEF Holders
<1>4. Holders(p, e)' = Holders(p, e) \ {r}
  <2>1. r \notin Holders(p, e)'
    BY <1>2 DEF Holders, HoldingSteps
  <2>2. \A s \in Runs \ {r} : s \in Holders(p, e)' <=> s \in Holders(p, e)
    BY <1>2 DEF Holders
  <2> QED BY <2>1, <2>2 DEF Holders
<1>5. Cardinality(Holders(p, e)') = Cardinality(Holders(p, e)) - 1
  <2>1. IsFiniteSet(Holders(p, e))
    BY HoldersFinite
  <2> QED BY <1>3, <1>4, <2>1, FS_RemoveElement
<1>6. Holders(p, e) # {} /\ Cardinality(Holders(p, e)) # 0
  BY <1>1, <1>3, HoldersFinite, FS_EmptySet
<1>7. leases'[p][e] = leases[p][e] - 1
  <2>1. leases'[p][e] = Released(leases[p][e])
    BY <1>1 DEF Release, TypeOK
  <2>2. leases[p][e] \in Nat /\ leases[p][e] # 0
    BY <1>1, <1>6 DEF LeaseAccounting, TypeOK
  <2> QED BY <2>1, <2>2 DEF Released
<1>8. ASSUME NEW q \in Procs, NEW f \in Engines, q # p \/ f # e
      PROVE  leases'[q][f] = leases[q][f] /\ Holders(q, f)' = Holders(q, f)
  <2>1. leases'[q][f] = leases[q][f]
    BY <1>1, <1>8 DEF Release, TypeOK
  <2>2. Holders(q, f)' = Holders(q, f)
    BY <1>1, <1>2, <1>8 DEF Holders, HoldingSteps
  <2> QED BY <2>1, <2>2
<1>9. leases'[p][e] = Cardinality(Holders(p, e)')
  BY <1>1, <1>5, <1>7 DEF LeaseAccounting
<1> QED BY <1>8, <1>9 DEF LeaseAccounting

LEMMA LeaseTaken ==
    ASSUME TypeOK, LeaseAccounting, NEW p \in Procs, Ask(p) PROVE LeaseAccounting'
<1>1. PICK r \in Runs, e \in Engines \cup {NoEngine} : AskAcquire(p, r, e)
  BY DEF Ask
<1>2. PICK f \in Engines :
        /\ leases' = [leases EXCEPT ![p][f] = @ + 1]
        /\ run' = [run EXCEPT ![r] = [at |-> "leased", proc |-> p, engine |-> f]]
  BY <1>1 DEF AskAcquire, Resolves, TypeOK
<1>3. /\ run[r].at = "new"
      /\ run'[r].at = "leased" /\ run'[r].proc = p /\ run'[r].engine = f
      /\ \A s \in Runs \ {r} : run'[s] = run[s]
  BY <1>1, <1>2 DEF AskAcquire, TypeOK
<1>4. Holders(p, f)' = Holders(p, f) \cup {r} /\ r \notin Holders(p, f)
  BY <1>3 DEF Holders, HoldingSteps
<1>5. Cardinality(Holders(p, f)') = Cardinality(Holders(p, f)) + 1
  BY <1>4, HoldersFinite, FS_AddElement
<1>6. leases'[p][f] = leases[p][f] + 1
  BY <1>2 DEF TypeOK
<1>7. ASSUME NEW q \in Procs, NEW g \in Engines, q # p \/ g # f
      PROVE  leases'[q][g] = leases[q][g] /\ Holders(q, g)' = Holders(q, g)
  <2>1. leases'[q][g] = leases[q][g]
    BY <1>2, <1>7 DEF TypeOK
  <2>2. Holders(q, g)' = Holders(q, g)
    BY <1>3, <1>7 DEF Holders, HoldingSteps
  <2> QED BY <2>1, <2>2
<1> QED BY <1>5, <1>6, <1>7 DEF LeaseAccounting

LEMMA LeaseCrash ==
    ASSUME TypeOK, LeaseAccounting, NEW p \in Procs, Crash(p) PROVE LeaseAccounting'
<1>1. \A s \in Runs :
        /\ run'[s].proc = run[s].proc /\ run'[s].engine = run[s].engine
        /\ IF run[s].proc = p /\ run[s].at \in HoldingSteps
           THEN run'[s].at = "gone" ELSE run'[s].at = run[s].at
  BY DEF Crash, TypeOK
<1>2. ASSUME NEW e \in Engines PROVE leases'[p][e] = Cardinality(Holders(p, e)')
  <2>1. Holders(p, e)' = {}
    BY <1>1 DEF Holders, HoldingSteps
  <2>2. leases'[p][e] = 0
    BY DEF Crash, TypeOK
  <2> QED BY <2>1, <2>2, FS_EmptySet
<1>3. ASSUME NEW q \in Procs \ {p}, NEW e \in Engines
      PROVE  leases'[q][e] = leases[q][e] /\ Holders(q, e)' = Holders(q, e)
  <2>1. leases'[q][e] = leases[q][e]
    BY DEF Crash, TypeOK
  <2>2. Holders(q, e)' = Holders(q, e)
    BY <1>1 DEF Holders
  <2> QED BY <2>1, <2>2
<1> QED BY <1>2, <1>3 DEF LeaseAccounting

LEMMA LeaseThread ==
    ASSUME TypeOK, LeaseAccounting, NEW r \in Runs, Thread(r) PROVE LeaseAccounting'
<1>1. CASE AskRecord(r)
  BY <1>1, LeaseKept DEF AskRecord, HoldingSteps
<1>2. CASE AskSpawn(r)
  BY <1>2, LeaseKept, LeaseGivenBack DEF AskSpawn, HoldingSteps
<1>3. CASE RunOpenFails(r)
  BY <1>3, LeaseKept DEF RunOpenFails, HoldingSteps
<1>4. CASE RunFinish(r)
  BY <1>4, LeaseKept DEF RunFinish, HoldingSteps
<1>5. CASE RunRelease(r)
  BY <1>5, LeaseGivenBack DEF RunRelease, HoldingSteps
<1> QED BY <1>1, <1>2, <1>3, <1>4, <1>5 DEF Thread

LEMMA LeaseInit == Init => LeaseAccounting
<1> SUFFICES ASSUME Init, NEW p \in Procs, NEW e \in Engines
             PROVE  leases[p][e] = Cardinality(Holders(p, e))
  BY DEF LeaseAccounting
<1>1. leases[p][e] = 0 /\ \A r \in Runs : run[r].at = "new"
  BY DEF Init
<1>2. Holders(p, e) = {}
  BY <1>1 DEF Holders, HoldingSteps
<1> QED BY <1>1, <1>2, FS_EmptySet

LEMMA LeaseNext == TypeInv /\ LeaseAccounting /\ [Next]_vars => LeaseAccounting'
<1> SUFFICES ASSUME TypeInv, LeaseAccounting, [Next]_vars PROVE LeaseAccounting'
  OBVIOUS
<1>1. ASSUME UNCHANGED <<leases, run>> PROVE LeaseAccounting'
  BY <1>1 DEF LeaseAccounting, Holders
<1>2. CASE UNCHANGED vars
  BY <1>1, <1>2 DEF vars
<1>3. ASSUME NEW p \in Procs, Create(p) PROVE LeaseAccounting'
  BY <1>1, <1>3 DEF Create, CreateBegin, CreateUser, TestUser, RemoveUser, InsertRow
<1>4. ASSUME NEW p \in Procs, Choose(p) PROVE LeaseAccounting'
  BY <1>1, <1>4 DEF Choose, UpdateBegin, DefaultBegin, SwitchDefault, HasDefault, PickDefault
<1>5. ASSUME NEW p \in Procs, Delete(p) PROVE LeaseAccounting'
  BY <1>1, <1>5 DEF Delete, DeleteBegin, DeleteCheckRuns, DeleteCheckRemaining,
                    DeleteDropUser, DeleteRow
<1> QED BY <1>2, <1>3, <1>4, <1>5, LeaseTaken, LeaseCrash, LeaseThread DEF Next, TypeInv

\* The leases of a process count exactly its asks that hold one.
THEOREM LeasesCounted == Spec => []LeaseAccounting
  BY TypeInvInit, TypeInvNext, LeaseInit, LeaseNext, PTL DEF Spec

-----------------------------------------------------------------------------
(* Deletion against leases.                                                 *)

LEMMA DeletedReturn ==
    ASSUME TypeInv, DeletedEngineUnleased, UNCHANGED leases, NEW p \in Procs, Return(p)
    PROVE  DeletedEngineUnleased'
  BY DEF DeletedEngineUnleased, Locked, Return, Idle, TypeInv, TypeOK

LEMMA DeletedGoto ==
    ASSUME TypeInv, DeletedEngineUnleased, UNCHANGED leases, NEW p \in Procs, NEW step,
           Goto(p, step)
    PROVE  DeletedEngineUnleased'
<1>1. handler[p] \in Handlers
  BY DEF TypeInv, TypeOK
<1>2. handler' = [handler EXCEPT ![p] = [handler[p] EXCEPT !.at = step]]
  BY DEF Goto
<1>3. \A q \in Procs : handler'[q].op = handler[q].op /\ handler'[q].engine = handler[q].engine
  BY <1>1, <1>2 DEF TypeInv, TypeOK, Handlers
<1> QED BY <1>3 DEF DeletedEngineUnleased, Locked

LEMMA DeletedEnter ==
    ASSUME TypeInv, DeletedEngineUnleased, UNCHANGED leases, NEW p \in Procs,
           NEW op, NEW step, NEW e, NEW u, NEW f, Enter(p, op, step, e, u, f),
           op = "delete" => leases[p][e] = 0
    PROVE  DeletedEngineUnleased'
  BY DEF DeletedEngineUnleased, Locked, Enter, TypeInv, TypeOK

\* A release can only lower a count that is zero for the engine in deletion.
LEMMA DeletedRelease ==
    ASSUME TypeInv, DeletedEngineUnleased, NEW r \in Runs, Release(r), UNCHANGED handler
    PROVE  DeletedEngineUnleased'
<1>1. ASSUME NEW p \in Procs, NEW e \in Engines, leases[p][e] = 0 PROVE leases'[p][e] = 0
  BY <1>1 DEF Release, Released, TypeInv, TypeOK
<1> QED BY <1>1, HandlerFacts DEF DeletedEngineUnleased, Locked

LEMMA DeletedByHandlers ==
    ASSUME TypeInv, DeletedEngineUnleased, NEW p \in Procs, Create(p) \/ Choose(p) \/ Delete(p)
    PROVE  DeletedEngineUnleased'
<1>1. UNCHANGED leases
  BY DEF Create, CreateBegin, CreateUser, TestUser, RemoveUser, InsertRow,
         Choose, UpdateBegin, DefaultBegin, SwitchDefault, HasDefault, PickDefault,
         Delete, DeleteBegin, DeleteCheckRuns, DeleteCheckRemaining, DeleteDropUser, DeleteRow
<1>2. \/ Return(p)
      \/ \E step : Goto(p, step)
      \/ \E op, step, e, u, f : Enter(p, op, step, e, u, f) /\ (op = "delete" => leases[p][e] = 0)
  <2>1. CASE Create(p)
    <3>1. ASSUME NEW e \in Engines, NEW u \in Users \cup {NoUser}, NEW f \in BOOLEAN,
                 CreateBegin(p, e, u, f)
          PROVE  \E op, step, g, v, h : Enter(p, op, step, g, v, h) /\ op = "create"
      BY <3>1 DEF CreateBegin
    <3>2. CASE CreateUser(p) \/ TestUser(p) \/ RemoveUser(p) \/ InsertRow(p)
      BY <3>2 DEF CreateUser, TestUser, RemoveUser, InsertRow
    <3> QED BY <2>1, <3>1, <3>2 DEF Create
  <2>2. CASE Choose(p)
    <3>1. ASSUME NEW e \in Engines, NEW f \in BOOLEAN, UpdateBegin(p, e, f)
          PROVE  \E op, step, g, v, h : Enter(p, op, step, g, v, h) /\ op = "update"
      BY <3>1 DEF UpdateBegin
    <3>2. ASSUME NEW e \in Engines, DefaultBegin(p, e)
          PROVE  \E op, step, g, v, h : Enter(p, op, step, g, v, h) /\ op = "default"
      BY <3>2 DEF DefaultBegin
    <3>3. CASE SwitchDefault(p) \/ HasDefault(p) \/ PickDefault(p)
      BY <3>3 DEF SwitchDefault, HasDefault, PickDefault
    <3> QED BY <2>2, <3>1, <3>2, <3>3 DEF Choose
  <2>3. CASE Delete(p)
    <3>1. ASSUME NEW e \in Engines, DeleteBegin(p, e)
          PROVE  \E op, step, g, v, h : Enter(p, op, step, g, v, h) /\ leases[p][g] = 0
      BY <3>1 DEF DeleteBegin
    <3>2. CASE DeleteCheckRuns(p) \/ DeleteCheckRemaining(p) \/ DeleteDropUser(p) \/ DeleteRow(p)
      BY <3>2 DEF DeleteCheckRuns, DeleteCheckRemaining, DeleteDropUser, DeleteRow
    <3> QED BY <2>3, <3>1, <3>2 DEF Delete
  <2> QED BY <2>1, <2>2, <2>3
<1> QED BY <1>1, <1>2, DeletedReturn, DeletedGoto, DeletedEnter

LEMMA DeletedByAsk ==
    ASSUME TypeInv, DeletedEngineUnleased, NEW p \in Procs, Ask(p) PROVE DeletedEngineUnleased'
<1>1. PICK f \in Engines : leases' = [leases EXCEPT ![p][f] = @ + 1]
  BY DEF Ask, AskAcquire, Resolves, TypeInv, TypeOK
<1>2. handler'[p].op = "ask" /\ \A q \in Procs : q # p => handler'[q] = handler[q]
  BY DEF Ask, AskAcquire, Enter, TypeInv, TypeOK
<1>3. \A q \in Procs, e \in Engines : q # p => leases'[q][e] = leases[q][e]
  BY <1>1 DEF TypeInv, TypeOK
<1> QED BY <1>2, <1>3, HandlerFacts DEF DeletedEngineUnleased, Locked

LEMMA DeletedByCrash ==
    ASSUME TypeInv, DeletedEngineUnleased, NEW p \in Procs, Crash(p) PROVE DeletedEngineUnleased'
<1>1. handler'[p].op = "none" /\ \A q \in Procs : q # p => handler'[q] = handler[q]
  BY DEF Crash, Return, Idle, TypeInv, TypeOK
<1>2. \A q \in Procs : q # p => leases'[q] = leases[q]
  BY DEF Crash, TypeInv, TypeOK
<1> QED BY <1>1, <1>2 DEF DeletedEngineUnleased, Locked

LEMMA DeletedByThread ==
    ASSUME TypeInv, DeletedEngineUnleased, NEW r \in Runs, Thread(r) PROVE DeletedEngineUnleased'
<1>0. run[r].proc \in Procs
  BY DEF TypeInv, TypeOK
<1>1. UNCHANGED leases \/ Release(r)
  BY DEF Thread, AskRecord, AskSpawn, RunOpenFails, RunFinish, RunRelease
<1>2. UNCHANGED handler \/ Return(run[r].proc)
  BY DEF Thread, AskRecord, AskSpawn, RunOpenFails, RunFinish, RunRelease
<1>3. \A q \in Procs : handler'[q] = handler[q] \/ handler'[q].op = "none"
  BY <1>0, <1>2 DEF Return, Idle, TypeInv, TypeOK
<1>4. ASSUME NEW q \in Procs, NEW e \in Engines, leases[q][e] = 0 PROVE leases'[q][e] = 0
  BY <1>1, <1>4 DEF Release, Released, TypeInv, TypeOK
<1> QED BY <1>3, <1>4, HandlerFacts DEF DeletedEngineUnleased, Locked

LEMMA DeletedNext == TypeInv /\ DeletedEngineUnleased /\ [Next]_vars => DeletedEngineUnleased'
<1> SUFFICES ASSUME TypeInv, DeletedEngineUnleased, [Next]_vars PROVE DeletedEngineUnleased'
  OBVIOUS
<1>1. CASE UNCHANGED vars
  BY <1>1 DEF vars, DeletedEngineUnleased, Locked
<1> QED BY <1>1, DeletedByHandlers, DeletedByAsk, DeletedByCrash, DeletedByThread DEF Next

LEMMA DeletedInit == Init => DeletedEngineUnleased
  BY DEF Init, DeletedEngineUnleased, Locked, Idle

\* An engine that a process is deleting is held by none of its own asks, for
\* any number of processes and whatever fails during the deletion.
THEOREM NoLeaseDuringDelete == Spec => []DeletedEngineUnleased
  BY TypeInvInit, TypeInvNext, DeletedInit, DeletedNext, PTL DEF Spec

-----------------------------------------------------------------------------
(* A single process.                                                        *)

\* What is left of the catalogue is what was there, unless a row is deleted.
LEMMA ReadyShrinksOnlyByDelete ==
    ASSUME TypeInv, [Next]_vars
    PROVE  \/ ready \subseteq ready'
           \/ \E p \in Procs : /\ At(p, "delete", "delete")
                               /\ ready' = ready \ {handler[p].engine}
                               /\ UNCHANGED run
<1>1. CASE UNCHANGED vars
  BY <1>1 DEF vars
<1>2. ASSUME NEW p \in Procs, Create(p) PROVE ready \subseteq ready'
  BY <1>2 DEF Create, CreateBegin, CreateUser, TestUser, RemoveUser, InsertRow, CommitRow, catalog
<1>3. ASSUME NEW p \in Procs, Choose(p) PROVE ready \subseteq ready'
  BY <1>3 DEF Choose, UpdateBegin, DefaultBegin, SwitchDefault, HasDefault, PickDefault, catalog
<1>4. ASSUME NEW p \in Procs, Delete(p)
      PROVE  \/ ready \subseteq ready'
             \/ /\ At(p, "delete", "delete")
                /\ ready' = ready \ {handler[p].engine}
                /\ UNCHANGED run
  BY <1>4 DEF Delete, DeleteBegin, DeleteCheckRuns, DeleteCheckRemaining, DeleteDropUser,
              DeleteRow, RemoveRow, catalog
<1>5. ASSUME NEW p \in Procs, Ask(p) \/ Crash(p) PROVE ready \subseteq ready'
  BY <1>5 DEF Ask, AskAcquire, Crash, catalog
<1>6. ASSUME NEW r \in Runs, Thread(r) PROVE ready \subseteq ready'
  BY <1>6 DEF Thread, AskRecord, AskSpawn, RunOpenFails, RunFinish, RunRelease, catalog
<1> QED BY <1>1, <1>2, <1>3, <1>4, <1>5, <1>6 DEF Next

\* An ask that holds a lease held it, for the same engine, or takes it now
\* for a ready one.
LEMMA HoldingComesFrom ==
    ASSUME TypeInv, [Next]_vars, NEW r \in Runs, run'[r].at \in HoldingSteps
    PROVE  \/ run[r].at \in HoldingSteps /\ run'[r].engine = run[r].engine
           \/ run'[r].engine \in ready /\ UNCHANGED ready
<1>1. CASE UNCHANGED run
  BY <1>1
<1>2. ASSUME NEW p \in Procs, Ask(p)
      PROVE  \/ run[r].at \in HoldingSteps /\ run'[r].engine = run[r].engine
             \/ run'[r].engine \in ready /\ UNCHANGED ready
  <2>1. PICK s \in Runs, e \in Engines \cup {NoEngine} : AskAcquire(p, s, e)
    BY <1>2 DEF Ask
  <2>2. PICK f \in ready : run' = [run EXCEPT ![s] = [at |-> "leased", proc |-> p, engine |-> f]]
    BY <2>1 DEF AskAcquire, Resolves
  <2>3. UNCHANGED ready
    BY <2>1 DEF AskAcquire, catalog
  <2>4. IF r = s THEN run'[r].engine = f ELSE run'[r] = run[r]
    BY <2>2 DEF TypeInv, TypeOK
  <2> QED BY <2>3, <2>4
<1>3. ASSUME NEW p \in Procs, Crash(p)
      PROVE  run[r].at \in HoldingSteps /\ run'[r].engine = run[r].engine
  <2>1. \/ run'[r] = run[r]
        \/ run'[r].at = "gone"
    BY <1>3 DEF Crash, TypeInv, TypeOK
  <2> QED BY <2>1 DEF HoldingSteps
<1>4. ASSUME NEW s \in Runs, Thread(s)
      PROVE  run[r].at \in HoldingSteps /\ run'[r].engine = run[r].engine
  <2>1. run[s].at \in HoldingSteps /\ \E step : run' = [run EXCEPT ![s].at = step]
    BY <1>4 DEF Thread, AskRecord, AskSpawn, RunOpenFails, RunFinish, RunRelease, HoldingSteps
  <2>2. run'[r].engine = run[r].engine /\ (r # s => run'[r] = run[r])
    BY <2>1 DEF TypeInv, TypeOK
  <2> QED BY <2>1, <2>2
<1>5. UNCHANGED run \/ (\E p \in Procs : Ask(p) \/ Crash(p)) \/ (\E s \in Runs : Thread(s))
  BY DEF vars, Next, Create, CreateBegin, CreateUser, TestUser, RemoveUser, InsertRow,
         Choose, UpdateBegin, DefaultBegin, SwitchDefault, HasDefault, PickDefault,
         Delete, DeleteBegin, DeleteCheckRuns, DeleteCheckRemaining, DeleteDropUser, DeleteRow
<1> QED BY <1>1, <1>2, <1>3, <1>4, <1>5

\* With one process, the engine of a run that holds a lease stays available:
\* the only step that could take it away is a deletion, and that step finds
\* the lease counted.
THEOREM SingleProcessKeepsEngine ==
    ASSUME NEW P, Procs = {P} PROVE Spec => []RunKeepsEngine
<1>1. Init => RunKeepsEngine
  BY DEF Init, RunKeepsEngine, HoldingSteps
<1>2. TypeInv /\ LeaseAccounting /\ DeletedEngineUnleased /\ RunKeepsEngine /\ [Next]_vars
        => RunKeepsEngine'
  <2> SUFFICES ASSUME TypeInv, LeaseAccounting, DeletedEngineUnleased, RunKeepsEngine, [Next]_vars,
                      NEW r \in Runs, run'[r].at \in HoldingSteps
               PROVE  run'[r].engine \in ready'
    BY DEF RunKeepsEngine
  <2>1. run'[r].engine \in ready
    BY HoldingComesFrom DEF RunKeepsEngine
  <2>2. ASSUME NEW p \in Procs, At(p, "delete", "delete"), UNCHANGED run
        PROVE  run'[r].engine # handler[p].engine
    <3> DEFINE e == handler[p].engine
    <3>1. e \in Engines /\ leases[p][e] = 0
      BY <2>2, HandlerFacts DEF At, DeletedEngineUnleased, Locked
    <3>2. Holders(p, e) = {}
      <4>1. IsFiniteSet(Holders(p, e)) /\ Cardinality(Holders(p, e)) = 0
        BY <3>1, HoldersFinite DEF LeaseAccounting
      <4> QED BY <4>1, FS_EmptySet
    <3>3. run[r].proc = p
      BY DEF TypeInv, TypeOK
    <3> QED BY <2>2, <3>2, <3>3 DEF Holders
  <2> QED BY <2>1, <2>2, ReadyShrinksOnlyByDelete
<1> QED BY <1>1, <1>2, TypeInvInit, TypeInvNext, LeaseInit, LeaseNext, DeletedInit, DeletedNext,
           PTL DEF Spec

\* A deletion that is past its check of what remains leaves an engine: it was
\* not ready when the deletion began, or it is not the only one that is.
LeavesOne(h) ==
    h.op = "delete" =>
        /\ h.at = "runs" /\ ~h.flag => h.engine \notin ready
        /\ h.at \in {"drop", "delete"} => ready \ {h.engine} # {}

OneLeft == ready # {} /\ \A p \in Procs : LeavesOne(handler[p])

LEMMA OneLeftInit == Init => OneLeft
  BY DEF Init, OneLeft, LeavesOne, Idle

\* Handlers that go on while the ready engines do not change.
LEMMA OneLeftReturn ==
    ASSUME TypeInv, OneLeft, UNCHANGED ready, NEW p \in Procs, Return(p) PROVE OneLeft'
  BY DEF OneLeft, LeavesOne, Return, Idle, TypeInv, TypeOK

LEMMA OneLeftGoto ==
    ASSUME TypeInv, OneLeft, UNCHANGED ready, NEW p \in Procs, NEW step, Goto(p, step),
           handler[p].op = "delete" =>
               /\ step # "runs"
               /\ step \in {"drop", "delete"} => ready \ {handler[p].engine} # {}
    PROVE  OneLeft'
<1>1. handler[p] \in Handlers
  BY DEF TypeInv, TypeOK
<1>2. /\ handler'[p].op = handler[p].op /\ handler'[p].engine = handler[p].engine
      /\ handler'[p].at = step
  BY <1>1 DEF Goto, TypeInv, TypeOK, Handlers
<1>3. \A q \in Procs : q # p => handler'[q] = handler[q]
  BY DEF Goto, TypeInv, TypeOK
<1> QED BY <1>2, <1>3 DEF OneLeft, LeavesOne

LEMMA OneLeftEnter ==
    ASSUME TypeInv, OneLeft, UNCHANGED ready, NEW p \in Procs,
           NEW op, NEW step, NEW e, NEW u, NEW f, Enter(p, op, step, e, u, f),
           op = "delete" => step = "runs" /\ (~f => e \notin ready)
    PROVE  OneLeft'
  BY DEF OneLeft, LeavesOne, Enter, TypeInv, TypeOK

\* A row that is committed adds to the ready engines; no deletion is in
\* progress beside it when there is one process.
LEMMA OneLeftCreate ==
    ASSUME TypeInv, OneLeft, NEW P, Procs = {P}, Create(P) PROVE OneLeft'
<1>1. CASE \E e \in Engines, u \in Users \cup {NoUser}, f \in BOOLEAN : CreateBegin(P, e, u, f)
  BY <1>1, OneLeftEnter DEF CreateBegin, catalog
<1>2. CASE CreateUser(P) \/ TestUser(P) \/ RemoveUser(P)
  BY <1>2, OneLeftGoto, OneLeftReturn DEF CreateUser, TestUser, RemoveUser, At, catalog
<1>3. CASE InsertRow(P)
  <2>1. At(P, "create", "insert") /\ ready \subseteq ready'
    BY <1>3 DEF InsertRow, CommitRow, catalog
  <2>2. handler'[P].op \in {"none", "create"}
    BY <1>3, <2>1 DEF InsertRow, Goto, Return, Idle, At, TypeInv, TypeOK, Handlers
  <2> QED BY <2>1, <2>2 DEF OneLeft, LeavesOne
<1> QED BY <1>1, <1>2, <1>3 DEF Create

LEMMA OneLeftChoose ==
    ASSUME TypeInv, OneLeft, NEW p \in Procs, Choose(p) PROVE OneLeft'
<1>1. CASE \E e \in Engines, f \in BOOLEAN : UpdateBegin(p, e, f)
  BY <1>1, OneLeftEnter DEF UpdateBegin, catalog
<1>2. CASE \E e \in Engines : DefaultBegin(p, e)
  BY <1>2, OneLeftEnter DEF DefaultBegin, catalog
<1>3. CASE SwitchDefault(p) \/ HasDefault(p) \/ PickDefault(p)
  BY <1>3, OneLeftGoto, OneLeftReturn DEF SwitchDefault, HasDefault, PickDefault, catalog
<1> QED BY <1>1, <1>2, <1>3 DEF Choose

LEMMA OneLeftDelete ==
    ASSUME TypeInv, OneLeft, NEW P, Procs = {P}, Delete(P) PROVE OneLeft'
<1> DEFINE h == handler[P]
<1>0. h \in Handlers /\ LeavesOne(h) /\ ready # {} /\ P \in Procs
  BY DEF TypeInv, TypeOK, OneLeft
<1>1. CASE \E e \in Engines : DeleteBegin(P, e)
  BY <1>1, OneLeftEnter DEF DeleteBegin, catalog
<1>2. CASE DeleteCheckRuns(P)
  <2>1. At(P, "delete", "runs") /\ UNCHANGED ready
    BY <1>2 DEF DeleteCheckRuns, catalog
  <2>2. CASE Return(P)
    BY <1>0, <2>1, <2>2, OneLeftReturn
  <2>3. CASE h.flag /\ Goto(P, "remaining")
    BY <1>0, <2>1, <2>3, OneLeftGoto
  <2>4. CASE ~h.flag /\ Goto(P, "delete")
    BY <1>0, <2>1, <2>4, OneLeftGoto DEF LeavesOne, At
  <2> QED BY <1>2, <2>2, <2>3, <2>4 DEF DeleteCheckRuns
<1>3. CASE DeleteCheckRemaining(P)
  BY <1>0, <1>3, OneLeftGoto, OneLeftReturn DEF DeleteCheckRemaining, At, catalog
<1>4. CASE DeleteDropUser(P)
  BY <1>0, <1>4, OneLeftGoto, OneLeftReturn DEF DeleteDropUser, LeavesOne, At, catalog
<1>5. CASE DeleteRow(P)
  <2>1. At(P, "delete", "delete") /\ (UNCHANGED ready \/ ready' = ready \ {h.engine})
    BY <1>5 DEF DeleteRow, RemoveRow, catalog
  <2>2. ready' # {}
    BY <1>0, <2>1 DEF LeavesOne, At
  <2>3. handler'[P].op = "none" \/ handler'[P].at = "has_default"
    BY <1>0, <1>5 DEF DeleteRow, Goto, Return, Idle, TypeInv, TypeOK, Handlers
  <2> QED BY <2>2, <2>3 DEF OneLeft, LeavesOne
<1> QED BY <1>1, <1>2, <1>3, <1>4, <1>5 DEF Delete

LEMMA OneLeftNext ==
    ASSUME NEW P, Procs = {P} PROVE TypeInv /\ OneLeft /\ [Next]_vars => OneLeft'
<1> SUFFICES ASSUME TypeInv, OneLeft, [Next]_vars PROVE OneLeft'
  OBVIOUS
<1>1. CASE UNCHANGED vars
  BY <1>1 DEF vars, OneLeft, LeavesOne
<1>2. ASSUME Ask(P) PROVE OneLeft'
  BY <1>2, OneLeftEnter DEF Ask, AskAcquire, catalog
<1>3. ASSUME Crash(P) PROVE OneLeft'
  BY <1>3, OneLeftReturn DEF Crash, catalog
<1>4. ASSUME NEW r \in Runs, Thread(r) PROVE OneLeft'
  <2>1. run[r].proc \in Procs /\ UNCHANGED ready /\ (UNCHANGED handler \/ Return(run[r].proc))
    BY <1>4 DEF Thread, AskRecord, AskSpawn, RunOpenFails, RunFinish, RunRelease, catalog,
                TypeInv, TypeOK
  <2>2. CASE UNCHANGED handler
    BY <2>1, <2>2 DEF OneLeft, LeavesOne
  <2> QED BY <2>1, <2>2, OneLeftReturn
<1> QED BY <1>1, <1>2, <1>3, <1>4, OneLeftCreate, OneLeftChoose, OneLeftDelete DEF Next

\* With one process there is always an engine to run on, whatever statement is
\* rejected, loses its reply or is cut off by a crash: the check of what remains
\* stays true until the row is deleted.
THEOREM SingleProcessKeepsOne ==
    ASSUME NEW P, Procs = {P} PROVE Spec => []KeepsOneReady
<1>1. TypeInv /\ OneLeft /\ [Next]_vars => OneLeft'
  BY OneLeftNext
<1>2. OneLeft => KeepsOneReady
  BY DEF OneLeft, KeepsOneReady
<1> QED BY <1>1, <1>2, TypeInvInit, TypeInvNext, OneLeftInit, PTL DEF Spec

-----------------------------------------------------------------------------
(* The default engine.                                                      *)

Starting(r) == run[r].at \in {"leased", "recorded"}

\* The handler of start_ask is in it until its ask has a thread, and starts
\* one ask at a time: it is never the handler of another operation that the
\* start of the thread returns.
AsksInHandler ==
    \A r \in Runs : Starting(r) =>
        /\ handler[run[r].proc].op = "ask"
        /\ \A s \in Runs : Starting(s) /\ run[s].proc = run[r].proc => s = r

LEMMA AsksInit == Init => AsksInHandler
  BY DEF Init, AsksInHandler, Starting

\* The operations on the catalogue are handlers of their own.
LEMMA CatalogHandlers ==
    ASSUME TypeInv, NEW p \in Procs, Create(p) \/ Choose(p) \/ Delete(p)
    PROVE  /\ UNCHANGED run /\ handler[p].op # "ask"
           /\ \A q \in Procs : q # p => handler'[q] = handler[q]
<1>1. CASE Create(p)
  <2>1. UNCHANGED run /\ handler[p].op # "ask"
    BY <1>1 DEF Create, CreateBegin, CreateUser, TestUser, RemoveUser, InsertRow, Enter, Idle, At
  <2>2. \A q \in Procs : q # p => handler'[q] = handler[q]
    BY <1>1 DEF Create, CreateBegin, CreateUser, TestUser, RemoveUser, InsertRow, Enter, Goto,
                Return, TypeInv, TypeOK
  <2> QED BY <2>1, <2>2
<1>2. CASE Choose(p)
  <2>1. UNCHANGED run /\ handler[p].op # "ask"
    BY <1>2 DEF Choose, UpdateBegin, DefaultBegin, SwitchDefault, HasDefault, PickDefault, Enter,
                Idle, At, TypeInv, StepsMatch, DefaultSteps
  <2>2. \A q \in Procs : q # p => handler'[q] = handler[q]
    BY <1>2 DEF Choose, UpdateBegin, DefaultBegin, SwitchDefault, HasDefault, PickDefault, Enter,
                Goto, Return, TypeInv, TypeOK
  <2> QED BY <2>1, <2>2
<1>3. CASE Delete(p)
  <2>1. UNCHANGED run /\ handler[p].op # "ask"
    BY <1>3 DEF Delete, DeleteBegin, DeleteCheckRuns, DeleteCheckRemaining, DeleteDropUser,
                DeleteRow, Enter, Idle, At
  <2>2. \A q \in Procs : q # p => handler'[q] = handler[q]
    BY <1>3 DEF Delete, DeleteBegin, DeleteCheckRuns, DeleteCheckRemaining, DeleteDropUser,
                DeleteRow, Enter, Goto, Return, TypeInv, TypeOK
  <2> QED BY <2>1, <2>2
<1> QED BY <1>1, <1>2, <1>3

\* A thread moves its own run along, and returns the handler when it starts.
LEMMA ThreadMoves ==
    ASSUME TypeInv, NEW r \in Runs, Thread(r)
    PROVE  /\ UNCHANGED <<ready, default>>
           /\ \A s \in Runs : run'[s].proc = run[s].proc /\ (s # r => run'[s] = run[s])
           /\ \/ UNCHANGED handler /\ (Starting(r)' => Starting(r))
              \/ Starting(r) /\ Return(run[r].proc) /\ ~Starting(r)'
<1>1. PICK step : run' = [run EXCEPT ![r].at = step]
  BY DEF Thread, AskRecord, AskSpawn, RunOpenFails, RunFinish, RunRelease
<1>2. run'[r].at = step /\ \A s \in Runs : run'[s].proc = run[s].proc /\ (s # r => run'[s] = run[s])
  BY <1>1 DEF TypeInv, TypeOK
<1>3. UNCHANGED <<ready, default>>
  BY DEF Thread, AskRecord, AskSpawn, RunOpenFails, RunFinish, RunRelease, catalog
<1>4. ASSUME AskSpawn(r)
      PROVE  Starting(r) /\ ~Starting(r)' /\ Return(run[r].proc)
  <2>1. run[r].at = "recorded" /\ Return(run[r].proc)
    BY <1>4 DEF AskSpawn
  <2>2. run'[r].at \in {"executing", "gone"}
    BY <1>4 DEF AskSpawn, TypeInv, TypeOK
  <2> QED BY <2>1, <2>2 DEF Starting
<1>5. ASSUME ~AskSpawn(r)
      PROVE  UNCHANGED handler /\ (Starting(r)' => Starting(r))
  <2>1. AskRecord(r) \/ RunOpenFails(r) \/ RunFinish(r) \/ RunRelease(r)
    BY <1>5 DEF Thread
  <2>2. AskRecord(r) \/ run'[r].at \in {"unavailable", "finished", "gone"}
    BY <2>1 DEF RunOpenFails, RunFinish, RunRelease, TypeInv, TypeOK
  <2> QED BY <2>1, <2>2 DEF AskRecord, RunOpenFails, RunFinish, RunRelease, Starting
<1> QED BY <1>2, <1>3, <1>4, <1>5

LEMMA AsksNext == TypeInv /\ AsksInHandler /\ [Next]_vars => AsksInHandler'
<1> SUFFICES ASSUME TypeInv, AsksInHandler, [Next]_vars PROVE AsksInHandler'
  OBVIOUS
<1>0. \A r \in Runs : run[r].proc \in Procs
  BY DEF TypeInv, TypeOK
<1>1. CASE UNCHANGED vars
  BY <1>1 DEF vars, AsksInHandler, Starting
<1>2. ASSUME NEW p \in Procs, Create(p) \/ Choose(p) \/ Delete(p) PROVE AsksInHandler'
  BY <1>0, <1>2, CatalogHandlers DEF AsksInHandler, Starting
<1>3. ASSUME NEW p \in Procs, Ask(p) PROVE AsksInHandler'
  <2>1. PICK r \in Runs, e \in Engines :
           /\ run' = [run EXCEPT ![r] = [at |-> "leased", proc |-> p, engine |-> e]]
           /\ handler[p] = Idle
           /\ handler' = [handler EXCEPT ![p] =
                  [op |-> "ask", at |-> "ask", engine |-> NoEngine, user |-> NoUser, flag |-> FALSE]]
    BY <1>3 DEF Ask, AskAcquire, Resolves, Enter, TypeInv, TypeOK
  <2>2. /\ run'[r].proc = p /\ \A s \in Runs : s # r => run'[s] = run[s]
        /\ handler'[p].op = "ask" /\ \A q \in Procs : q # p => handler'[q] = handler[q]
    BY <2>1 DEF TypeInv, TypeOK
  <2>3. \A s \in Runs : Starting(s) => run[s].proc # p
    BY <2>1 DEF AsksInHandler, Idle
  <2> QED BY <1>0, <2>2, <2>3 DEF AsksInHandler, Starting
<1>4. ASSUME NEW p \in Procs, Crash(p) PROVE AsksInHandler'
  <2>1. \A r \in Runs : Starting(r)' => run'[r] = run[r] /\ run[r].proc # p
    BY <1>4 DEF Crash, Starting, HoldingSteps, TypeInv, TypeOK
  <2>2. \A q \in Procs : q # p => handler'[q] = handler[q]
    BY <1>4 DEF Crash, Return, TypeInv, TypeOK
  <2> QED BY <1>0, <2>1, <2>2 DEF AsksInHandler, Starting
<1>5. ASSUME NEW r \in Runs, Thread(r) PROVE AsksInHandler'
  <2>1. CASE UNCHANGED handler
    BY <1>5, <2>1, ThreadMoves DEF AsksInHandler, Starting
  <2>2. CASE Starting(r) /\ Return(run[r].proc) /\ ~Starting(r)'
    <3>1. \A q \in Procs : q # run[r].proc => handler'[q] = handler[q]
      BY <2>2 DEF Return, TypeInv, TypeOK
    <3> QED BY <1>0, <1>5, <2>2, <3>1, ThreadMoves DEF AsksInHandler, Starting
  <2> QED BY <1>5, <2>1, <2>2, ThreadMoves
<1> QED BY <1>1, <1>2, <1>3, <1>4, <1>5 DEF Next

\* Where no default is left, a handler is about to choose one.
Restores(p) == handler[p].at \in {"has_default", "pick_default"}
DefaultOrSoon == ready # {} /\ default = {} => \E p \in Procs : Restores(p)

LEMMA SoonInit == Init => DefaultOrSoon
  BY DEF Init, DefaultOrSoon

\* The one that restores the default goes on with it.
LEMMA SoonByHandlers ==
    ASSUME TypeInv, DefaultOrSoon, ~Rejected, ~ReplyLost,
           NEW p \in Procs, Create(p) \/ Choose(p) \/ Delete(p)
    PROVE  DefaultOrSoon'
<1> SUFFICES ASSUME ready' # {}, default' = {} PROVE \E q \in Procs : Restores(q)'
  BY DEF DefaultOrSoon
<1>1. ASSUME NEW q \in Procs, Restores(q), q # p PROVE Restores(q)'
  BY <1>1, CatalogHandlers DEF Restores
<1>2. CASE Create(p)
  <2>1. UNCHANGED <<ready, default>> \/ default' # {}
    BY <1>2 DEF Create, CreateBegin, CreateUser, TestUser, RemoveUser, InsertRow, CommitRow, catalog
  <2>2. ~Restores(p)
    BY <1>2 DEF Create, CreateBegin, CreateUser, TestUser, RemoveUser, InsertRow, Restores, At,
                Enter, Idle, TypeInv, StepsMatch, DefaultSteps
  <2> QED BY <1>1, <2>1, <2>2 DEF DefaultOrSoon
<1>3. CASE Choose(p)
  <2>1. UNCHANGED ready
    BY <1>3 DEF Choose, UpdateBegin, DefaultBegin, SwitchDefault, HasDefault, PickDefault, catalog
  <2>2. UNCHANGED default
    BY <1>3 DEF Choose, UpdateBegin, DefaultBegin, SwitchDefault, HasDefault, PickDefault, catalog
  <2>3. CASE Restores(p)
    <3>1. HasDefault(p) \/ PickDefault(p)
      BY <1>3, <2>3 DEF Choose, UpdateBegin, DefaultBegin, SwitchDefault, Restores, Enter, Idle
    <3>2. ~PickDefault(p)
      BY <2>1, <2>2 DEF PickDefault, Candidates
    <3>3. Goto(p, "pick_default")
      BY <2>2, <3>1, <3>2 DEF HasDefault
    <3> QED BY <3>3 DEF Goto, Restores, TypeInv, TypeOK, Handlers
  <2> QED BY <1>1, <2>1, <2>2, <2>3 DEF DefaultOrSoon
<1>4. CASE Delete(p)
  <2>1. ~Restores(p)
    BY <1>4 DEF Delete, DeleteBegin, DeleteCheckRuns, DeleteCheckRemaining, DeleteDropUser,
                DeleteRow, Restores, At, Enter, Idle
  <2>2. CASE DeleteRow(p)
    BY <2>2 DEF DeleteRow, Goto, Restores, TypeInv, TypeOK, Handlers
  <2>3. CASE ~DeleteRow(p)
    <3>1. UNCHANGED <<ready, default>>
      BY <1>4, <2>3 DEF Delete, DeleteBegin, DeleteCheckRuns, DeleteCheckRemaining,
                        DeleteDropUser, catalog
    <3> QED BY <1>1, <2>1, <3>1 DEF DefaultOrSoon
  <2> QED BY <2>2, <2>3
<1> QED BY <1>2, <1>3, <1>4

LEMMA SoonNext ==
    ASSUME ~Rejected, ~ReplyLost, "crash" \notin Faults
    PROVE  TypeInv /\ AsksInHandler /\ DefaultOrSoon /\ [Next]_vars => DefaultOrSoon'
<1> SUFFICES ASSUME TypeInv, AsksInHandler, DefaultOrSoon, [Next]_vars PROVE DefaultOrSoon'
  OBVIOUS
<1>1. CASE UNCHANGED vars
  BY <1>1 DEF vars, DefaultOrSoon, Restores
<1>2. ASSUME NEW p \in Procs, Ask(p) PROVE DefaultOrSoon'
  <2>1. UNCHANGED <<ready, default>> /\ handler[p] = Idle
    BY <1>2 DEF Ask, AskAcquire, Enter, catalog
  <2>2. \A q \in Procs : q # p => handler'[q] = handler[q]
    BY <1>2 DEF Ask, AskAcquire, Enter, TypeInv, TypeOK
  <2> QED BY <2>1, <2>2 DEF DefaultOrSoon, Restores, Idle
<1>3. ASSUME NEW r \in Runs, Thread(r) PROVE DefaultOrSoon'
  <2>1. CASE UNCHANGED handler
    BY <1>3, <2>1, ThreadMoves DEF DefaultOrSoon, Restores
  <2>2. CASE Starting(r) /\ Return(run[r].proc)
    <3>1. ~Restores(run[r].proc)
      BY <2>2 DEF AsksInHandler, Restores, TypeInv, TypeOK, StepsMatch, DefaultSteps
    <3>2. \A q \in Procs : q # run[r].proc => handler'[q] = handler[q]
      BY <2>2 DEF Return, TypeInv, TypeOK
    <3> QED BY <1>3, <3>1, <3>2, ThreadMoves DEF DefaultOrSoon, Restores
  <2> QED BY <1>3, <2>1, <2>2, ThreadMoves
<1> QED BY <1>1, <1>2, <1>3, SoonByHandlers DEF Next, Crash

\* However many processes delete engines, create them and switch the default
\* at once: when they are through there is a default engine, provided that no
\* statement fails and no process dies.  Whatever else may fail, may.
THEOREM DefaultComesBack ==
    ASSUME Faults \cap {"reject", "lost_reply", "crash"} = {} PROVE Spec => []DefaultRestored
<1>1. ~Rejected /\ ~ReplyLost /\ "crash" \notin Faults
  BY DEF Rejected, ReplyLost
<1>2. TypeInv /\ AsksInHandler /\ DefaultOrSoon /\ [Next]_vars => DefaultOrSoon'
  BY <1>1, SoonNext
<1>3. TypeInv /\ DefaultOrSoon => DefaultRestored
  BY DEF TypeInv, StepsMatch, DefaultSteps, DefaultOrSoon, Restores, DefaultRestored
<1> QED BY <1>2, <1>3, TypeInvInit, TypeInvNext, AsksInit, AsksNext, SoonInit, PTL DEF Spec

-----------------------------------------------------------------------------
(* The refinement of EngineLeases.                                          *)

LEMMA LeasesStutter ==
    ASSUME UNCHANGED <<ready, run>> PROVE UNCHANGED Leases!vars
  BY DEF Leases!vars

\* A thread ends, or a process dies with all of its runs.
LEMMA GivesBack ==
    ASSUME TypeInv, NEW S \in SUBSET Runs, \A r \in S : run[r].at \in HoldingSteps,
           UNCHANGED ready, run' = [r \in Runs |-> IF r \in S THEN [run[r] EXCEPT !.at = "gone"] ELSE run[r]]
    PROVE  [Leases!Next]_Leases!vars
<1> DEFINE H(r) == IF run[r].at \in HoldingSteps THEN run[r].engine ELSE NoEngine
<1>1. \A r \in Runs : run'[r] = IF r \in S THEN [run[r] EXCEPT !.at = "gone"] ELSE run[r]
  OBVIOUS
<1>2. \A r \in S : run'[r].at = "gone" /\ H(r)' = NoEngine /\ H(r) # NoEngine
  BY <1>1, ConstantsOK DEF TypeInv, TypeOK, HoldingSteps
<1>3. \A r \in Runs \ S : H(r)' = H(r) /\ run'[r] = run[r]
  BY <1>1
<1>4. CASE S = {}
  <2>1. [r \in Runs |-> H(r)]' = [r \in Runs |-> H(r)]
    BY <1>3, <1>4
  <2>2. {r \in Runs : run[r].at = "gone"}' = {r \in Runs : run[r].at = "gone"}
    BY <1>3, <1>4
  <2> QED BY <2>1, <2>2 DEF Leases!vars
<1>5. CASE S # {}
  <2>1. \A r \in S : [s \in Runs |-> H(s)][r] # NoEngine
    BY <1>2
  <2>2. [r \in Runs |-> H(r)]' = [r \in Runs |-> IF r \in S THEN NoEngine ELSE [s \in Runs |-> H(s)][r]]
    BY <1>2, <1>3
  <2>3. {r \in Runs : run[r].at = "gone"}' = {r \in Runs : run[r].at = "gone"} \cup S
    BY <1>2, <1>3
  <2>4. Leases!GiveBack(S)
    BY <1>5, <2>1, <2>2, <2>3 DEF Leases!GiveBack
  <2> QED BY <2>4 DEF Leases!Next
<1> QED BY <1>4, <1>5

LEMMA LeasesInit == Init => Leases!Init
<1> SUFFICES ASSUME Init PROVE Leases!Init
  OBVIOUS
<1>1. ready \in {{e} : e \in Engines} /\ \A r \in Runs : run[r].at = "new"
  BY DEF Init
<1> QED BY <1>1 DEF Leases!Init, HoldingSteps

\* The catalogue: a row that appears is offered, one that is deleted is
\* withdrawn, and only then does the set of ready engines change.
LEMMA CatalogRefines ==
    ASSUME TypeInv, LeaseAccounting, DeletedEngineUnleased, OneLeft, NEW P, Procs = {P},
           Create(P) \/ Choose(P) \/ Delete(P)
    PROVE  [Leases!Next]_Leases!vars
<1>0. P \in Procs /\ UNCHANGED run
  BY CatalogHandlers
<1>1. CASE UNCHANGED ready
  BY <1>0, <1>1, LeasesStutter
<1>2. CASE InsertRow(P) /\ ~UNCHANGED ready
  <2> DEFINE e == handler[P].engine
  <2>1. e \in Engines /\ e \notin ready /\ ready' = ready \cup {e}
    BY <1>0, <1>2, HandlerFacts DEF InsertRow, CommitRow, Conflicts, Rows, At, catalog
  <2>2. Leases!Offer(e)
    BY <1>0, <2>1 DEF Leases!Offer
  <2> QED BY <2>1, <2>2 DEF Leases!Next
<1>3. CASE DeleteRow(P) /\ ~UNCHANGED ready
  <2> DEFINE e == handler[P].engine
  <2>1. /\ e \in Engines /\ e \in ready /\ ready' = ready \ {e} /\ ready \ {e} # {}
        /\ leases[P][e] = 0
    BY <1>0, <1>3, HandlerFacts DEF DeleteRow, RemoveRow, OneLeft, LeavesOne, DeletedEngineUnleased,
                                    Locked, At, catalog
  <2>2. Holders(P, e) = {}
    BY <1>0, <2>1, HoldersFinite, FS_EmptySet DEF LeaseAccounting
  <2>3. \A r \in Runs : run[r].at \in HoldingSteps => run[r].engine # e
    BY <2>2 DEF Holders, TypeInv, TypeOK
  <2>4. Leases!Withdraw(e)
    BY <1>0, <2>1, <2>3, ConstantsOK DEF Leases!Withdraw
  <2> QED BY <2>1, <2>4 DEF Leases!Next
<1>4. UNCHANGED ready \/ InsertRow(P) \/ DeleteRow(P)
  BY DEF Create, CreateBegin, CreateUser, TestUser, RemoveUser, Choose, UpdateBegin, DefaultBegin,
         SwitchDefault, HasDefault, PickDefault, Delete, DeleteBegin, DeleteCheckRuns,
         DeleteCheckRemaining, DeleteDropUser, catalog
<1> QED BY <1>1, <1>2, <1>3, <1>4

\* The asks: a lease is taken once, and given back when the run ends.
LEMMA AskRefines ==
    ASSUME TypeInv, NEW p \in Procs, Ask(p) PROVE [Leases!Next]_Leases!vars
<1> DEFINE H(r) == IF run[r].at \in HoldingSteps THEN run[r].engine ELSE NoEngine
<1>1. PICK r \in Runs, e \in ready :
         /\ run[r].at = "new" /\ UNCHANGED ready
         /\ run' = [run EXCEPT ![r] = [at |-> "leased", proc |-> p, engine |-> e]]
  BY DEF Ask, AskAcquire, Resolves, catalog
<1>2. run'[r].at = "leased" /\ run'[r].engine = e /\ \A s \in Runs : s # r => run'[s] = run[s]
  BY <1>1 DEF TypeInv, TypeOK
<1>3. H(r) = NoEngine /\ H(r)' = e /\ \A s \in Runs : s # r => H(s)' = H(s)
  BY <1>1, <1>2 DEF HoldingSteps
<1>4. [s \in Runs |-> H(s)]' = [[s \in Runs |-> H(s)] EXCEPT ![r] = e]
  BY <1>3
<1>5. {s \in Runs : run[s].at = "gone"}' = {s \in Runs : run[s].at = "gone"}
  BY <1>1, <1>2
<1>6. r \notin {s \in Runs : run[s].at = "gone"} /\ [s \in Runs |-> H(s)][r] = NoEngine
  BY <1>1, <1>3
<1>7. Leases!Take(r, e) /\ e \in Engines
  BY <1>1, <1>4, <1>5, <1>6 DEF Leases!Take, TypeInv, TypeOK
<1> QED BY <1>7 DEF Leases!Next

LEMMA CrashRefines ==
    ASSUME TypeInv, NEW p \in Procs, Crash(p) PROVE [Leases!Next]_Leases!vars
<1> DEFINE S == {r \in Runs : run[r].proc = p /\ run[r].at \in HoldingSteps}
<1>1. run' = [r \in Runs |-> IF r \in S THEN [run[r] EXCEPT !.at = "gone"] ELSE run[r]]
  BY DEF Crash
<1>2. S \in SUBSET Runs /\ UNCHANGED ready
  BY DEF Crash, catalog
<1> QED BY <1>1, <1>2, GivesBack

LEMMA ThreadRefines ==
    ASSUME TypeInv, NEW r \in Runs, Thread(r) PROVE [Leases!Next]_Leases!vars
<1> DEFINE H(s) == IF run[s].at \in HoldingSteps THEN run[s].engine ELSE NoEngine
<1>1. run[r].at \in HoldingSteps /\ UNCHANGED ready
  BY DEF Thread, AskRecord, AskSpawn, RunOpenFails, RunFinish, RunRelease, HoldingSteps, catalog
<1>2. PICK step : run' = [run EXCEPT ![r].at = step] /\ step \in HoldingSteps \cup {"gone"}
  BY DEF Thread, AskRecord, AskSpawn, RunOpenFails, RunFinish, RunRelease, HoldingSteps
<1>3. CASE step = "gone"
  <2> DEFINE S == {r}
  <2>1. run' = [s \in Runs |-> IF s \in S THEN [run[s] EXCEPT !.at = "gone"] ELSE run[s]]
    BY <1>2, <1>3 DEF TypeInv, TypeOK
  <2>2. S \in SUBSET Runs /\ \A s \in S : run[s].at \in HoldingSteps
    BY <1>1
  <2> HIDE DEF S
  <2> QED BY <1>1, <2>1, <2>2, GivesBack
<1>4. CASE step \in HoldingSteps
  <2>1. /\ run'[r].at = step /\ run'[r].engine = run[r].engine
        /\ \A s \in Runs : s # r => run'[s] = run[s]
    BY <1>2 DEF TypeInv, TypeOK
  <2>2. \A s \in Runs : H(s)' = H(s) /\ (run'[s].at = "gone" <=> run[s].at = "gone")
    BY <1>1, <1>4, <2>1 DEF HoldingSteps
  <2>3. [s \in Runs |-> H(s)]' = [s \in Runs |-> H(s)]
    BY <2>2
  <2>4. {s \in Runs : run[s].at = "gone"}' = {s \in Runs : run[s].at = "gone"}
    BY <2>2
  <2> QED BY <1>1, <2>3, <2>4 DEF Leases!vars
<1> QED BY <1>2, <1>3, <1>4

\* One backend process keeps what EngineLeases promises, for any engines, users
\* and runs and under every fault: every step of it is one of the abstract
\* steps on the offered engines and the leases, or changes neither.
THEOREM CatalogImplementsLeases ==
    ASSUME NEW P, Procs = {P} PROVE Spec => ImplementsLeases
<1> DEFINE All == TypeInv /\ LeaseAccounting /\ DeletedEngineUnleased /\ OneLeft
<1>1. All /\ [Next]_vars => [Leases!Next]_Leases!vars
  <2> SUFFICES ASSUME All, [Next]_vars PROVE [Leases!Next]_Leases!vars
    OBVIOUS
  <2>1. CASE UNCHANGED vars
    BY <2>1, LeasesStutter DEF vars
  <2> QED BY <2>1, CatalogRefines, AskRefines, CrashRefines, ThreadRefines DEF Next
<1>2. Init => All
  BY TypeInvInit, LeaseInit, DeletedInit, OneLeftInit
<1>3. All /\ [Next]_vars => All'
  BY TypeInvNext, LeaseNext, DeletedNext, OneLeftNext
<1> HIDE DEF All
<1> QED BY <1>1, <1>2, <1>3, LeasesInit, PTL DEF Spec, ImplementsLeases, Leases!Spec

=============================================================================
