# Data Nexus: verification project

Data Nexus answers a business question over several data systems at once. A Python
backend (`src/backend/app`) chooses the ontologies that can answer, compiles the
question into a semantic query graph (SQG), optimises the graph into a physical plan,
executes the plan against the source systems and one compute engine, and writes an
answer with its lineage. A C# server (`src/frontend/DataNexus/DataNexus.Server`) keeps
the model catalogue and the API log, and a Vue client shows the runs.

This directory holds TLA+ modules translated from that source, the configurations
that model-check them with TLC on small instances, and proofs checked by TLAPS.
`PROJECT.json` lists the components, the runs, the source lines every definition
stands for, the hazards and the theorems.

## 1. Inventory

### Processes, threads and shared state

* **Backend process.** One `uvicorn` worker; the endpoints are `async def` with blocking
  bodies, so a process is inside at most one handler at a time. Several processes may
  share the database (an overlapping restart, or replicas behind the C# server).
* **Asks.** `start_ask` leases an engine, writes the row of the run and starts a daemon
  thread, on which `ask` runs the stages initializer, compiler, optimizer, coordinator,
  generator. Several asks run at once, next to the handlers.
* **Coordinator pool.** Each wave of fragments runs on a `ThreadPoolExecutor`.
* **Database.** `nexus.run`, `run_stage`, `run_node` (the record of an ask),
  `compute_engines`, `credentials`, `resolvers`, `llms`, `ontology`, `ontology_grant`,
  `api_log`. Each statement is its own transaction unless the code opens one.
* **Key Vault** holds the secrets that credential rows name; **target databases** hold the
  SQL Server users compute engines run as.
* **Browser.** `NexusRuntime.vue` polls the C# server, which reads the record of a run.

### Components

| component | state it keeps | operations | what makes it correct | status |
|---|---|---|---|---|
| Compute engine catalogue (`compute_registry.py`, `compute.py`, `endpoints/compute_engines.py`) | engine rows, default, database users, in-memory leases | create, test, update, set default, delete; acquire, release | a run keeps its engine; an engine always remains; leases are counted exactly; foreign users survive; a default exists | modelled |
| Plan and coordinator (`optimizer.py`, `coordinator.py`, `topo_waves`) | plan, waves, results, `run_node` rows, compute engine | plan, wave, run a fragment, skip, close | a fragment waits for its inputs; failures reach exactly what is downstream; the engine outlives its users | structure modelled |
| Ask stages and run record (`client.py`, `bootstrap.py`) | `run`, `run_stage`, `run_node` | start, stages, close | the record tells what happened, is closed once, and then stays | modelled |
| Run viewing (`RunsController.cs`, `NexusRuntime.vue`) | selection, panel, timers | select, poll, show, retry | an ended run is shown whole; polling goes on until then | modelled, without the list |
| Optimizer rewrites (`optimizer.py`, query renderers) | none | fuse, push down, pre-aggregate | the plan returns what the graph asks for | aggregates over two entities modelled |
| Credential store (`credential.py`, `endpoints/credentials.py`) | row in the database, secret in Key Vault | load, save, delete | a load is whole or nothing; row and secret agree; an engine keeps its credential | modelled |
| SQL pool (`sql_db.py`) | idle connections | execute with retries, take, give back, dedicated connection, close | a connection has one user; none is lost; effects are explained by broken connections | modelled |
| Cancellation tokens (`cancellation_token.py`) | flag, callbacks, parent | cancel, register | no callback is missed | modelled, without deadlines |
| Resolvers (`resolvers/`) | none | fetch | a Web IQ call keeps its deadline and stops when cancelled | Web IQ modelled; the others are one call |
| Resolver and model registry (`registry.py`) | resolvers, models, default | load, reload, look up | a default model is found after a load | modelled |
| Ontology storage (`repository.py`) | rows, grants | create, save, publish, delete, read | a user works on what the grants allow | backend's writer modelled |
| Initializer, compiler (`initializer.py`, `compiler.py`) | two sliding caches | select, route, compile, reuse | a cached answer fits the scope it is used for | modelled |
| Graph checks and calculations (`logical.py`, `compiler.py`, `coordinator.py`) | results of tasks | check, resolve inputs, calculate, select | what is accepted runs, and computes the join it names | modelled, types of measures left out |
| Relations and joins (`relations.py`, `binder.py`, `optimizer.py`) | none | search a tree, orient it | the joins connect what the task reads, each once | modelled |
| Service container (`services.py`) | instances | get | one instance each | not modelled |
| SQL rendering, generator, request handling, users, web client, migrations | - | - | - | not modelled (section 7) |

### How the components interact

```
browser --HTTP--> C# server --HTTP--> backend handler: start_ask
   ^                  |                   |  acquire (lease)      ComputeRegistry
   |                  |                   |  start_run            AskRun.Open
   | polls            |                   |  Thread.start         AskRun.Spawn
   |                  v                   v
   +--- RunsController reads   <---   thread: 5 stages            AskRun
        run, run_stage, run_node         | optimizer, coordinator PlanExecution
        RunViewer                        | finish_run, release    AskRun, ComputeRegistry
```

```
initializer (routes) -> compiler (graphs) -> binder -> optimizer -> coordinator -> generator
   |  OntologyRepository    |  ResolverRegistry  |         |            |
   |  Compilation           |  Compilation       | JoinTrees, AggregatePlans
                            |  GraphContracts    |         |       GraphContracts (what a task gets)
                                                           PlanExecution (when it gets it)
resolvers: Resolvers = SqlPool + WebIqFetch + CancellationToken;  CredentialStore below them
```

`RunViewer` composes the browser and the C# server with the asks that write the record
(it extends `AskRun`). `ComputeRegistry` contains the ask as far as it touches the lease
and the row that blocks a deletion. `PlanExecution` is one execution of the
coordinator's stage; `AskRun` contains one of its fragments. `Compilation` composes the
registry and the ontologies with the asks that read both and share two caches.
`Resolvers` composes what the threads of a process share below the resolvers: the pool,
the tokens and the calls of Web IQ, whose waits look at the tokens.

### Behaviours that are hard

Statements of two processes interleave between checks and effects (leases, defaults,
deletion); statements fail, or take effect and are reported failed (`sql_db` sends them
again after a broken connection); writes of the recorder are swallowed; a process dies
with its leases and threads; threads of a pool share one engine; responses arrive after
the selection changed; a cache outlives what its entries were computed from; a search
depends on the order of a Python set; a row and its secret, or its grants, live in two
statements or two stores. `PROJECT.json` lists each of these at its line under `hazards`,
with the properties that are about it.

## 2. Modules

### ComputeRegistry, EngineLeases, MCComputeRegistry

State: `ready`, `legacy`, `owner`, `default` are the columns of `nexus.compute_engines`
(`provision_state`, `runtime_user`, `is_default`); `principals` the users of the target
database; `leases` is `_active_runs` of each process; `handler` the request each process
is in; `run` the asks and `row` the `state` of their rows.

| actions | code |
|---|---|
| `CreateBegin`, `CreateUser`, `TestUser`, `RemoveUser`, `InsertRow` | `create_definition`, `SqlServerComputeProvisioner.create_and_test`, `_insert_ready_definition` |
| `UpdateBegin`, `DefaultBegin`, `SwitchDefault` | `update_definition`, `set_default` |
| `HasDefault`, `PickDefault` | `_ensure_default` |
| `DeleteBegin`, `DeleteCheckRuns`, `DeleteCheckRemaining`, `DeleteDropUser`, `DeleteRow` | `delete_definition` |
| `AskAcquire`, `AskRecord`, `AskSpawn`, `RunOpenFails`, `RunFinish`, `RunRelease` | `acquire`, `start_ask`, `ask`, `release` |
| `Crash` | a process dies and starts again |

A handler is split at every database statement, because other processes act in between;
each statement is atomic. What may go wrong is the constant `Faults`: `reject` (a
statement fails), `lost_reply` (it takes effect and is reported failed), `recorder`,
`spawn`, `crash`. Configurations and creation times are left out.

`EngineLeases` is what the catalogue promises a run: the engine it was given stays on
offer until it is given back, and there is always one on offer. One process implements
it under every fault (`ImplementsLeases`); two processes do not.

### PlanExecution, Dataflow, MCPlanExecution

A graph is a kind, dependencies and inputs for each of `N` tasks. `FragmentsOf`, `ResultOf`,
`Placed` and `Depends` are `Optimizer._physical`: tasks that share a fusion key become one
fragment, tasks over two sources become a projection and an exchange for each and a query
of the compute engine, the rest one fragment each; `Placed` is the condition
`dep in physical_for_logical`. `PlanWave` is one iteration of `topo_waves`, with its guard
against cycles. `OpenEngine`, `NextWave`, `WaveEnd`, `Close` are `Coordinator.execute`;
`Start`, the `Execute...` actions, `LoadInputs`, `RunQuery` and `Finish` are `_run_node` on
threads of the pool, which share `ctx.results` and the engine and its lock. Whether a
fragment succeeds is a choice; what it computes is left out. The variable `blind` is
history: the fragments that took a missing result for an empty one.

`Dataflow` says what executing a plan means without waves or threads: every step at most
once, after all it needs, doing its work only if all of that succeeded.

### AggregatePlans, MCAggregatePlans

What the plans of aggregate tasks compute. A case is a table of facts, a table of
dimension rows, what the ontology says of the relation between them, where the tables
are, and tasks: an aggregate of a fact's value, grouped by a column of the fact (`c`), of
the dimension (`g`) or both, over a scope of conjuncts, perhaps with DISTINCT, perhaps with a
filter of the result.

| definitions | code |
|---|---|
| `Filter`, `Join`, `Aggregate`, `AggregateOf` (DISTINCT), `GroupBy`, `ResultFilter` | what the SQL of `QueryIR` means (`duckdb_query_renderer.py`): `NULL` satisfies no comparison and is not aggregated, a query without dimensions returns one row |
| `Plan` with `FusionKey`, `GroupOf`, `Preaggregated`, `Pushed`, `Branch`, `Unbindable` | `_physical`, `_fusion_key`, `_preaggregate_candidate`, `_fused_aggregates`, `_cross_source`, `_join_type` |
| `Fetch` with `Tables`, `Partials`, `FusedColumn` | the source fragments |
| `Compute` with `Combined`, `FinalFunction`, `FinalDistinct`, `ColumnMissing` | the exchanges and the query of the compute engine |

The reference is `SingleQuery`, the one query `_single_source` would send if both tables
were in one source. `SameAnswer` compares with it: it is the *same* aggregate over `RowsOf`,
which no fused, cross-source or pre-aggregated plan computes that way.

Five things the properties allow for, because the code has them. A sum or a count of distinct
values that is pre-aggregated is wrong, since the partials are added up (`Decomposes` sets
these aside; `plans_distinct` is about them). A conjunct that reads two
sources is lost, and one on the dimensions of a `LEFT` join is applied before the join and
not after it: `Separable` sets such scopes of cross-source tasks aside (`plans_scope` is
about the first). A fused task gets empty groups of the others. A count of
nothing is `NULL` and not 0 if it was pre-aggregated (`Known`). And a query over an SQL table
that came back empty, or of a column that pre-aggregation dropped, fails (`ColumnMissing`).
Pre-aggregation is safe even if the ontology is wrong about the relation: the tables of
the runs do not respect its cardinality, and a partial that meets two dimension rows is
counted twice exactly as its facts would have been.

### AskRun

`at`, `stage`, `failed` are the thread of an ask, `pool` stands for the threads of its
coordinator, `run`, `rows`, `node` for the rows of `run`, `run_stage` and one row of
`run_node`. `Write` is `DbRunRecorder._exec`, which logs a failure and goes on; the
history variable `lost` keeps the asks this happened to. `OutputRaises` is the
serialization of a stage's result, which `_stage` does after its `try`.

### RunViewer

Extends `AskRun`. A *chain* is the sequence of polls one selection starts; it has one
request or one timer at a time. `Select` is the watch of the `runId` property with
`reset` and `load`, which clears the one timer the panel remembers and leaves requests
alone; `ReadRun`, `ReadStages` and the reading part of `Show` are the three queries of
`GetRun`; `Show`, `Failed` and `Fire` are `load` after a response, after a failure and
from its timer. The counter `tries` is shared by the chains, as in the code.

### CredentialStore, MCCredentialStore

`rows`, `active`, `meta` are `app_credential`; `live` and `content` Key Vault; `engines` the
names that active engines reference; `handler` the request of each process and the load
of each thread. The steps of a request are the statements and vault calls between which
another process may act:

| actions | code |
|---|---|
| `LoadBegin`, `LoadMeta`, `LoadSecret`, `LoadEnd` | `load`, `_query_credential_meta`, `_load_secret` |
| `SaveBegin`, `SaveMeta`, `SaveSecret`, `SaveRow`, `SaveUndo`, `SaveOld` | `save`: new secret, row, and then the old secret; a failing row undoes the new secret |
| `DeleteBegin`, `DeleteRefs`, `DeleteMeta`, `DeleteSecret`, `DeleteRow` | `credential_delete`, `delete` |
| `EngineBegin`, `EngineInsert`, `EngineDropped` | what the catalogue of engines does with a credential |
| `Crash` | a process dies between two steps |

`blurred` is history: the names on which two requests met, or a fault left one store
behind the other. `OneSecretPerCredential` and `EngineHasCredential` are about the others;
`LoadedIsComplete` and `OnlyDeleteStrands` about all, under every fault.

### SqlPool, CancellationToken, WebIqFetch, Resolvers, MCResolvers

`SqlPool`: `pool` is `_pool` with the connection that is taken first at its end, `stmt` the
statement of each thread with its tries. `Acquire` closes old connections and takes one or
creates one (`Create`); `Answer`, `Break`, `Drop` are the three ways `_run` leaves
`cursor.execute`; `Release` gives the connection back or closes it, if the pool is full.
Each statement counts its `effects` and the connections that broke under it (`breaks`).

`CancellationToken`: `cancel` is four steps (ask the flag, set it, copy the callbacks under
the lock, run them), `on_cancelled` is one, since it holds the lock throughout. Both look at
the token's own event, while `is_cancelled` asks the ancestors too: `NoCallbackMissed` is
about a token whose own `cancel` is called, and `CancelledTokensCall`, about every cancelled
token as the docstrings have it, is refuted (`tokens`).

`WebIqFetch`: the loop of `_post` in steps, with time in ticks of 0.2 s of which a call has
`left`. A post takes `PostTime` at most: the client's timeout bounds each of its parts
(connect, write, each read), not their sum, so this is an assumption. `Wait` is the test of `_wait` before it sleeps, `WaitStep` one of its small sleeps.

`Resolvers` runs them on common threads, each doing one thing at a time.

### ResolverRegistry, OntologyRepository, Compilation, MCCompilation

`ResolverRegistry`: a reload empties the tables (`ReloadBegin`), reads the rows and builds
resolvers and models one at a time, and may raise anywhere (`LoadRaises`). `ChangeRow`
stands for the pages that edit the rows. `OntologyRepository`: an edit of the owner is its
statements; `Publish` is the `UPDATE`, `ClearGrants` and `GrantNext` the statements that
follow, any of which may fail (`EditFails`).

`Compilation`: `at` is where an ask is in `_select`, `run`, `compile` and `_compile_llm`.
`Begin` lists the visible ontologies, `Choose` and `RouteAnswer` use or fill the cache of
routes, `ReadRow` and `ReadGrants` look a picked ontology up in two statements, `Validate`
and `Assemble` build the context, `Compile` looks for a graph in the second cache, and
`Accept`, `Reject`, `Refuse` are what becomes of a model's answer. An entry of a cache may
be of any age at every look-up, so it is found or dropped: use restarts the hour.
`seen` is history: what an ask could read at some moment after it had read the row.

### JoinTrees, MCJoinTrees

One task from `join_tree` to its joins. `Seed`, `Visit`, `NotConnected` are `_bfs_path` with the
queue started in any order of the set; `Walk` and `WalkEnd` add the path to the tree. `Bind`
decides between a query over one source and `_cross_source`; there `Joinable` is the source of
an entity, and the relations inside a source become the `local` joins of its fragment
(`LocalTarget`). `Orient`, `PassOver` and `PassEnd` are the loop that takes a relation as
soon as one of its ends is joined, until nothing moves.

### GraphContracts, MCGraphContracts

A graph of tasks as a language model may write it. `GraphValid`, `OperatorsMounted`,
`BusinessValid`, `RuntimeInputsValid` and `CalculateValid` are the checks of `SQG` and of
`Compiler`, in their order. Of a graph that passes, the waves run over rows with values:
`Query` gives an AGGREGATE any table of its grain and a SELECT any rows of what it selects,
`PageRows` any pages, each without any of its fields (`_search_row` leaves out what is
`None`), `Problem` and `TextProblem` are
`_resolve_inputs` and `_format_input_strings`, `Align`, `Outputs` and `SelectRows` are
`_calculate`. An expression is the sequence of its nodes, operands first, so that `Eval` is a
recursive function of positions; the outputs of a row (`OutputValues`) are another. `told`, of a
result, is history: the queries whose data are in a text.

### MCPlanning

The modules of a compilation are checked in one run: an ask, a graph or a tree takes all the
steps of a behaviour while the two others rest in an initial state. They share no state in
the code that the models keep, so nothing is lost by it, and nothing composed.

## 3. Runs

The passing runs:

| run | instance | what it shows |
|---|---|---|
| `registry_single` | 1 process, 3 engines, 2 users (one foreign), 2 asks, all faults; engines and asks symmetric | `LeaseAccounting`, `KeepsOneReady`, `ForeignUsersKept` and the refinement of `EngineLeases` |
| `registry_pair` | 2 processes, 2 engines, 1 user, 1 ask, no faults, fair | `DeletedEngineUnleased`, `DefaultRestored`, `RunsEnd` |
| `plan_all` | 176 graphs of 3 tasks, 2 threads, all faults, fair | `ComputeSeesInputs`, `EverythingReported`, the refinement of `Dataflow` (order, reach of failures), `ExecutionEnds` |
| `plans_all` | every table of up to two facts (keys 1, 2; values `NULL`, 1, 2; both categories); one task over two sources, with DISTINCT or without, with every dimension table of up to two rows; one an SQL source cannot aggregate, or two that may be fused, with three dimension tables (empty, one row, two rows) | `SameRows`, `SameAnswer`, `NothingInvented` |
| `ask_all` | 1 ask, 5 stages, all faults, fair | `RunTellsStages`, `ClosedForGood`, `RunCloses`: the record and how it is closed |
| `view_all` | 2 runs of 1 stage, 2 selections, 1 retry, failing requests, fair | `ShownWhole`, `FollowedToEnd`: what is shown, and that it is followed to the end |
| `credentials` | 2 processes, 1 thread, 1 name, 3 secrets, two types of credential and an input that lacks a field, all faults; secrets and processes symmetric | `LoadedIsComplete`, `OneSecretPerCredential`, `EngineHasCredential`, `OnlyDeleteStrands` |
| `resolvers` | 2 threads, 3 connections, a pool of 1, 3 attempts; a token with a child, 1 callback; a deadline of 1 or 3 ticks, posts of up to 2, 1 retry, delays 0 and 2; fair | `OneHolderEach`, `EffectsExplained`, `NoCallbackMissed`, `OverrunsByOnePost`, `CancelStopsPosting`, `CallsEnd` |
| `planning` | three parts that share no state (`MCPlanning`), so that one run takes the sum of their states. Asks: 2 of one question and user, 2 ontologies in every visibility, 2 resolvers, 2 models; 2 edits, or a reload and a change of the rows. Graphs: some 890, a calculation over two queries, a report, a note and a mail, a text about pages, each in sound and unsound forms; tables over two keys and the amounts 0, 1, `None`, up to 2 pages. Trees: 4 entities in up to 3 sources, every ontology with a relation either way or none between four pairs and with both between one, every task and order of search | of asks `ScopeWasReadable`, `PlansWithinScope`, `DefaultAnswers`; of graphs `MailTellsData`, `AcceptedGraphsRun`, `CalculatesTheJoin`, `SelectionKeepsBest`; of trees `TreeConnects`, `RefusedOnlyIfApart`, `JoinsEverythingOnce`, `WholeFragments` |

Bounds. Three engines are needed for a deletion to compete with another one and still
leave one; two asks for one lease to remain when the other is released; the foreign user
for `create` to meet one that exists. Asks of one process do not meet except in the
leases, so `ask_all` needs one. Three tasks are enough for a fused pair with something
downstream of it and for a cycle; the graphs wire them in every way in which the first
task depends on nothing, and the mixed ones in every way at all. Two threads are enough
for two queries to contend for the engine. A viewer with two selections has every overlap
of an old chain with a new one; one retry has both outcomes of `Failed`. Two facts and two
dimension rows, equal ones included, are enough for a fact without a dimension row, one
with two, two facts in one partial, and groups with and without a row of a task.

A process has one registry lock; a second process is what makes the deletion race real,
and a third adds no new pair of steps. In `registry_pair` faults are left out: a fault in
one process looks to the other like a handler that returned early, which the single
process has.

For `credentials` one name is enough: nothing relates two. Three secrets let two savers
each write one over a third that is there. In `resolvers` a pool of one is full and empty
with two threads, a third connection is one that replaces a broken one, and `CallsEnd` needs
delays shorter and longer than what is left. Two asks are one that fills a cache and one
that uses it; edits and reloads touch different tables, and `Mixed = FALSE` keeps them in
different behaviours (the proofs do not need it). Four entities have a path of three
relations, a triangle, and a fragment with two relations inside a source.

Three runs are expected to be refuted:

* `plans_scope`: `sqg_pep_operator_manual.md:428` says the scope of a task filters rows before
  they are aggregated, but in a task over two sources a conjunct that reads both filters
  nothing (`optimizer.py:432`).
* `plans_distinct`: the manual says at `:287` that `distinct` removes duplicates before
  aggregating, but pre-aggregation does not look at it (`optimizer.py:583`) and adds up
  partials (`:534`): a value under two keys counts twice.
* `tokens`: `cancellation_token.py:138` says that a callback registered on a cancelled token
  runs at once, and `:83` that a token is cancelled when an ancestor is, but callbacks of a
  child are run by neither `cancel` of the parent nor `on_cancelled` (`:146`). Nothing under
  `src/backend` links tokens or registers callbacks yet.

Known limits that the modules have as the code does, without a run of their own (each
is at its line under `hazards`):

| where | what the code does |
|---|---|
| `compute_registry.py:395` | an ask that another process accepted after the check loses its engine, against `:404`; `RunKeepsEngine` holds for one process only |
| `compute_registry.py:428` | a failing `DELETE` leaves an engine on offer without its user; `compute_engines.py:147` says it is deactivated first |
| `coordinator.py:226` | a calculation listed before its input computes from an empty table, against `sqg_pep_operator_manual.md:627`; the properties of `GraphContracts` are about graphs listed in order |
| `optimizer.py:296` | a fused task gets the groups of the tasks it shares a query with, without a value, against `data_nexus_design.md:923`; `NothingInvented` bounds this |
| `optimizer.py:411` | a relation inside a fragment that leads away from its first entity is joined the wrong way round; `WholeFragments` excludes it (`LeadToRoot`) |
| `web_iq.py:218` | a page may come without a field `logical.py:278` declares of it; `compiler.py:360` accepts a reference to it and `coordinator.py:184` fails the task; `AcceptedGraphsRun` excepts references to pages (`PageLacks`) |
| `coordinator.py:306` | `LOWER`, `UPPER`, CASE and attributes pass the types and the compiler, and a calculation that has one raises; `AcceptedGraphsRun` lets calculations raise |
| `optimizer.py:513` | two relations between the same two sources stop the orientation; `JoinsEverythingOnce` allows `stuck` across sources |
| `NexusRuntime.vue:273` | a late response of the run selected before may be what stays on the panel, against `RunsPage.vue:33` |
| `initializer.py:115` | the first candidate that stands in for a route is cached like one, against the comment at `:101` |

## 4. Fairness

* `ComputeRegistry`: weak fairness of each process's handler (Python runs it to its end)
  and of the steps of each ask's thread; strong fairness of `RunRelease`, because the lock
  it waits for is free again and again, and `threading.RLock` lets a waiting thread in.
  Nothing obliges anyone to make a request.
* `PlanExecution`: weak fairness of the thread that runs the coordinator and of each
  thread of the pool: a fragment ends, by its resolver's own timeout if nothing else.
* `AskRun`: weak fairness of the thread of each ask. `RunCloses` therefore excludes asks
  whose process ended (daemon threads, nothing reconciles the row) and those a write of
  which was lost.
* `RunViewer`: in addition requests are answered or fail, and timers go off. The user
  need not do anything.

* `Resolvers`: weak fairness of each thread inside a statement, a call or a cancellation, and
  strong fairness of `Tick`, which is disabled whenever a thread is between two waits. A
  thread may begin nothing.
* `CredentialStore`, `Compilation`, `JoinTrees` and `GraphContracts` have safety properties only
  and no fairness.

`CHECK_DEADLOCK FALSE` stands where the system comes to rest: a plan that was executed,
asks that are over, a panel that shows an ended run, secrets that are used up, a graph that
was run. The catalogue never rests.

## 5. What is proved

For every value of the constants that satisfies the assumptions of its module, and under
every fault:

* **ComputeRegistry_proofs.** `TypeCorrect`. Its invariant `TypeInv` adds to `TypeOK` that a
  handler which is not idle names an engine (`EngineNamed`) and that its step belongs to
  its operation (`StepsMatch`): without them `RemoveRow` and `SwitchDefault` cannot be
  typed. `LeasesCounted`: `LeaseAccounting` is inductive over it; the argument is one of
  cardinalities, a step adds one ask to the holders of one engine, removes one, or (in a
  crash) removes all those of one process. `NoLeaseDuringDelete`: a lease is only taken in
  a handler, and a process that deletes is in another. `SingleProcessKeepsEngine`: if
  there is one process, an engine leaves `ready` only in a deletion, which by the two
  former has no holder. `ForeignUsersSafe`: the invariant `ForeignInv` says besides that no
  ready engine and no handler about to drop a user owns a foreign one (`OwnersKnown`,
  `OwnUsers`): a handler drops only what it created or what a ready row names.
  `SingleProcessKeepsOne`: with one process, a deletion that has passed its check of what
  remains still finds another ready engine in each later step (`LeavesOne`), since only
  deletions take one and no other handler is open. From these, `CatalogImplementsLeases`:
  every step of one process is a step of `EngineLeases` or changes neither what is offered
  nor who holds it. `DefaultComesBack`, for any number of processes: while there is a ready
  engine and no default, some handler is at a step that ends in `_ensure_default`
  (`DefaultOrSoon`). It assumes that no statement is rejected, loses its answer or is cut
  off by a crash: after any of these the code does leave no default, and nothing but the
  next deletion or creation looks for it.
* **PlanExecution_proofs.** `PlansAcyclic`: a rank on fragments decreases along
  `depends_on`, however the tasks are wired, since a capability only depends on tasks
  placed before it. `Invariance`: `IInv` says that waves respect dependencies (`Waves`),
  what each phase implies (`Phases`), and that fragments of earlier waves have ended and
  those of later ones wait (`Turns`). From it follow `DependenciesHold`, `EngineClosedLast`,
  `FailuresPropagate`, `ComputeInputsSeen` and, step by step, the refinement
  `WavesImplementDataflow`. `ExecutionsReport` adds `Reported`: a fragment that has ended has
  its outcome in its row and in the results, and the loop is left either after the last wave
  or because the run was cancelled.
* **AggregatePlans_proofs.** For finite tables of any size and any tasks: `PushDown`, filtering a
  join by conjuncts that each read one table is joining the filtered tables. `Decided` is
  the invariant: the plan, what was fetched and the answers are functions of the case.
  From these follow `TypeCorrect`, `ScopeSplit` (the filters of all forms of a plan select the
  rows of the task: for a fused one because what is not common stays with its aggregate,
  `FilterTwice`) and `NothingIsInvented` (a partial has the key of a fact, `PartialKeys`, so
  its groups are groups of facts). `AnswersAgree`, that the *values* agree, needs a theory of
  sums over finite sets first. `SumFunction` is a fold, defined by a recursive function on the
  subsets of a set; the induction theorems of the library take an operator and cannot be
  used, but a family of sets can be one's induction hypothesis (`FiniteInduction`: a family
  with the empty set, and with each subset all of whose parts by one element less are in it,
  has them all). So a fold exists and is unique (`FoldExists`, `FoldUnique`), a sum does not
  depend on the order (`SumUnfolds`, `SumRemove`), is the sum of its parts (`SumUnion`) and of
  the sums over the fibres of any map (`SumFibres`). The rows of the task are mapped to the
  rows of the partials; a fibre of this map is a group of facts beside one dimension row
  (`PartialRows`), whose aggregate is the partial's value (`BesideOne`), and aggregating the
  aggregates of the fibres is aggregating the rows (`Reaggregate`, for each function). An
  extreme is the same of distinct values, which is why `Decomposes` keeps MIN and MAX. That
  partial counts are added, with `Null` for none, is the case `Fix`.
* **AskRun_proofs.** `TypeCorrect`; `ClosedStaysClosed` from `Quiet` (a run that is closed has
  ended its thread, and its pool is over); `StagesAreOrdered` and `RunsAgree` from `Told`,
  which says for each place the thread can be at which rows are there and in what state,
  as long as no write was lost. The module extends `RunViewer`, and proves of it
  `EndedRunsShownWhole`: what a chain has read of a run that had ended is the record
  (`Whole`). The row of the run is read first and an ended run is not written again
  (`ClosedForGood`, step by step), so the two later queries read the final rows; and a
  viewer's steps write nothing.

* **CredentialStore_proofs.** The invariant says that the secret a row names was written with
  every field its type needs (`RowsSaved`), what a handler remembers is true of the stores
  (`Sound`), and the secret of a save is its own until a row names it (`Own`): without `Own`
  another save could delete it as its old one. From it `TypeCorrect` and `LoadsAreComplete`,
  and `OnlyDeletesStrand` step by step: a save only drops a secret the row has left.
  `NamesKeepOneSecret` and `EnginesKeepCredential` from `AgreeInv`: of a name on which no two
  requests met and no fault divided the stores, it says step by step what the vault holds
  and what the row names while its one request is under way (`Calm`): the old secret and
  the new one between the two writes, one of them otherwise; and that a deletion past its
  check has no engine to take the credential from.
* **Resolvers_proofs.** Three invariants that share no variable but `raised`. Pool: `OneHolderEach`
  with, for each statement, that it holds a connection exactly in the steps that use one and
  what its effects may be (`StatementSound`). Tokens: `NoCallbackMissed` is inductive once a
  canceller names a token (it speaks of a token's own event only). Calls: `CallSound` bounds the time left in each step, and says that
  a late request is past the only step that could send another. Theorems
  `ConnectionsAccounted`, `EffectsAccounted`, `CallbacksRun`, `CallsKeepTime`, `CallsStop`.
* **Compilation_proofs.** `DefaultFound` from `DefaultLoaded`; `ScopesReadable` from
  `RowWasReadable` (a row whose grants now pass was readable at some moment since it was read)
  and `GrantsOfShared` (a user is granted only what is shared at that moment: the order of
  the statements of `publish` is what makes it true); `PlansFit` from `CacheFits` (what lies
  under a key was checked against it).
  Of `GraphContracts`, for any graphs and any rows: `RunInv` says that the checks that have
  passed hold and that what ran has all it waits for. `MailsTellData`: what a result was told
  contains what its inputs were told (`ToldInv`), so a silent text makes everything on its
  chains of inputs silent (`SilentAncestors`), and the checks of an ASK and of a mail put a
  query on one. `AcceptedRun`: the rows of a query, a calculation or a text have the fields of its
  contract, and those of a query or calculation have values (`RowsInv`); of pages, which may
  lack any field, nothing is claimed, and a task that reads one may fail of it (`MayFailOf`). That a calculation delivers such rows is the
  long part: `ExpressionSolved` and `OutputsSolved` show that the recursive functions exist and
  satisfy their equations (by induction on positions with a set, `UpTo`, since an operator
  cannot be passed), `EvalType` and `OutputsType` that a value, `None` or `Raised` comes out. A
  set with a total order is listed by `Sorted` once and in that order (`SortedLists`), which
  gives `Align` its keys and `SelectRows` its order. `KeepsBest` and `JoinCalculated` add
  `CalculatedInv`: a calculation still is what its inputs give, because those were there before
  it (`SameData`). Then what is better than a kept row comes before it (`BestKept`), and the
  keys of the domain correspond one to one to the combinations of rows (`KeyCombines`,
  `CombinationKeyed`, `AsManyRows`).
* **JoinTrees_proofs.** `TreesConnect` and `RefusalsRight` from the invariant of the search: what
  was visited and has left the queue has all its neighbours visited (`SearchInv`), paths lead
  from the tree along relations (`PathsLead`). `JoinsRight` from `Placed` (what is joined, each
  once, after what it is joined to) and `InOrder` (a single query orients the relations in the
  order of the tree, so it cannot get stuck). The order of the queue is arbitrary throughout.
  `FragmentsWhole` is an argument by counting. A relation between sources that is not
  pending has been joined (`FragInv`), and each is matched with one that brings in its
  target source (`CrossFirst`): an injective map of a finite set into itself, so onto. Each
  fragment has one entity more than relations (`FragmentSize`); where these lead to its
  root, their targets are all its other entities (`LocalTargets`).

The proofs rest on the named assumptions of each module (`ConstantsOK`, `StoreAssumption`,
`PoolAssumption` and so on; TLC checks them for every instance) and on nothing else, except for what a theorem itself
assumes (`SingleProcess...`, `DefaultComesBack`). In `AggregatePlans`, `ConstantsOK` says that
tables are finite and that `Null` is no number. In `GraphContracts`, `GraphsParsed` says what the
types of the nodes let through (`ParsedSpec`): known operators, operands before their node,
rows and `take` in range.

Only model-checked: the liveness properties `RunsEnd`,
`ExecutionEnds`, `RunCloses`, `FollowedToEnd`, `CallsEnd`: liveness and `ENABLED` are out of
the prover's reach. Every other invariant, action property and refinement of the runs is a
theorem. Three of them hold of one process, or without some faults, and their theorems say
so: `RunKeepsEngine`, `KeepsOneReady` and `ImplementsLeases` fail with two processes
(`compute_registry.py:395`), `DefaultRestored` with a rejected statement. The runs
`registry_single` and `registry_pair` have the same limits.

Only proved, and checked by no run of its own: the type invariants, `RunKeepsEngine`,
`DependenciesWaited`, `FailurePropagates`, `EngineOutlivesThreads`, `CycleGuardUnused` and
`StagesInOrder`.

## 6. Mutations

Definitions that begin with `Mutation:` in their comment are faults a programmer could
have made (a guard forgotten, a wait left out, a reset missed). Each property of a
passing run is violated when the mutation that `PROJECT.json` names takes the place of the
definition it mutates, so none of them holds by the shape of its model alone.

## 7. What is not modelled, and why

* SQL rendering (`*_query_renderer.py`), prompts, markdown and layout: translations of text
  without state.
* What the language model, the search service and the source systems answer: outside.
* In `AggregatePlans`: SELECT, the functions `AVG`, `VARIANCE`, `STDDEV`, `PERCENTILE` and
  `COUNT_DISTINCT` (none of which is pre-aggregated), ranking, filters and expressions of metrics, time buckets,
  measures of the dimension, joins of more than two entities. The two renderers are one
  meaning of a query, with DuckDB's as the source: what SQL Server's does differently
  (window functions for a median) has the same meaning.
* Dependencies that structured tasks declare, and those of a capability on tasks later in the list,
  are not in the plan (`optimizer.py:130`); `PlanExecution` and `GraphContracts` have that as it
  is, and their properties are about what is listed in order where it matters.
* What a second process does to `KeepsOneReady`: two processes that delete the last two
  engines at once leave none, so the property is one of a single process.
* In `JoinTrees`, `_local` drops the namespace of an entity, so that two entities of the same
  name from two ontologies meet; entities are told apart here. Every entity has a table: one on the
  path that has no table binding is refused by the binder (`binder.py:89`) after the search.
* In `GraphContracts`: the types of measures, text and time as values of expressions, `ROUND`
  with digits left of the point, the fields of pages besides two of each kind, and what the
  language model is told of a graph that was refused.
* In `Compilation`: the merging of ontologies (`merged.py`), prompts, and the age of entries
  (every use restarts the hour, so an entry in use never has to be dropped).
* The deadline of a cancellation token and the wait for one; two threads that cancel at once
  run each callback twice, which the model has and no property forbids; a callback that
  registers another waits for the lock of its own thread (`cancellation_token.py:145`).
* The service container: two threads may build a singleton twice (`services.py:103`).
* The C# writer of ontologies and of the model catalogue: they change the rows that
  `OntologyRepository` and `ResolverRegistry` read, in other groupings of statements
  (`ChangeRow` is any change of the rows). An ontology is edited by its owner, one edit at a
  time; two backends, or a backend and `OntologiesController.cs:165`, may overlap. Rows of an
  unknown type are skipped at a load (`registry.py:74`) and not in the model.
* Request handling, authentication, the API log: sequential wrappers of one request.
* Users, resolver administration: one statement on one table each.
* The pages and editors of the client, except for the panel that polls.
* Two processes that delete and create the same engine name: in the model, but no
  document says what should come of it, so no property does either.

## 8. Plan

Done, in this order: `ComputeRegistry` with `EngineLeases`; `PlanExecution` with
`Dataflow`; `AskRun`; `RunViewer` over `AskRun`; `AggregatePlans`; `CredentialStore`;
`Resolvers` over `SqlPool`, `CancellationToken` and `WebIqFetch`; `Compilation` over
`ResolverRegistry` and `OntologyRepository`; `JoinTrees`; `GraphContracts`; the proofs of all
safety properties of the runs.

What would add most from here:

1. `AggregatePlans`: ranking (the order and limit of a fused task), metric filters, and the
   data of a join over the trees of `JoinTrees`.
2. `OntologyRepository` with its second writer (`OntologiesController.cs:187`) and the default
   of the model catalogue (`LlmsController.cs:121`).
3. Deadlines of tokens, and the service container under first use by several threads.
4. Proofs about what these add, in the first place that ranking a fused task is ranking it
   alone, for which `SortedLists` and the sums of `AggregatePlans_proofs` are the start.
