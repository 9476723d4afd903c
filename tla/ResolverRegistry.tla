-------------------------- MODULE ResolverRegistry --------------------------
(***************************************************************************)
(* The in-memory registry of resolvers and language models                 *)
(* (src/backend/app/nexus/registry.py) and the database rows it is loaded  *)
(* from.  A reload empties both tables and the default, then reads the     *)
(* resolvers and builds them one at a time, then the models: building one  *)
(* reads its credential from the database, and asks that run in other      *)
(* threads look names up in between.  A query or a constructor that raises *)
(* ends the load where it is.                                              *)
(*                                                                         *)
(* Bounds: MaxChanges row changes, MaxReloads reloads.                     *)
(***************************************************************************)
EXTENDS Naturals

CONSTANTS Resolvers,   \* names a row of nexus.resolvers may have, and
          Models,      \* one of nexus.llms, of a type the code knows:
                       \* load skips all others
          Preferred,   \* the models whose row says is_default
          NoModel,     \* no default model
          MaxChanges,
          MaxReloads

ASSUME ModelsNamed == /\ Preferred \subseteq Models
                      /\ NoModel \notin Models

VARIABLES active,     \* the names that are active in the database
          resolvers,  \* the names in _resolvers
          models,     \* the names in _llms
          default,    \* _default_llm
          loader,     \* the reload under way
          changes,    \* row changes so far
          reloads     \* reloads so far

registryVars == <<active, resolvers, models, default, loader, changes, reloads>>

Loader ==
       [at: {"idle"}, todo: {{}}, complete: BOOLEAN]
  \cup [at: {"cleared"}, todo: {{}}, complete: {FALSE}]
  \cup [at: {"resolvers"}, todo: SUBSET Resolvers, complete: {FALSE}]
  \cup [at: {"models"}, todo: SUBSET Models, complete: {FALSE}]

RegistryTypeOK ==
  /\ active \in [resolvers: SUBSET Resolvers, models: SUBSET Models]
  /\ resolvers \subseteq Resolvers
  /\ models \subseteq Models
  /\ default \in Models \cup {NoModel}
  /\ loader \in Loader
  /\ changes \in Nat
  /\ reloads \in Nat

(* The process starts with everything loaded. *)
RegistryInit ==
  /\ active = [resolvers |-> Resolvers, models |-> Models]
  /\ resolvers = Resolvers
  /\ models = Models
  /\ default \in IF Preferred = {} THEN Models ELSE Preferred
  /\ loader = [at |-> "idle", todo |-> {}, complete |-> TRUE]
  /\ changes = 0
  /\ reloads = 0

(* The model an ask that names n (or none) is given; NoModel for None. *)
Model(n) ==
  IF n = NoModel THEN default \in models /\ default # NoModel
                 ELSE n \in models

(* A row is added, deleted or switched on or off by the C# server. *)
ChangeRow ==
  /\ changes < MaxChanges
  /\ changes' = changes + 1
  /\ \/ \E r \in Resolvers :
          active' = [active EXCEPT !.resolvers = (@ \ {r}) \cup ({r} \ @)]
     \/ \E m \in Models :
          active' = [active EXCEPT !.models = (@ \ {m}) \cup ({m} \ @)]
  /\ UNCHANGED <<resolvers, models, default, loader, reloads>>

\* Mutation: the reload leaves the default as it is.
ReloadKeepsDefault ==
  /\ loader.at = "idle"
  /\ reloads < MaxReloads
  /\ reloads' = reloads + 1
  /\ resolvers' = {}
  /\ models' = {}
  /\ loader' = [at |-> "cleared", todo |-> {}, complete |-> FALSE]
  /\ UNCHANGED <<active, default, changes>>

(* reload: the resolvers are closed and both tables emptied. *)
ReloadBegin ==
  /\ loader.at = "idle"
  /\ reloads < MaxReloads
  /\ reloads' = reloads + 1
  /\ resolvers' = {}
  /\ models' = {}
  /\ default' = NoModel
  /\ loader' = [at |-> "cleared", todo |-> {}, complete |-> FALSE]
  /\ UNCHANGED <<active, changes>>

ReadResolvers ==
  /\ loader.at = "cleared"
  /\ loader' = [loader EXCEPT !.at = "resolvers", !.todo = active.resolvers]
  /\ UNCHANGED <<active, resolvers, models, default, changes, reloads>>

LoadResolver ==
  /\ loader.at = "resolvers"
  /\ \E r \in loader.todo :
       /\ resolvers' = resolvers \cup {r}
       /\ loader' = [loader EXCEPT !.todo = @ \ {r}]
  /\ UNCHANGED <<active, models, default, changes, reloads>>

ReadModels ==
  /\ loader.at = "resolvers"
  /\ loader.todo = {}
  /\ loader' = [loader EXCEPT !.at = "models", !.todo = active.models]
  /\ UNCHANGED <<active, resolvers, models, default, changes, reloads>>

(* The last row that says is_default names the default. *)
LoadModel ==
  /\ loader.at = "models"
  /\ \E m \in loader.todo :
       /\ models' = models \cup {m}
       /\ default' = IF m \in Preferred THEN m ELSE default
       /\ loader' = [loader EXCEPT !.todo = @ \ {m}]
  /\ UNCHANGED <<active, resolvers, changes, reloads>>

(* Without a preferred row the first model is the default. *)
LoadEnd ==
  /\ loader.at = "models"
  /\ loader.todo = {}
  /\ IF default = NoModel /\ models # {} THEN default' \in models
                                         ELSE UNCHANGED default
  /\ loader' = [at |-> "idle", todo |-> {}, complete |-> TRUE]
  /\ UNCHANGED <<active, resolvers, models, changes, reloads>>

(* A query fails, or a constructor raises (no credential to build from). *)
LoadRaises ==
  /\ loader.at # "idle"
  /\ loader' = [loader EXCEPT !.at = "idle", !.todo = {}]
  /\ UNCHANGED <<active, resolvers, models, default, changes, reloads>>

Load == \/ ReadResolvers \/ LoadResolver \/ ReadModels \/ LoadModel
        \/ LoadEnd \/ LoadRaises

RegistryNext == ChangeRow \/ ReloadBegin \/ Load

(* Once a load has gone through, an ask that names no model gets one if    *)
(* any is loaded (registry.llm with _default_llm, read by every ask).      *)
DefaultAnswers ==
  loader.at = "idle" /\ loader.complete /\ models # {} => Model(NoModel)
=============================================================================
