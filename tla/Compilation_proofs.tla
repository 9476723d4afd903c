------------------------- MODULE Compilation_proofs -------------------------
(* What the compilation of an ask promises: Compilation for every number of *)
(* asks, ontologies, users, resolvers and models and for every bound, and   *)
(* GraphContracts for every task graph a language model may write and for   *)
(* all the rows its queries may give.                                       *)
EXTENDS Compilation, GraphContracts, FiniteSetTheorems, TLAPS

(* The default is loaded, or there is none; after a complete load there is *)
(* one if there can be.                                                    *)
DefaultLoaded ==
  /\ default \in models \cup {NoModel}
  /\ loader.at = "idle" /\ loader.complete /\ models # {} => default # NoModel

RegistryInv == RegistryTypeOK /\ DefaultLoaded

(* Users are only granted what is shared while they are. *)
GrantsOfShared ==
  \/ edit.step \in {"none", "drop"}
  \/ edit.step = "clear" /\ edit.users = {}
  \/ onto[edit.id].visibility = "shared"

RepositoryInv == RepositoryTypeOK /\ GrantsOfShared

LEMMA RegistryStep ==
  ASSUME RegistryInv, [RegistryNext]_registryVars
  PROVE  RegistryInv'
<1> USE ModelsNamed DEF RegistryInv, RegistryTypeOK, DefaultLoaded
<1>1. CASE ChangeRow
  BY <1>1 DEF ChangeRow
<1>2. CASE ReloadBegin
  BY <1>2 DEF ReloadBegin, Loader
<1>3. CASE ReadResolvers
  <2>1. loader' \in Loader
    BY <1>3 DEF ReadResolvers, Loader
  <2>2. active' = active /\ resolvers' = resolvers /\ models' = models
        /\ default' = default /\ changes' = changes /\ reloads' = reloads
        /\ loader'.at = "resolvers" /\ loader'.complete = loader.complete
        /\ loader.at = "cleared"
    BY <1>3 DEF ReadResolvers
  <2> QED
    BY <2>1, <2>2
<1>4. CASE LoadResolver
  BY <1>4 DEF LoadResolver, Loader
<1>5. CASE ReadModels
  BY <1>5 DEF ReadModels, Loader
<1>6. CASE LoadModel
  <2>1. PICK m \in loader.todo :
          /\ models' = models \cup {m}
          /\ default' = IF m \in Preferred THEN m ELSE default
          /\ loader' = [loader EXCEPT !.todo = @ \ {m}]
    BY <1>6 DEF LoadModel
  <2>2. loader' \in Loader
    BY <1>6, <2>1 DEF LoadModel, Loader
  <2>3. active' = active /\ resolvers' = resolvers /\ changes' = changes
        /\ reloads' = reloads /\ loader.at = "models"
        /\ loader'.at = "models" /\ loader'.complete = loader.complete
    BY <1>6, <2>1 DEF LoadModel
  <2>4. m \in Models /\ m # NoModel
    BY <1>6, <2>1 DEF LoadModel, Loader
  <2> QED
    BY <2>1, <2>2, <2>3, <2>4
<1>7. CASE LoadEnd
  BY <1>7 DEF LoadEnd, Loader
<1>8. CASE LoadRaises
  BY <1>8 DEF LoadRaises, Loader
<1>9. CASE UNCHANGED registryVars
  BY <1>9 DEF registryVars
<1> QED
  BY <1>1, <1>2, <1>3, <1>4, <1>5, <1>6, <1>7, <1>8, <1>9
  DEF RegistryNext, Load

LEMMA RepositoryStep ==
  ASSUME RepositoryInv, [Edit]_repositoryVars
  PROVE  RepositoryInv'
<1> USE OntologiesNamed
    DEF RepositoryInv, RepositoryTypeOK, GrantsOfShared, NoEdit, Absent, Row,
        Visibility
<1>1. CASE Create
  BY <1>1 DEF Create, StartEdit
<1>2. CASE Save
  BY <1>2 DEF Save, StartEdit, Owned
<1>3. CASE Publish
  BY <1>3 DEF Publish, StartEdit, Owned
<1>4. CASE ClearGrants
  BY <1>4 DEF ClearGrants, GrantsLeft
<1>5. CASE GrantNext
  BY <1>5 DEF GrantNext, GrantsLeft
<1>6. CASE Delete
  BY <1>6 DEF Delete, StartEdit, Owned
<1>7. CASE DropRow
  BY <1>7 DEF DropRow
<1>8. CASE EditFails
  BY <1>8 DEF EditFails
<1>9. CASE UNCHANGED repositoryVars
  BY <1>9 DEF repositoryVars
<1> QED
  BY <1>1, <1>2, <1>3, <1>4, <1>5, <1>6, <1>7, <1>8, <1>9 DEF Edit

(* A step of the system is a step of its parts. *)
LEMMA StepParts ==
  ASSUME [Next]_vars
  PROVE  [RegistryNext]_registryVars /\ [Edit]_repositoryVars
BY DEF Next, Step, vars

-----------------------------------------------------------------------------
(* An ask whose attempts are not used up has some left when it asks. *)
FreshAttempts ==
  \A a \in Asks : at[a] \notin {"compile", "unplanned"} /\ at[a] \notin Ended
                  => attempts[a] = 0

LEMMA ControlStep ==
  ASSUME NEW a \in Asks, TypeOK, FreshAttempts, AskStep(a)
  PROVE  /\ at' \in [Asks -> Ended \cup {"start", "choose", "route", "get",
                        "grants", "operators", "compiler", "compile"}]
         /\ attempts' \in [Asks -> 0 .. MaxAttempts]
         /\ \A b \in Asks : at'[b] = "compile" => attempts'[b] < MaxAttempts
         /\ FreshAttempts'
<1> USE AttemptsPositive DEF TypeOK, AskTypeOK, FreshAttempts, Ended, Goto
<1>1. CASE Begin(a)
  BY <1>1 DEF Begin
<1>2. CASE Choose(a)
  BY <1>2 DEF Choose, Fallback, Route
<1>3. CASE RouteAnswer(a)
  BY <1>3 DEF RouteAnswer, Fallback, Route
<1>4. CASE ReadRow(a)
  BY <1>4 DEF ReadRow
<1>5. CASE ReadGrants(a)
  BY <1>5 DEF ReadGrants
<1>6. CASE Validate(a)
  BY <1>6 DEF Validate
<1>7. CASE Assemble(a)
  BY <1>7 DEF Assemble
<1>8. CASE Compile(a)
  BY <1>8 DEF Compile, Plan
<1>9. CASE Accept(a)
  BY <1>9 DEF Accept, Plan
<1>10. CASE Reject(a)
  BY <1>10 DEF Reject
<1>11. CASE Refuse(a)
  BY <1>11 DEF Refuse
<1> QED
  BY <1>1, <1>2, <1>3, <1>4, <1>5, <1>6, <1>7, <1>8, <1>9, <1>10, <1>11
  DEF AskStep

(* The types of what an ask works with. *)
DataOK ==
  /\ candidates \in [Asks -> SUBSET Ontologies]
  /\ picked \in [Asks -> SUBSET Ontologies]
  /\ row \in [Asks -> [id: Ontologies, row: Row] \cup {NoRow}]
  /\ \A a \in Asks : at[a] = "grants" => row[a] # NoRow
  /\ scope \in [Asks -> SUBSET Holding]
  /\ operators \in [Asks -> SUBSET Operators]
  /\ sqg \in [Asks -> Sqg]
  /\ \A e \in routes : e.picked \subseteq Ontologies
  /\ \A e \in sqgs : e.sqg \in Sqg

LEMMA RouteStep ==
  ASSUME NEW a \in Asks, DataOK, NEW ids \in SUBSET Ontologies,
         Route(a, ids)
  PROVE  /\ candidates' \in [Asks -> SUBSET Ontologies]
         /\ picked' \in [Asks -> SUBSET Ontologies]
         /\ \A e \in routes' : e.picked \subseteq Ontologies
<1>1. \A e \in routes' : e \in routes \/ e.picked = ids
  BY DEF Route, PutRoute
<1> QED
  BY <1>1 DEF Route, DataOK

LEMMA DataStep ==
  ASSUME NEW a \in Asks, TypeOK, AskStep(a)
  PROVE  DataOK'
<1>0. DataOK /\ at \in [Asks -> Ended \cup {"start", "choose", "route", "get",
        "grants", "operators", "compiler", "compile"}]
  BY DEF TypeOK, AskTypeOK, DataOK
<1> USE <1>0 DEF Goto
<1>1. CASE Begin(a)
  BY <1>1 DEF Begin, Visible, DataOK
<1>2. CASE Choose(a)
  <2>1. UNCHANGED <<row, scope, operators, sqg, sqgs>> /\ Goto(a, at'[a])
        /\ at'[a] # "grants"
    BY <1>2 DEF Choose, Fallback, Route
  <2>2. /\ candidates' \in [Asks -> SUBSET Ontologies]
        /\ picked' \in [Asks -> SUBSET Ontologies]
        /\ \A e \in routes' : e.picked \subseteq Ontologies
    <3>1. CASE Fallback(a)
      <4>1. PICK o \in candidates[a] : Route(a, {o})
        BY <3>1 DEF Fallback
      <4> QED
        BY <4>1, RouteStep DEF DataOK
    <3>2. CASE \E e \in RouteHits(a) :
                 /\ picked' = [picked EXCEPT ![a] = e.picked]
                 /\ candidates' = [candidates EXCEPT ![a] = {}]
                 /\ UNCHANGED routes
      BY <3>2 DEF DataOK, RouteHits
    <3>3. CASE routes' \subseteq routes /\ UNCHANGED <<candidates, picked>>
      BY <3>3 DEF DataOK
    <3> QED
      BY <1>2, <3>1, <3>2, <3>3 DEF Choose
  <2> QED
    BY <2>1, <2>2 DEF DataOK
<1>3. CASE RouteAnswer(a)
  <2>1. UNCHANGED <<row, scope, operators, sqg, sqgs>> /\ Goto(a, "get")
    BY <1>3 DEF RouteAnswer, Fallback, Route
  <2>2. PICK ids \in SUBSET candidates[a] : Route(a, ids)
    BY <1>3 DEF RouteAnswer, Fallback
  <2>3. /\ candidates' \in [Asks -> SUBSET Ontologies]
        /\ picked' \in [Asks -> SUBSET Ontologies]
        /\ \A e \in routes' : e.picked \subseteq Ontologies
    <3>1. ids \in SUBSET Ontologies
      BY DEF DataOK
    <3> QED
      BY <2>2, <3>1, RouteStep
  <2> QED
    BY <2>1, <2>3 DEF DataOK
<1>4. CASE ReadRow(a)
  BY <1>4, OntologiesNamed DEF ReadRow, DataOK, TypeOK, RepositoryTypeOK, NoRow
<1>5. CASE ReadGrants(a)
  <2>1. row[a] \in [id: Ontologies, row: Row]
    BY <1>5 DEF ReadGrants, DataOK
  <2>2. Held(a) \in Holding
    BY <2>1 DEF Held, Holding, Row
  <2> QED
    BY <1>5, <2>2 DEF ReadGrants, DataOK
<1>6. CASE Validate(a)
  BY <1>6 DEF Validate, DataOK
<1>7. CASE Assemble(a)
  BY <1>7 DEF Assemble, DataOK, Operators, TypeOK, RegistryTypeOK
<1>8. CASE Compile(a)
  BY <1>8 DEF Compile, Plan, DataOK
<1>9. CASE Accept(a)
  <2>1. PICK g : /\ g = [operators |-> operators[a],
                             concepts |-> Fingerprint(scope[a])]
                 /\ Plan(a, g)
                 /\ sqgs' = {e \in sqgs : e.key # CacheKey(a)}
                            \cup {[key |-> CacheKey(a), sqg |-> g]}
    BY <1>9 DEF Accept
  <2>2. g \in Sqg
    BY <2>1 DEF Sqg, Fingerprint, DataOK
  <2> QED
    BY <1>9, <2>1, <2>2 DEF Accept, Plan, DataOK
<1>10. CASE Reject(a)
  BY <1>10 DEF Reject, DataOK
<1>11. CASE Refuse(a)
  BY <1>11 DEF Refuse, DataOK
<1> QED
  BY <1>1, <1>2, <1>3, <1>4, <1>5, <1>6, <1>7, <1>8, <1>9, <1>10, <1>11
  DEF AskStep

LEMMA SeenStep ==
  ASSUME TypeOK, DataOK', Observe
  PROVE  seen' \in [Asks -> SUBSET Ontologies]
<1> SUFFICES ASSUME NEW a \in Asks, at'[a] = "grants"
             PROVE  row'[a].id \in Ontologies
  BY DEF Observe, TypeOK, AskTypeOK
<1> QED
  BY DEF DataOK

TypeInv == TypeOK /\ DefaultLoaded /\ GrantsOfShared /\ FreshAttempts

LEMMA InitTypes == Init => TypeInv
<1> SUFFICES ASSUME Init PROVE TypeInv
  OBVIOUS
<1>1. RegistryTypeOK /\ DefaultLoaded
  BY ModelsNamed
  DEF Init, RegistryInit, RegistryTypeOK, Loader, DefaultLoaded
<1>2. RepositoryTypeOK /\ GrantsOfShared
  BY InitialRows DEF Init, RepositoryTypeOK, GrantsOfShared, NoEdit
<1>3. AskTypeOK /\ FreshAttempts
  BY AttemptsPositive
  DEF Init, AskTypeOK, FreshAttempts, NoRow, NoSqg, Sqg, Ended
<1> QED
  BY <1>1, <1>2, <1>3 DEF TypeInv, TypeOK

LEMMA NextTypes == TypeInv /\ [Next]_vars => TypeInv'
<1> SUFFICES ASSUME TypeInv, [Next]_vars PROVE TypeInv'
  OBVIOUS
<1>1. RegistryInv' /\ RepositoryInv'
  BY StepParts, RegistryStep, RepositoryStep
  DEF TypeInv, TypeOK, RegistryInv, RepositoryInv
<1>2. CASE Next
  <2>1. CASE \E a \in Asks : AskStep(a)
    <3>1. PICK a \in Asks : AskStep(a)
      BY <2>1
    <3>2. DataOK'
      BY <3>1, DataStep DEF TypeInv
    <3>3. seen' \in [Asks -> SUBSET Ontologies]
      BY <1>2, <3>2, SeenStep DEF Next, TypeInv
    <3>4. FreshAttempts' /\ AskTypeOK'
      BY <3>1, <3>2, <3>3, ControlStep DEF TypeInv, AskTypeOK, DataOK
    <3> QED
      BY <1>1, <3>4 DEF TypeInv, TypeOK, RegistryInv, RepositoryInv
  <2>2. CASE UNCHANGED <<askVars, routes, sqgs>>
    <3>1. DataOK'
      BY <2>2 DEF TypeInv, TypeOK, AskTypeOK, DataOK, askVars
    <3>2. seen' \in [Asks -> SUBSET Ontologies]
      BY <1>2, <3>1, SeenStep DEF Next, TypeInv
    <3>3. FreshAttempts' /\ AskTypeOK'
      BY <2>2, <3>2 DEF TypeInv, TypeOK, AskTypeOK, FreshAttempts, askVars
    <3> QED
      BY <1>1, <3>3 DEF TypeInv, TypeOK, RegistryInv, RepositoryInv
  <2> QED
    BY <1>2, <2>1, <2>2 DEF Next, Step
<1>3. CASE UNCHANGED vars
  BY <1>1, <1>3 DEF vars, askVars, TypeInv, TypeOK, AskTypeOK, FreshAttempts,
                    RegistryInv, RepositoryInv
<1> QED
  BY <1>2, <1>3

LEMMA TypesHold == Spec => []TypeInv
BY InitTypes, NextTypes, PTL DEF Spec

(* The variables keep their types: what an ask holds are rows it read, and  *)
(* an ask that is still compiling has attempts left.                        *)
THEOREM TypeCorrect == Spec => []TypeOK
<1>1. TypeInv => TypeOK
  BY DEF TypeInv
<1> QED
  BY <1>1, TypesHold, PTL

(* An ask that names no model is given one after any complete load, though  *)
(* rows change and loads break off in between (ResolverRegistry.load).      *)
THEOREM DefaultFound == Spec => []DefaultAnswers
<1>1. TypeInv => DefaultAnswers
  BY DEF TypeInv, DefaultLoaded, DefaultAnswers, Model
<1> QED
  BY <1>1, TypesHold, PTL

-----------------------------------------------------------------------------
(* A row whose grants are still to be read is passed only if its ontology *)
(* was readable at some moment since.                                      *)
RowWasReadable ==
  \A a \in Asks :
    at[a] = "grants" /\ CanRead(row[a].row, grants[row[a].id], User[a])
      => row[a].id \in seen[a]

(* A user is only granted an ontology at a moment when that makes it *)
(* readable.                                                          *)
LEMMA GrantsAreReadable ==
  ASSUME RepositoryTypeOK, GrantsOfShared, [Edit]_repositoryVars,
         NEW o \in Ontologies, NEW u \in Users, u \in grants'[o], u \notin grants[o]
  PROVE  onto'[o].visibility = "shared"
<1>1. ~UNCHANGED grants
  OBVIOUS
<1>2. CASE GrantNext
  BY <1>2 DEF GrantNext, GrantsOfShared, RepositoryTypeOK, NoEdit
<1>3. CASE ClearGrants
  BY <1>3 DEF ClearGrants, RepositoryTypeOK
<1>4. CASE Delete
  BY <1>4 DEF Delete, Owned, RepositoryTypeOK
<1> QED
  BY <1>1, <1>2, <1>3, <1>4
  DEF Edit, Create, Save, Publish, DropRow, EditFails, repositoryVars

LEMMA ReadableStep ==
  ASSUME TypeInv, RowWasReadable, ScopeWasReadable, [Next]_vars
  PROVE  RowWasReadable' /\ ScopeWasReadable'
<1>0. TypeInv'
  BY NextTypes
<1>1. CASE UNCHANGED vars
  BY <1>1 DEF vars, askVars, repositoryVars, RowWasReadable, ScopeWasReadable,
              CanRead
<1>2. CASE Next
  <2>1. \A a \in Asks : seen[a] \subseteq seen'[a]
    BY <1>2 DEF Next, Observe
  <2>2. ASSUME NEW a \in Asks, at'[a] = "grants", row'[a] = row[a],
               at[a] = "grants",
               CanRead(row'[a].row, grants'[row'[a].id], User[a])
        PROVE  row'[a].id \in seen'[a]
    <3> DEFINE o == row[a].id
               u == User[a]
    <3>1. o \in Ontologies /\ u \in Users
      BY <2>2, AsksNamed DEF TypeInv, TypeOK, AskTypeOK
    <3>2. CASE CanRead(row[a].row, grants[o], u)
      BY <2>1, <2>2, <3>2 DEF RowWasReadable
    <3>3. CASE ~CanRead(row[a].row, grants[o], u)
      <4>1. u \in grants'[o] /\ u \notin grants[o]
        BY <2>2, <3>3 DEF CanRead
      <4>2. onto'[o].visibility = "shared"
        BY <3>1, <4>1, StepParts, GrantsAreReadable DEF TypeInv, TypeOK
      <4>3. Readable(row[a].id, User[a])'
        BY <2>2, <4>1, <4>2 DEF Readable, CanRead
      <4> QED
        BY <1>2, <2>2, <4>3 DEF Next, Observe
    <3> QED
      BY <3>2, <3>3
  <2>3. CASE UNCHANGED <<askVars, routes, sqgs>>
    <3>1. RowWasReadable'
      BY <2>2, <2>3 DEF RowWasReadable, askVars
    <3>2. ScopeWasReadable'
      BY <2>1, <2>3 DEF ScopeWasReadable, askVars
    <3> QED
      BY <3>1, <3>2
  <2>4. ASSUME NEW a \in Asks, AskStep(a), UNCHANGED repositoryVars
        PROVE  RowWasReadable' /\ ScopeWasReadable'
    <3> USE <2>4
    <3>1. AskTypeOK
      BY DEF TypeInv, TypeOK
    <3>2. \A b \in Asks : b # a => at'[b] = at[b] /\ row'[b] = row[b]
                                   /\ scope'[b] = scope[b]
      BY <3>1 DEF AskTypeOK, AskStep, Begin, Choose, RouteAnswer, ReadRow,
                  ReadGrants, Validate, Assemble, Compile, Accept, Reject,
                  Refuse, Fallback, Route, Plan, Goto
    <3>3. CASE ReadRow(a)
      <4>1. scope' = scope
        BY <3>3 DEF ReadRow
      <4>2. CASE at'[a] = "grants"
        <5>1. row'[a].row = onto[row'[a].id]
          BY <3>1, <3>3, <4>2 DEF ReadRow, AskTypeOK
        <5>2. CanRead(row'[a].row, grants'[row'[a].id], User[a])
                => Readable(row[a].id, User[a])'
          BY <5>1 DEF Readable, CanRead, repositoryVars
        <5>3. CanRead(row'[a].row, grants'[row'[a].id], User[a])
                => row'[a].id \in seen'[a]
          BY <1>2, <4>2, <5>2 DEF Next, Observe
        <5> QED
          BY <2>1, <2>2, <3>2, <4>1, <5>3 DEF RowWasReadable, ScopeWasReadable
      <4>3. CASE at'[a] # "grants"
        BY <2>1, <2>2, <3>2, <4>1, <4>3 DEF RowWasReadable, ScopeWasReadable
      <4> QED
        BY <4>2, <4>3
    <3>4. CASE ReadGrants(a)
      <4>1. at'[a] = "get" /\ at[a] = "grants"
        BY <3>1, <3>4 DEF ReadGrants, Goto, AskTypeOK
      <4>2. \A h \in scope'[a] : h.id \in seen[a]
        <5>1. CASE CanRead(row[a].row, grants[row[a].id], User[a])
          <6>1. row[a].id \in seen[a]
            BY <4>1, <5>1 DEF RowWasReadable
          <6>2. \A h \in scope'[a] : h \in scope[a] \/ h.id = row[a].id
            BY <3>1, <3>4, <5>1 DEF ReadGrants, Held, AskTypeOK
          <6> QED
            BY <6>1, <6>2 DEF ScopeWasReadable
        <5>2. CASE ~CanRead(row[a].row, grants[row[a].id], User[a])
          BY <3>4, <5>2 DEF ReadGrants, ScopeWasReadable
        <5> QED
          BY <5>1, <5>2
      <4> QED
        BY <2>1, <2>2, <3>2, <4>1, <4>2 DEF RowWasReadable, ScopeWasReadable
    <3>5. CASE ~ReadRow(a) /\ ~ReadGrants(a)
      <4>1. at'[a] # "grants" /\ scope'[a] \subseteq scope[a]
        BY <3>1, <3>5
        DEF AskTypeOK, AskStep, Begin, Choose, RouteAnswer, Validate, Assemble,
            Compile, Accept, Reject, Refuse, Fallback, Route, Plan, Goto
      <4> QED
        BY <2>1, <2>2, <3>2, <4>1 DEF RowWasReadable, ScopeWasReadable
    <3> QED
      BY <3>3, <3>4, <3>5
  <2> QED
    BY <1>2, <2>3, <2>4 DEF Next, Step
<1> QED
  BY <1>1, <1>2

(* An ask works only on ontologies its user could read at one moment after *)
(* it began to look them up, in every interleaving with the owner's edits. *)
THEOREM ScopesReadable == Spec => []ScopeWasReadable
<1>1. Init => RowWasReadable /\ ScopeWasReadable
  BY DEF Init, RowWasReadable, ScopeWasReadable
<1>2. TypeInv /\ (RowWasReadable /\ ScopeWasReadable) /\ [Next]_vars
        => (RowWasReadable /\ ScopeWasReadable)'
  BY ReadableStep
<1> QED
  BY <1>1, <1>2, TypesHold, PTL DEF Spec

-----------------------------------------------------------------------------
(* Under every key lies a graph that was checked against it. *)
CacheFits ==
  \A e \in sqgs : /\ e.sqg.operators \subseteq e.key.operators
                  /\ e.sqg.concepts = e.key.concepts

LEMMA PlansStep ==
  ASSUME TypeInv, CacheFits, PlansWithinScope, [Next]_vars
  PROVE  CacheFits' /\ PlansWithinScope'
<1>1. CASE UNCHANGED <<askVars, routes, sqgs>>
  BY <1>1 DEF askVars, CacheFits, PlansWithinScope
<1>2. ASSUME NEW a \in Asks, AskStep(a)
      PROVE  CacheFits' /\ PlansWithinScope'
  <2> USE <1>2
  <2>1. AskTypeOK
    BY DEF TypeInv, TypeOK
  <2>2. at[a] # "planned"
    BY DEF AskStep, Begin, Choose, RouteAnswer, ReadRow, ReadGrants, Validate,
           Assemble, Compile, Accept, Reject, Refuse
  <2>3. \A b \in Asks : b # a => /\ at'[b] = at[b] /\ scope'[b] = scope[b]
                                /\ operators'[b] = operators[b]
                                /\ sqg'[b] = sqg[b]
    BY <2>1 DEF AskTypeOK, AskStep, Begin, Choose, RouteAnswer, ReadRow,
                ReadGrants, Validate, Assemble, Compile, Accept, Reject,
                Refuse, Fallback, Route, Plan, Goto
  <2>4. CASE Accept(a)
    <3>1. PICK g :
            /\ g = [operators |-> operators[a],
                        concepts |-> Fingerprint(scope[a])]
            /\ Plan(a, g)
            /\ sqgs' = {e \in sqgs : e.key # CacheKey(a)}
                       \cup {[key |-> CacheKey(a), sqg |-> g]}
      BY <2>4 DEF Accept
    <3>2. CacheFits'
      BY <3>1 DEF CacheFits, CacheKey
    <3>3. sqg'[a] = g
      BY <2>1, <3>1 DEF Plan, AskTypeOK
    <3>4. operators'[a] = operators[a] /\ scope'[a] = scope[a]
      BY <2>4 DEF Accept
    <3>5. /\ sqg'[a].operators \subseteq operators'[a]
          /\ sqg'[a].concepts = Fingerprint(scope[a])
      BY <3>1, <3>3, <3>4
    <3> QED
      BY <2>3, <3>2, <3>4, <3>5 DEF PlansWithinScope, Fingerprint
  <2>5. CASE Compile(a)
    <3>1. sqgs' \subseteq sqgs /\ operators'[a] = operators[a]
          /\ scope'[a] = scope[a]
      BY <2>5 DEF Compile
    <3>2. CASE at'[a] = "planned"
      <4>1. PICK e \in sqgs : e.key = CacheKey(a) /\ Plan(a, e.sqg)
        BY <2>1, <2>5, <3>2 DEF Compile, Goto, AskTypeOK
      <4>2. sqg'[a] = e.sqg
        BY <2>1, <4>1 DEF Plan, AskTypeOK
      <4>3. e.key.operators = operators[a]
            /\ e.key.concepts = Fingerprint(scope[a])
        BY <4>1 DEF CacheKey
      <4>4. /\ sqg'[a].operators \subseteq operators'[a]
            /\ sqg'[a].concepts = Fingerprint(scope[a])
        BY <3>1, <4>2, <4>3 DEF CacheFits
      <4> QED
        BY <2>3, <3>1, <4>4 DEF PlansWithinScope, CacheFits, Fingerprint
    <3>3. CASE at'[a] # "planned"
      BY <2>3, <3>1, <3>3 DEF PlansWithinScope, CacheFits, Fingerprint
    <3> QED
      BY <3>2, <3>3
  <2>6. CASE ~Accept(a) /\ ~Compile(a)
    <3>1. sqgs' = sqgs /\ at'[a] # "planned"
      BY <2>1, <2>6
      DEF AskTypeOK, AskStep, Begin, Choose, RouteAnswer, ReadRow, ReadGrants,
          Validate, Assemble, Reject, Refuse, Fallback, Route, Goto, Ended
    <3> QED
      BY <2>3, <3>1 DEF PlansWithinScope, CacheFits, Fingerprint
  <2> QED
    BY <2>4, <2>5, <2>6
<1> QED
  BY <1>1, <1>2 DEF Next, Step, vars

(* The graph an ask plans with fits the concepts and the operators of its   *)
(* own scope, whichever ask it was compiled for.                            *)
THEOREM PlansFit == Spec => []PlansWithinScope
<1>1. Init => CacheFits /\ PlansWithinScope
  BY DEF Init, CacheFits, PlansWithinScope
<1>2. TypeInv /\ (CacheFits /\ PlansWithinScope) /\ [Next]_vars
        => (CacheFits /\ PlansWithinScope)'
  BY PlansStep
<1> QED
  BY <1>1, <1>2, TypesHold, PTL DEF Spec

-----------------------------------------------------------------------------
(* The graphs the compiler accepts, and what a mail out of them tells       *)

-----------------------------------------------------------------------------
(* What reaches a text.                                                     *)

Succeeded(i) == i \in Done /\ results[i].error = "none"

\* The checks that have passed hold, and a task has run after all the plan has
\* it wait for.
RunInv ==
  /\ graph \in TaskGraphs
  /\ stage \in {"graph", "operators", "business", "inputs", "calculate", "run", "refused"}
  /\ stage \notin {"graph", "refused"} => GraphValid
  /\ stage \in {"inputs", "calculate", "run"} => BusinessValid
  /\ stage \in {"calculate", "run"} => RuntimeInputsValid
  /\ stage = "run" => CalculateValid
  /\ stage # "run" => wave = {} /\ results = <<>>
  /\ Done \subseteq Tasks /\ wave \subseteq Tasks \ Done
  /\ \A i \in wave \cup Done : PlanDeps(i) \subseteq Done
  /\ \A i \in Done : Succeeded(i) => \A j \in PlanDeps(i) : Succeeded(j)

LEMMA RunInit == GraphInit => RunInv
BY DEF GraphInit, RunInv, Done

\* An operator is of one sort.
LEMMA Sorts ==
  /\ \A op \in {"CALCULATE", "ASK", "ACT"} : op \notin Queries \cup Webs
  /\ \A op \in Webs : op \notin Queries \cup {"CALCULATE", "ASK", "ACT"}
BY DEF Queries, Webs

\* What a task of the wave delivers.
LEMMA Delivered ==
  ASSUME RunInv, NEW i, NEW result, Deliver(i, result)
  PROVE  /\ Done' = Done \cup {i} /\ i \in Tasks /\ i \notin Done /\ stage = "run" /\ stage' = "run"
         /\ results'[i] = result /\ \A j \in Done : results'[j] = results[j]
         /\ UNCHANGED graph /\ wave' = wave \ {i} /\ i \in wave
         /\ PlanDeps(i) \subseteq Done
<1>1. results' = [j \in Done \cup {i} |-> IF j = i THEN result ELSE results[j]]
  BY DEF Deliver
<1>2. i \in wave /\ i \in Tasks /\ i \notin Done
  BY DEF Deliver, RunInv
<1> QED
  BY <1>1, <1>2 DEF Deliver, RunInv, Done

\* The ways a task of the wave ends.
Ends(i, result) ==
  \/ UpstreamFailed(i) /\ result = Failure("skipped")
  \/ graph[i].op \in Queries /\ \E rows \in QueryRows(graph[i]) : result = Success(rows, {i})
  \/ graph[i].op # "CALCULATE" /\ ~UpstreamFailed(i) /\ result = Failure("service")
  \/ /\ graph[i].op \in Webs \cup {"ASK", "ACT"} /\ ~UpstreamFailed(i)
     /\ IF InputProblems(graph[i]) # {}
        THEN \E why \in InputProblems(graph[i]) : result = Failure(why)
        ELSE IF TextProblem(graph[i]) # "none" THEN result = Failure(TextProblem(graph[i]))
        ELSE IF graph[i].op \in Webs
          THEN \E rows \in PageRows(graph[i].op) : result = Success(rows, {i})
          ELSE result = Success(<<[value |-> "text"]>>, Told(graph[i]))
  \/ /\ graph[i].op = "CALCULATE" /\ ~UpstreamFailed(i)
     /\ IF Raises(graph[i])
        THEN result = Failure("raised")
        ELSE result = Success(IF graph[i].selection = None THEN CalculatedRows(graph[i])
                              ELSE SelectRows(graph[i], CalculatedRows(graph[i])), Told(graph[i]))

\* A task that is run ends in one of these ways.
LEMMA TasksEnd ==
  ASSUME RunTask
  PROVE  \E i \in wave : \E result : Deliver(i, result) /\ Ends(i, result)
<1>1. PICK i \in wave : Skip(i) \/ Query(i) \/ ServiceFails(i) \/ Capability(i) \/ RunCalculate(i)
  BY DEF RunTask
<1>2. CASE Skip(i)
  BY <1>2 DEF Skip, Ends
<1>3. CASE Query(i)
  BY <1>3 DEF Query, Ends
<1>4. CASE ServiceFails(i)
  BY <1>4 DEF ServiceFails, Ends
<1>5. CASE Capability(i)
  <2> DEFINE t == graph[i]
  <2>1. t.op \in Webs \cup {"ASK", "ACT"} /\ ~UpstreamFailed(i)
    BY <1>5 DEF Capability
  <2>2. CASE InputProblems(t) # {}
    <3>1. PICK why \in InputProblems(t) : Deliver(i, Failure(why))
      BY <1>5, <2>2 DEF Capability
    <3> QED BY <2>1, <2>2, <3>1 DEF Ends
  <2>3. CASE InputProblems(t) = {} /\ TextProblem(t) # "none"
    <3>1. Deliver(i, Failure(TextProblem(t)))
      BY <1>5, <2>3 DEF Capability
    <3> QED BY <2>1, <2>3, <3>1 DEF Ends
  <2>4. CASE InputProblems(t) = {} /\ TextProblem(t) = "none" /\ t.op \in Webs
    <3>1. PICK rows \in PageRows(t.op) : Deliver(i, Success(rows, {i}))
      BY <1>5, <2>4 DEF Capability
    <3> QED BY <2>1, <2>4, <3>1 DEF Ends
  <2>5. CASE InputProblems(t) = {} /\ TextProblem(t) = "none" /\ t.op \notin Webs
    <3>1. Deliver(i, Success(<<[value |-> "text"]>>, Told(t)))
      BY <1>5, <2>5 DEF Capability
    <3> QED BY <2>1, <2>5, <3>1 DEF Ends
  <2> QED BY <2>2, <2>3, <2>4, <2>5
<1>6. CASE RunCalculate(i)
  BY <1>6 DEF RunCalculate, Ends
<1> QED BY <1>1, <1>2, <1>3, <1>4, <1>5, <1>6

\* The checks are about the graph alone.
LEMMA SameGraph ==
  ASSUME UNCHANGED graph
  PROVE  /\ Tasks' = Tasks /\ \A i : PlanDeps(i)' = PlanDeps(i)
         /\ GraphValid' <=> GraphValid
         /\ BusinessValid' <=> BusinessValid
         /\ RuntimeInputsValid' <=> RuntimeInputsValid
         /\ CalculateValid' <=> CalculateValid
<1>1. Tasks' = Tasks /\ \A i : PlanDeps(i)' = PlanDeps(i)
  BY DEF Tasks, PlanDeps, Of
<1>2. GraphValid' <=> GraphValid
  BY DEF GraphValid, Tasks, Ids, InputNodes, Inputs
<1>3. BusinessValid' <=> BusinessValid
  BY DEF BusinessValid, DataReachesTexts, MailTakesReport, DataAncestors, Ancestors, Closure,
         Named, Structured, Of, Place, Ids, InputNodes, Inputs, Tasks
<1>4. RuntimeInputsValid' <=> RuntimeInputsValid
  BY DEF RuntimeInputsValid, Tasks, Place, Inputs, OutputFields, Fields, Texts, Aliases, Scalar, InputOf
<1>5. CalculateValid' <=> CalculateValid
  BY DEF CalculateValid, Of, Tasks, Place, Inputs, Contracted, Grain, Fields, Refs, Names, Selects
<1> QED BY <1>1, <1>2, <1>3, <1>4, <1>5

\* The ways it succeeds.
LEMMA Outcome ==
  ASSUME NEW i, NEW result, Ends(i, result), result.error = "none"
  PROVE  \/ graph[i].op \in Queries /\ \E rows \in QueryRows(graph[i]) : result = Success(rows, {i})
         \/ /\ graph[i].op \in Webs /\ ~UpstreamFailed(i)
            /\ \E rows \in PageRows(graph[i].op) : result = Success(rows, {i})
         \/ /\ graph[i].op \in {"ASK", "ACT"} /\ ~UpstreamFailed(i)
            /\ result = Success(<<[value |-> "text"]>>, Told(graph[i]))
         \/ /\ graph[i].op = "CALCULATE" /\ ~UpstreamFailed(i) /\ ~Raises(graph[i])
            /\ result = Success(IF graph[i].selection = None THEN CalculatedRows(graph[i])
                                ELSE SelectRows(graph[i], CalculatedRows(graph[i])), Told(graph[i]))
<1>1. \A why : Failure(why).error = why
  BY DEF Failure
<1>2. "none" \notin InputProblems(graph[i])
  BY DEF InputProblems
<1> QED BY <1>1, <1>2 DEF Ends

LEMMA SuccessFields ==
  \A rows, told : LET s == Success(rows, told) IN s.rows = rows /\ s.error = "none" /\ s.told = told
BY DEF Success

\* Whose data a successful result is made of.
LEMMA OutcomeTold ==
  ASSUME NEW i, NEW result, Ends(i, result), result.error = "none"
  PROVE  \/ graph[i].op \in Queries \cup Webs /\ result.told = {i}
         \/ graph[i].op \in {"CALCULATE", "ASK", "ACT"} /\ ~UpstreamFailed(i) /\ result.told = Told(graph[i])
<1>1. CASE graph[i].op \in Queries /\ \E rows \in QueryRows(graph[i]) : result = Success(rows, {i})
  BY <1>1, SuccessFields
<1>2. CASE graph[i].op \in Webs
           /\ \E rows \in PageRows(graph[i].op) : result = Success(rows, {i})
  <2>1. \E rows : result = Success(rows, {i})
    BY <1>2
  <2> QED BY <1>2, <2>1, SuccessFields
<1>3. CASE graph[i].op \in {"CALCULATE", "ASK", "ACT"} /\ ~UpstreamFailed(i)
           /\ \E rows : result = Success(rows, Told(graph[i]))
  BY <1>3, SuccessFields
<1>4. \/ graph[i].op \in Queries /\ \E rows \in QueryRows(graph[i]) : result = Success(rows, {i})
      \/ /\ graph[i].op \in Webs
         /\ \E rows \in PageRows(graph[i].op) : result = Success(rows, {i})
      \/ /\ graph[i].op \in {"CALCULATE", "ASK", "ACT"} /\ ~UpstreamFailed(i)
         /\ \E rows : result = Success(rows, Told(graph[i]))
  BY Outcome, Zenon
<1> QED BY <1>1, <1>2, <1>3, <1>4

LEMMA RunNext == RunInv /\ [GraphNext]_graphVars => RunInv'
<1> SUFFICES ASSUME RunInv, [GraphNext]_graphVars PROVE RunInv'
  OBVIOUS
<1>1. UNCHANGED graph
  BY DEF GraphNext, graphVars, CheckGraph, CheckOperators, CheckBusiness, CheckInputs, CheckCalculate,
         Check, NextWave, RunTask, Skip, Query, ServiceFails, Capability, RunCalculate, Deliver
<1> USE DEF RunInv
<1>2. CASE UNCHANGED graphVars
  BY <1>1, <1>2, SameGraph DEF graphVars, Done, Succeeded
<1>3. CASE CheckGraph \/ CheckOperators \/ CheckBusiness \/ CheckInputs \/ CheckCalculate
  BY <1>1, <1>3, SameGraph
  DEF CheckGraph, CheckOperators, CheckBusiness, CheckInputs, CheckCalculate, Check, Done, Succeeded
<1>4. CASE NextWave
  BY <1>1, <1>4, SameGraph DEF NextWave, Done, Succeeded
<1>5. CASE RunTask
  <2>1. PICK i, result : Deliver(i, result) /\ Ends(i, result)
    BY <1>5, TasksEnd
  <2>2. /\ Done' = Done \cup {i} /\ i \in Tasks /\ i \notin Done /\ stage = "run" /\ stage' = "run"
        /\ results'[i] = result /\ \A j \in Done : results'[j] = results[j]
        /\ wave' = wave \ {i} /\ i \in wave /\ PlanDeps(i) \subseteq Done
    BY <2>1, Delivered
  <2>3. \A j \in Done : Succeeded(j)' <=> Succeeded(j)
    BY <2>2 DEF Succeeded
  <2>4. Succeeded(i)' => \A j \in PlanDeps(i) : Succeeded(j)
    <3> SUFFICES ASSUME result.error = "none", NEW j \in PlanDeps(i) PROVE results[j].error = "none"
      BY <2>2 DEF Succeeded
    <3>1. graph[i].op \in Queries => PlanDeps(i) = {}
      BY <2>2 DEF PlanDeps, Of
    <3>2. UpstreamFailed(i) /\ result = Failure("skipped") => FALSE
      BY DEF Failure
    <3> QED BY <2>1, <3>1, <3>2 DEF Ends, UpstreamFailed
  <2>5. Tasks' = Tasks /\ \A k : PlanDeps(k)' = PlanDeps(k)
    BY <1>1, SameGraph
  <2>6. \A k \in Done' : Succeeded(k)' => \A j \in PlanDeps(k)' : Succeeded(j)'
    <3> SUFFICES ASSUME NEW k \in Done', Succeeded(k)', NEW j \in PlanDeps(k)
                 PROVE  Succeeded(j)'
      BY <2>5
    <3>1. CASE k = i
      BY <2>2, <2>3, <2>4, <3>1
    <3>2. CASE k \in Done
      <4>1. j \in Done /\ Succeeded(j)
        BY <2>3, <3>2
      <4> QED BY <2>3, <4>1
    <3> QED BY <2>2, <3>1, <3>2
  <2>7. /\ Done' \subseteq Tasks' /\ wave' \subseteq Tasks' \ Done'
        /\ \A k \in wave' \cup Done' : PlanDeps(k)' \subseteq Done'
    BY <2>2, <2>5
  <2> HIDE DEF RunInv
  <2>8. RunInv
    OBVIOUS
  <2> QED
    BY <1>1, <2>2, <2>6, <2>7, <2>8, SameGraph DEF RunInv
<1> QED BY <1>2, <1>3, <1>4, <1>5 DEF GraphNext

\* A place of an accepted graph, and the inputs of the tasks that come after
\* what they depend on.
LEMMA Places ==
  ASSUME GraphValid
  PROVE  /\ \A n \in Ids : Place(n) \in Tasks /\ graph[Place(n)].id = n
         /\ \A i \in Tasks : Place(graph[i].id) = i
<1>1. \A n \in Ids : \E i \in Tasks : graph[i].id = n
  BY DEF Ids
<1>2. \A n \in Ids : Place(n) \in Tasks /\ graph[Place(n)].id = n
  BY <1>1 DEF Place
<1> QED BY <1>2 DEF GraphValid, Ids

\* Where tasks are listed in order, what a task reads is in the plan before it.
LEMMA InputsBefore ==
  ASSUME GraphValid, Listed, NEW i \in Tasks, graph[i].op \notin Queries, NEW r \in Inputs(graph[i])
  PROVE  r.node \in Ids /\ Place(r.node) \in PlanDeps(i)
<1>1. r.node \in InputNodes(graph[i])
  BY DEF InputNodes
<1>2. r.node \in Ids /\ r.node \in graph[i].depends
  BY <1>1 DEF GraphValid
<1>3. Place(r.node) \in Tasks /\ graph[Place(r.node)].id \in graph[i].depends
  BY <1>2, Places
<1>4. Place(r.node) < i
  BY <1>3 DEF Listed
<1> QED BY <1>2, <1>3, <1>4 DEF PlanDeps, Of

\* Where the tasks are listed in order, a text or a calculation tells what its
\* inputs tell, and a structured task tells something.
ToldInv ==
  Listed => \A i \in Done : Succeeded(i) =>
    /\ graph[i].op \in Queries \cup Webs \cup {"CALCULATE", "ASK", "ACT"}
    /\ i \in Structured => results[i].told # {}
    /\ graph[i].op \in {"CALCULATE", "ASK", "ACT"} =>
         \A r \in Inputs(graph[i]) : results[Place(r.node)].told \subseteq results[i].told

\* A task that ends has been told what its inputs were told.
LEMMA ToldStep ==
  ASSUME RunInv, ToldInv, RunTask PROVE ToldInv'
<1>1. PICK i, result : Deliver(i, result) /\ Ends(i, result)
  BY TasksEnd
<1>2. /\ Done' = Done \cup {i} /\ i \in Tasks /\ i \notin Done /\ stage = "run"
      /\ results'[i] = result /\ \A j \in Done : results'[j] = results[j]
      /\ UNCHANGED graph /\ PlanDeps(i) \subseteq Done
  BY <1>1, Delivered
<1>3. GraphValid /\ CalculateValid
  BY <1>2 DEF RunInv
<1>4. /\ Listed' <=> Listed
      /\ Structured' = Structured
      /\ \A j : (graph[j].op)' = graph[j].op /\ Inputs(graph[j])' = Inputs(graph[j])
      /\ \A n : Place(n)' = Place(n)
  BY <1>2 DEF Listed, Tasks, Structured, Inputs, Place
<1> SUFFICES ASSUME Listed, NEW k \in Done', Succeeded(k)'
             PROVE  /\ graph[k].op \in Queries \cup Webs \cup {"CALCULATE", "ASK", "ACT"}
                    /\ k \in Structured => results'[k].told # {}
                    /\ graph[k].op \in {"CALCULATE", "ASK", "ACT"} =>
                         \A r \in Inputs(graph[k]) : results'[Place(r.node)].told \subseteq results'[k].told
  BY <1>4 DEF ToldInv
<1>5. CASE k \in Done
  <2>1. Succeeded(k) /\ results'[k] = results[k]
    BY <1>2, <1>5 DEF Succeeded
  <2>2. k \in Tasks /\ PlanDeps(k) \subseteq Done
    BY <1>5 DEF RunInv
  <2>3. ASSUME graph[k].op \in {"CALCULATE", "ASK", "ACT"}, NEW r \in Inputs(graph[k])
        PROVE  results'[Place(r.node)] = results[Place(r.node)]
    BY <1>2, <1>3, <2>2, <2>3, InputsBefore, Sorts
  <2> QED BY <1>5, <2>1, <2>3 DEF ToldInv
<1>6. CASE k = i
  <2>1. result.error = "none"
    BY <1>2, <1>6 DEF Succeeded
  <2>2. CASE graph[i].op \in Queries \cup Webs
    <3>1. result.told = {i}
      BY <1>1, <2>1, <2>2, OutcomeTold, Sorts
    <3> QED BY <1>2, <1>6, <2>2, <3>1, Sorts
  <2>3. CASE graph[i].op \in {"CALCULATE", "ASK", "ACT"}
    <3>1. result.told = Told(graph[i]) /\ ~UpstreamFailed(i)
      BY <1>1, <2>1, <2>3, OutcomeTold, Sorts
    <3>2. ASSUME NEW r \in Inputs(graph[i])
          PROVE  /\ Place(r.node) \in Done /\ Succeeded(Place(r.node))
                 /\ results[Place(r.node)].told \subseteq result.told
                 /\ results'[Place(r.node)] = results[Place(r.node)]
      <4>1. Place(r.node) \in PlanDeps(i)
        BY <1>2, <1>3, <2>3, InputsBefore, Sorts
      <4>2. Place(r.node) \in Done /\ Succeeded(Place(r.node))
        BY <1>2, <3>1, <4>1 DEF UpstreamFailed, Succeeded
      <4> QED BY <1>2, <3>1, <4>2 DEF Told
    <3>3. ASSUME i \in Structured PROVE result.told # {}
      <4>1. graph[i].op = "CALCULATE"
        BY <2>3, <3>3, Sorts DEF Structured
      <4>2. PICK r \in Inputs(graph[i]) : Place(r.node) \in Contracted
        BY <1>2, <1>3, <4>1 DEF CalculateValid, Of
      <4>3. Place(r.node) \in Structured
        BY <4>2 DEF Contracted, Of, Structured
      <4> QED BY <3>2, <4>3 DEF ToldInv
    <3> QED BY <1>2, <1>6, <2>3, <3>2, <3>3
  <2>4. graph[i].op \in Queries \cup Webs \cup {"CALCULATE", "ASK", "ACT"}
    BY <1>1, <2>1, OutcomeTold
  <2> QED BY <1>6, <2>2, <2>3, <2>4
<1> QED BY <1>2, <1>5, <1>6

LEMMA ToldNext == RunInv /\ ToldInv /\ [GraphNext]_graphVars => ToldInv'
<1> SUFFICES ASSUME RunInv, ToldInv, [GraphNext]_graphVars, ~RunTask PROVE ToldInv'
  BY ToldStep
<1>1. UNCHANGED <<graph, results>>
  BY DEF GraphNext, graphVars, CheckGraph, CheckOperators, CheckBusiness, CheckInputs, CheckCalculate,
         Check, NextWave
<1> QED BY <1>1 DEF ToldInv, Listed, Tasks, Done, Succeeded, Structured, Inputs, Place

\* What is reached from S lies in every set that S leads into and that no edge
\* leaves.
LEMMA Reached ==
  ASSUME NEW edges, NEW S, NEW T \in SUBSET Ids, S \subseteq T, \A m \in T : edges[m] \subseteq T
  PROVE  Closure(edges, S) \subseteq T
BY DEF Closure

\* A text that tells nothing was made of results that tell nothing, along every
\* chain of inputs.
Silent(i) == i \in Done /\ Succeeded(i) /\ results[i].told = {}

\* Everything a silent result was made of is silent.
LEMMA SilentAncestors ==
  ASSUME RunInv, ToldInv, Listed, stage = "run", NEW i, Silent(i)
  PROVE  \A n \in DataAncestors(i) : n \in Ids /\ Silent(Place(n))
<1> DEFINE T == {n \in Ids : Silent(Place(n))}
           edges == [n \in Ids |-> InputNodes(graph[Place(n)])]
<1>1. ASSUME NEW j, Silent(j) PROVE InputNodes(graph[j]) \subseteq T
  <2>1. /\ j \in Done /\ j \in Tasks /\ j \notin Structured
        /\ graph[j].op \in Queries \cup Webs \cup {"CALCULATE", "ASK", "ACT"}
    BY <1>1 DEF Silent, RunInv, ToldInv
  <2> SUFFICES ASSUME NEW r \in Inputs(graph[j]) PROVE r.node \in T
    BY DEF InputNodes
  <2>2. graph[j].op \notin Queries /\ GraphValid
    BY <2>1 DEF Structured, RunInv
  <2>3. r.node \in Ids /\ Place(r.node) \in PlanDeps(j)
    BY <2>1, <2>2, InputsBefore
  <2>4. Place(r.node) \in Done /\ Succeeded(Place(r.node))
    BY <1>1, <2>1, <2>3 DEF RunInv, Silent
  <2>5. CASE graph[j].op \in {"CALCULATE", "ASK", "ACT"}
    <3>1. results[Place(r.node)].told \subseteq results[j].told
      BY <1>1, <2>1, <2>5 DEF ToldInv, Silent
    <3> QED BY <1>1, <2>3, <2>4, <3>1 DEF Silent
  <2> QED BY <2>1, <2>5 DEF Structured
<1>2. \A m \in T : edges[m] \subseteq T
  BY <1>1
<1>3. InputNodes(graph[i]) \subseteq T
  BY <1>1
<1> HIDE DEF T, edges
<1>4. T \in SUBSET Ids
  BY DEF T
<1>5. Closure(edges, InputNodes(graph[i])) \subseteq T
  BY <1>2, <1>3, <1>4, Reached
<1> QED BY <1>5 DEF DataAncestors, edges, T

\* A mail that goes out of a graph with structured tasks tells their data, for
\* any graph: the ASK that a mail must read, and the data that an ASK must read,
\* are read along inputs that all succeeded.
THEOREM MailsTellData == GraphSpec => []MailTellsData
<1>1. RunInv /\ ToldInv => MailTellsData
  <2> SUFFICES ASSUME RunInv, ToldInv, Listed, Structured # {}, NEW i \in Sent, results[i].told = {}
               PROVE  FALSE
    BY DEF MailTellsData
  <2>1. i \in Of("ACT") /\ i \in Tasks /\ graph[i].mail /\ Silent(i) /\ stage = "run"
    BY DEF Sent, Of, Silent, Succeeded, RunInv, Done
  <2>2. BusinessValid /\ GraphValid
    BY <2>1 DEF RunInv
  <2>3. MailTakesReport(i) /\ DataReachesTexts
    BY <2>1, <2>2 DEF BusinessValid
  <2>4. PICK a \in DataAncestors(i) : a \in Named(Of("ASK"))
    BY <2>3 DEF MailTakesReport
  <2>5. Silent(Place(a)) /\ Place(a) \in Of("ASK")
    <3>1. PICK j \in Of("ASK") : a = graph[j].id
      BY <2>4 DEF Named
    <3>2. Place(a) = j
      BY <2>2, <3>1, Places DEF Of
    <3> QED BY <2>1, <2>4, <3>1, <3>2, SilentAncestors
  <2>6. PICK s \in DataAncestors(Place(a)) : s \in Named(Structured)
    BY <2>3, <2>5 DEF DataReachesTexts
  <2>7. Silent(Place(s)) /\ Place(s) \in Structured
    <3>1. PICK j \in Structured : s = graph[j].id
      BY <2>6 DEF Named
    <3>2. Place(s) = j
      BY <2>2, <3>1, Places DEF Structured
    <3> QED BY <2>1, <2>5, <2>6, <3>1, <3>2, SilentAncestors
  <2> QED BY <2>7 DEF ToldInv, Silent
<1>2. GraphInit => ToldInv
  BY DEF GraphInit, ToldInv, Done
<1> QED BY <1>1, <1>2, RunInit, RunNext, ToldNext, PTL DEF GraphSpec

-----------------------------------------------------------------------------
(* Orders and expressions                                                   *)

-----------------------------------------------------------------------------
(* Orders, sequences and recursion.                                         *)

\* A function on the first numbers is a sequence.
LEMMA IsSequence ==
  ASSUME NEW n \in Nat, NEW s, s = [k \in 1..n |-> s[k]]
  PROVE  Len(s) = n /\ s \in Seq({s[k] : k \in 1..n})
OBVIOUS

\* What a sequence lists is finite.
LEMMA FinitelyMany ==
  ASSUME NEW n \in Nat, NEW s, DOMAIN s = 1..n
  PROVE  IsFiniteSet({s[k] : k \in DOMAIN s})
<1> DEFINE S == {s[k] : k \in DOMAIN s}
           f == [k \in 1..n |-> s[k]]
<1>1. IsFiniteSet(1..n)
  BY FS_Interval
<1>2. f \in Surjection(1..n, S)
  BY DEF Surjection
<1> HIDE DEF f, S
<1>3. IsFiniteSet(S)
  BY <1>1, <1>2, FS_Surjection
<1> QED BY <1>3 DEF S

\* A strict total order of a set, given as a set of pairs.
Orders(order, S) ==
  /\ \A x \in S : <<x, x>> \notin order
  /\ \A x, y, z \in S : <<x, y>> \in order /\ <<y, z>> \in order => <<x, z>> \in order
  /\ \A x, y \in S : x # y => <<x, y>> \in order \/ <<y, x>> \in order

\* A sequence of the elements of S, each once and with those before it in the
\* order before it.
Lists(s, order, S) ==
  /\ Cardinality(S) \in Nat /\ DOMAIN s = 1..Cardinality(S) /\ Len(s) = Cardinality(S)
  /\ \A p \in DOMAIN s : s[p] \in S /\ Cardinality({y \in S : <<y, s[p]>> \in order}) = p - 1
  /\ \A x \in S : \E p \in DOMAIN s : s[p] = x
  /\ \A p, q \in DOMAIN s : s[p] = s[q] => p = q

\* In an ordered finite set there is one element with any number of elements
\* before it, and Sorted lists them all.
LEMMA SortedLists ==
  ASSUME NEW S, IsFiniteSet(S), NEW order, Orders(order, S)
  PROVE  Lists(Sorted(S, order), order, S)
<1> DEFINE n == Cardinality(S)
           Before(x) == {y \in S : <<y, x>> \in order}
           rank == [x \in S |-> Cardinality(Before(x)) + 1]
<1>1. n \in Nat
  BY FS_CardinalityType
<1>2. \A x \in S : IsFiniteSet(Before(x)) /\ Cardinality(Before(x)) \in Nat
  <2> TAKE x \in S
  <2>1. Before(x) \in SUBSET S
    OBVIOUS
  <2> HIDE DEF Before
  <2> QED BY <2>1, FS_Subset, FS_CardinalityType
<1>3. \A x \in S : Cardinality(Before(x)) < n
  <2> TAKE x \in S
  <2>1. Before(x) \in SUBSET S /\ x \notin Before(x)
    BY DEF Orders
  <2> HIDE DEF Before
  <2> QED BY <1>1, <1>2, <2>1, FS_Subset
<1>4. \A x, y \in S : <<x, y>> \in order => Cardinality(Before(x)) < Cardinality(Before(y))
  <2> SUFFICES ASSUME NEW x \in S, NEW y \in S, <<x, y>> \in order
               PROVE  Cardinality(Before(x)) < Cardinality(Before(y))
    OBVIOUS
  <2>1. Before(x) \in SUBSET Before(y) /\ x \in Before(y) /\ x \notin Before(x)
    BY DEF Orders
  <2> HIDE DEF Before
  <2> QED BY <1>2, <2>1, FS_Subset
<1>5. \A x, y \in S : rank[x] = rank[y] => x = y
  <2> SUFFICES ASSUME NEW x \in S, NEW y \in S, rank[x] = rank[y], x # y
               PROVE  FALSE
    OBVIOUS
  <2>1. Cardinality(Before(x)) = Cardinality(Before(y))
    <3> HIDE DEF Before
    <3> QED BY <1>2
  <2>2. <<x, y>> \in order \/ <<y, x>> \in order
    BY DEF Orders
  <2> HIDE DEF Before
  <2> QED BY <1>2, <1>4, <2>1, <2>2
<1>6. rank \in [S -> 1..n]
  <2> HIDE DEF Before
  <2> QED BY <1>1, <1>2, <1>3
<1>7. rank \in Injection(S, 1..n)
  BY <1>5, <1>6 DEF Injection, IsInjective
<1>8. \A p \in 1..n : \E x \in S : Cardinality(Before(x)) = p - 1
  <2>1. IsFiniteSet(1..n) /\ Cardinality(1..n) = n
    BY <1>1, FS_Interval
  <2>2. rank \in Surjection(S, 1..n)
    BY <1>7, <2>1, FS_Injection DEF Bijection
  <2> HIDE DEF Before
  <2> TAKE p \in 1..n
  <2>3. PICK x \in S : rank[x] = p
    BY <2>2 DEF Surjection
  <2>4. Cardinality(Before(x)) + 1 = p
    BY <2>3
  <2> QED BY <1>1, <1>2, <2>4
<1> DEFINE s == Sorted(S, order)
<1>9. DOMAIN s = 1..n /\ \A p \in 1..n : s[p] = CHOOSE x \in S : Cardinality(Before(x)) = p - 1
  BY DEF Sorted
<1>10. \A p \in 1..n : s[p] \in S /\ Cardinality(Before(s[p])) = p - 1
  <2> HIDE DEF Before, s
  <2> QED BY <1>8, <1>9
<1>11. \A x \in S : \E p \in 1..n : s[p] = x
  <2> TAKE x \in S
  <2>1. rank[x] \in 1..n /\ Cardinality(Before(x)) = rank[x] - 1
    <3> HIDE DEF Before
    <3> QED BY <1>2, <1>6
  <2>2. s[rank[x]] \in S /\ Cardinality(Before(s[rank[x]])) = rank[x] - 1
    BY <1>10, <2>1
  <2>3. rank[s[rank[x]]] = rank[x]
    <3> HIDE DEF Before, s
    <3> QED BY <1>1, <1>2, <2>1, <2>2
  <2> HIDE DEF s, rank
  <2> QED BY <1>5, <2>1, <2>2, <2>3
<1>12. \A p, q \in 1..n : s[p] = s[q] => p = q
  <2> HIDE DEF s, Before
  <2> QED BY <1>1, <1>2, <1>10
<1>13. Len(s) = n
  <2> DEFINE e(p) == CHOOSE x \in S : Cardinality(Before(x)) = p - 1
  <2>1. s = [p \in 1..n |-> e(p)]
    BY DEF Sorted
  <2> HIDE DEF e, s, n
  <2> QED BY <1>1, <2>1
<1> HIDE DEF s
<1> QED BY <1>1, <1>9, <1>10, <1>11, <1>12, <1>13 DEF s, Lists

\* A set of naturals has a least element.
LEMMA Least ==
  ASSUME NEW S \in SUBSET Nat, S # {}
  PROVE  \E k \in S : \A j \in S : k <= j
<1>1. PICK k \in S : \A j \in S : ~(<<j, k>> \in OpToRel(<, Nat))
  BY NatLessThanWellFounded, WFMin
<1>2. \A j \in S : ~(j < k)
  BY <1>1 DEF OpToRel
<1>3. \A j \in S : k <= j
  BY <1>2
<1> QED BY <1>3

\* What holds of 0 and of the next number holds up to a bound.
LEMMA UpTo ==
  ASSUME NEW n \in Nat, NEW T, 0 \in T, \A k \in 0..n - 1 : k \in T => k + 1 \in T
  PROVE  0..n \subseteq T
<1> SUFFICES ASSUME (0..n) \ T # {} PROVE FALSE
  OBVIOUS
<1> DEFINE S == (0..n) \ T
<1>1. PICK k \in S : \A j \in S : k <= j
  <2>1. S \in SUBSET Nat /\ S # {}
    OBVIOUS
  <2> HIDE DEF S
  <2> QED BY <2>1, Least
<1>2. k # 0 /\ k - 1 \in 0..n - 1
  BY <1>1
<1>3. k - 1 \in T
  BY <1>1, <1>2
<1>4. (k - 1) + 1 = k
  BY <1>1
<1> QED BY <1>1, <1>2, <1>3, <1>4

LEMMA SeqDomain ==
  ASSUME NEW s, IsSeq(s)
  PROVE  Len(s) \in Nat /\ DOMAIN s = 1..Len(s) /\ (s # <<>> => 1 \in DOMAIN s /\ Len(s) \in DOMAIN s)
<1>1. s \in Seq({s[k] : k \in DOMAIN s})
  BY DEF IsSeq
<1>2. Len(s) \in Nat /\ DOMAIN s = 1..Len(s)
  BY <1>1
<1>3. s # <<>> => Len(s) # 0
  BY <1>1
<1> QED BY <1>2, <1>3

-----------------------------------------------------------------------------
(* Expressions.                                                             *)

Computed == Values \cup {Raised}

RowIn(record, S) == \A f \in DOMAIN record : record[f] \in S

\* What a node needs of the rows it reads.
Reads(n, inputs) == n.kind = "node_output" => RowIn(inputs[n.input], Values)

\* COALESCE gives one of its values, or None.
LEMMA LeastGiven ==
  ASSUME NEW n \in Nat, NEW given \in SUBSET (1..n), given # {}
  PROVE  (CHOOSE k \in given : \A j \in given : k <= j) \in given
<1>1. \E k \in given : \A j \in given : k <= j
  BY Least
<1> QED BY <1>1

\* Arithmetic, functions and nodes give a value or Raised.
LEMMA CombinedType ==
  ASSUME NEW n, n.op \in {"ADD", "SUBTRACT", "MULTIPLY", "DIVIDE", "SAFE_DIVIDE"},
         NEW v \in Computed, NEW w \in Computed
  PROVE  Combined(n, v, w) \in Computed
<1>1. CASE Raised \in {v, w} \/ None \in {v, w}
  BY <1>1 DEF Combined, Computed, Values
<1>2. CASE Raised \notin {v, w} /\ None \notin {v, w}
  <2>1. v \in Int /\ w \in Int
    BY <1>2 DEF Computed, Values
  <2>2. v + w \in Int /\ v - w \in Int /\ v * w \in Int
    BY <2>1
  <2>3. Divided(v, w, n.zero) \in Computed
    <3>1. w > 0 => v \div w \in Int
      BY <2>1
    <3>2. w < 0 => (-v) \div (-w) \in Int
      BY <2>1
    <3> QED BY <2>1, <3>1, <3>2 DEF Divided, Computed, Values
  <2> QED BY <1>2, <2>2, <2>3 DEF Combined, Computed, Values
<1> QED BY <1>1, <1>2

LEMMA AppliedType ==
  ASSUME NEW name \in {"COALESCE", "ABS", "ROUND", "LOWER", "UPPER"}, NEW values, NEW n \in Nat, DOMAIN values = 1..n,
         values # <<>> => n # 0, \A k \in 1..n : values[k] \in Computed
  PROVE  Applied(name, values) \in Computed
<1>1. CASE \E k \in DOMAIN values : values[k] = Raised
  BY <1>1 DEF Applied, Computed
<1>2. CASE \A k \in DOMAIN values : values[k] # Raised
  <2>1. FirstGiven(values) \in Computed
    <3> DEFINE given == {k \in DOMAIN values : values[k] # None}
    <3>1. given \in SUBSET (1..n)
      OBVIOUS
    <3>2. CASE given = {}
      BY <3>2 DEF FirstGiven, Computed, Values
    <3>3. CASE given # {}
      <4>1. (CHOOSE k \in given : \A j \in given : k <= j) \in given
        <5> HIDE DEF given
        <5> QED BY <3>1, <3>3, LeastGiven
      <4>2. FirstGiven(values) = values[CHOOSE k \in given : \A j \in given : k <= j]
        BY <3>3 DEF FirstGiven
      <4> HIDE DEF given
      <4> QED BY <3>1, <4>1, <4>2
    <3> QED BY <3>2, <3>3
  <2>2. Absolute(values) \in Computed
    <3>1. CASE values = <<>> \/ values[1] = None
      BY <3>1 DEF Absolute, Computed
    <3>2. CASE values # <<>> /\ values[1] # None
      <4>1. values[1] \in Int
        BY <1>2, <3>2 DEF Computed, Values
      <4> QED BY <3>2, <4>1 DEF Absolute, Computed, Values
    <3> QED BY <3>1, <3>2
  <2>3. Rounded(values) \in Computed
    <3>1. CASE values = <<>> \/ None \in {values[k] : k \in DOMAIN values \cap {1, 2}}
      BY <3>1 DEF Rounded, Computed
    <3>2. CASE values # <<>> /\ None \notin {values[k] : k \in DOMAIN values \cap {1, 2}}
      <4>1. 1 \in 1..n
        BY <3>2
      <4>2. Rounded(values) = values[1]
        BY <3>2 DEF Rounded
      <4> QED BY <4>1, <4>2
    <3> QED BY <3>1, <3>2
  <2>4. Raised \in Computed
    BY DEF Computed
  <2>5. CASE name \in {"LOWER", "UPPER"}
    BY <1>2, <2>4, <2>5 DEF Applied
  <2>6. CASE name \in {"COALESCE", "ABS", "ROUND"}
    BY <1>2, <2>1, <2>2, <2>3, <2>6 DEF Applied
  <2> QED BY <2>5, <2>6
<1> QED BY <1>1, <1>2

LEMMA NodeType ==
  ASSUME NEW n, NEW k \in Nat, ParsedNode(n, k), NEW value, \A j \in 1..k - 1 : value[j] \in Computed,
         NEW inputs, Reads(n, inputs), NEW outputs, RowIn(outputs, Computed)
  PROVE  NodeValue(n, value, inputs, outputs) \in Computed
<1>1. CASE n.kind = "literal"
  BY <1>1 DEF NodeValue, ParsedNode, Computed
<1>2. CASE n.kind = "node_output"
  <2>1. At(inputs[n.input], n.field) \in Values
    BY <1>2 DEF Reads, RowIn, At, Values
  <2> QED BY <1>2, <2>1 DEF NodeValue, Computed
<1>3. CASE n.kind = "output"
  <2>1. At(outputs, n.name) \in Computed
    BY <1>3 DEF RowIn, At, Values, Computed
  <2> QED BY <1>3, <2>1 DEF NodeValue
<1>4. CASE n.kind = "unary"
  <2>1. value[n.operand] \in Computed
    BY <1>4 DEF ParsedNode
  <2> QED BY <1>4, <2>1 DEF NodeValue, Computed, Values
<1>5. CASE n.kind = "binary"
  <2>1. value[n.left] \in Computed /\ value[n.right] \in Computed
    BY <1>5 DEF ParsedNode
  <2>2. n.op \in {"ADD", "SUBTRACT", "MULTIPLY", "DIVIDE", "SAFE_DIVIDE"}
    BY <1>5 DEF ParsedNode
  <2>3. Combined(n, value[n.left], value[n.right]) \in Computed
    BY <2>1, <2>2, CombinedType
  <2> QED BY <1>5, <2>3 DEF NodeValue
<1>6. CASE n.kind = "function"
  <2> DEFINE values == [j \in DOMAIN n.args |-> value[n.args[j]]]
  <2>1. n.args \in Seq(1..k - 1) /\ n.name \in {"COALESCE", "ABS", "ROUND", "LOWER", "UPPER"}
    BY <1>6 DEF ParsedNode
  <2>2. DOMAIN values = 1..Len(n.args) /\ Len(n.args) \in Nat
    BY <2>1
  <2>3. \A j \in 1..Len(n.args) : values[j] \in Computed
    BY <2>1
  <2>4. values # <<>> => Len(n.args) # 0
    BY <2>1
  <2>5. Applied(n.name, values) \in Computed
    <3> HIDE DEF values
    <3> QED BY <2>1, <2>2, <2>3, <2>4, AppliedType
  <2> QED BY <1>6, <2>5 DEF NodeValue
<1>7. CASE n.kind \in {"attribute", "column", "time_bucket", "aggregate", "case"}
  BY <1>7 DEF NodeValue, Computed
<1> QED BY <1>1, <1>2, <1>3, <1>4, <1>5, <1>6, <1>7 DEF ParsedNode

\* A node reads the nodes before it only.
LEMMA NodeCongruence ==
  ASSUME NEW n, NEW k \in Nat, ParsedNode(n, k), NEW f, NEW g, \A j \in 1..k - 1 : f[j] = g[j],
         NEW inputs, NEW outputs
  PROVE  NodeValue(n, f, inputs, outputs) = NodeValue(n, g, inputs, outputs)
<1>1. CASE n.kind = "function"
  <2>1. \A j \in DOMAIN n.args : n.args[j] \in 1..k - 1
    BY <1>1 DEF ParsedNode
  <2>2. [j \in DOMAIN n.args |-> f[n.args[j]]] = [j \in DOMAIN n.args |-> g[n.args[j]]]
    BY <2>1
  <2> QED BY <1>1, <2>2 DEF NodeValue
<1>2. CASE n.kind \in {"literal", "node_output", "output", "unary", "binary"}
  BY <1>2 DEF NodeValue, ParsedNode
<1>3. CASE n.kind \in {"attribute", "column", "time_bucket", "aggregate", "case"}
  BY <1>3 DEF NodeValue
<1> QED BY <1>1, <1>2, <1>3 DEF ParsedNode

Evaluable(e, inputs) ==
  IsSeq(e) /\ e # <<>> /\ \A j \in DOMAIN e : ParsedNode(e[j], j) /\ Reads(e[j], inputs)

\* The recursion along an expression has a solution.
LEMMA ExpressionSolved ==
  ASSUME NEW e, IsSeq(e), \A j \in DOMAIN e : ParsedNode(e[j], j), NEW inputs, NEW outputs
  PROVE  \E f : f = [k \in DOMAIN e |-> NodeValue(e[k], f, inputs, outputs)]
<1> DEFINE Good == {n \in 0..Len(e) : \E f : \A k \in 1..n : f[k] = NodeValue(e[k], f, inputs, outputs)}
<1>1. Len(e) \in Nat /\ DOMAIN e = 1..Len(e)
  BY SeqDomain
<1>2. 0 \in Good
  BY <1>1
<1>3. ASSUME NEW n \in 0..Len(e) - 1, n \in Good PROVE n + 1 \in Good
  <2>1. PICK f : \A k \in 1..n : f[k] = NodeValue(e[k], f, inputs, outputs)
    BY <1>3
  <2> DEFINE g == [k \in 1..n + 1 |-> IF k = n + 1 THEN NodeValue(e[k], f, inputs, outputs) ELSE f[k]]
  <2>2. n \in Nat /\ n + 1 \in 0..Len(e)
    BY <1>1
  <2>3. \A k \in 1..n : g[k] = f[k]
    BY <2>2
  <2>4. g[n + 1] = NodeValue(e[n + 1], f, inputs, outputs)
    BY <2>2
  <2> HIDE DEF g
  <2>5. ASSUME NEW k \in 1..n + 1
        PROVE  g[k] = NodeValue(e[k], g, inputs, outputs)
    <3>1. k \in Nat /\ ParsedNode(e[k], k) /\ \A j \in 1..k - 1 : g[j] = f[j]
      BY <1>1, <2>2, <2>3
    <3>2. NodeValue(e[k], g, inputs, outputs) = NodeValue(e[k], f, inputs, outputs)
      BY <3>1, NodeCongruence
    <3> QED BY <2>1, <2>2, <2>3, <2>4, <3>2
  <2> QED BY <2>2, <2>5
<1>4. Len(e) \in Good
  <2> HIDE DEF Good
  <2>1. 0..Len(e) \subseteq Good
    BY <1>1, <1>2, <1>3, UpTo
  <2> QED BY <1>1, <2>1
<1>5. PICK f : \A k \in 1..Len(e) : f[k] = NodeValue(e[k], f, inputs, outputs)
  BY <1>4
<1> DEFINE h == [k \in DOMAIN e |-> f[k]]
<1>6. ASSUME NEW k \in DOMAIN e
      PROVE  NodeValue(e[k], f, inputs, outputs) = NodeValue(e[k], h, inputs, outputs)
  <2>1. k \in Nat /\ ParsedNode(e[k], k) /\ \A j \in 1..k - 1 : f[j] = h[j]
    BY <1>1
  <2> HIDE DEF h
  <2> QED BY <2>1, NodeCongruence
<1>7. \A k \in DOMAIN e : h[k] = NodeValue(e[k], h, inputs, outputs)
  BY <1>1, <1>5, <1>6
<1>8. h = [k \in DOMAIN e |-> h[k]]
  OBVIOUS
<1> HIDE DEF h
<1>9. h = [k \in DOMAIN e |-> NodeValue(e[k], h, inputs, outputs)]
  BY <1>7, <1>8
<1> QED BY <1>9

\* So does an expression, whose function satisfies its equation.
LEMMA EvalType ==
  ASSUME NEW e, NEW inputs, Evaluable(e, inputs), NEW outputs, RowIn(outputs, Computed)
  PROVE  Eval(e, inputs, outputs) \in Computed
<1> DEFINE value == CHOOSE f : f = [k \in DOMAIN e |-> NodeValue(e[k], f, inputs, outputs)]
<1>1. Eval(e, inputs, outputs) = value[Len(e)]
  BY DEF Eval
<1>2. value = [k \in DOMAIN e |-> NodeValue(e[k], value, inputs, outputs)]
  BY ExpressionSolved DEF Evaluable
<1>3. Len(e) \in Nat /\ DOMAIN e = 1..Len(e) /\ Len(e) \in DOMAIN e
  BY SeqDomain DEF Evaluable
<1> HIDE DEF value
<1> DEFINE Good == {n \in 0..Len(e) : \A k \in 1..n : value[k] \in Computed}
<1>4. 0 \in Good
  BY <1>3
<1>5. ASSUME NEW n \in 0..Len(e) - 1, n \in Good PROVE n + 1 \in Good
  <2>1. n + 1 \in DOMAIN e /\ n + 1 \in Nat /\ (n + 1) - 1 = n /\ n + 1 \in 0..Len(e)
    BY <1>3
  <2>2. \A j \in 1..n : value[j] \in Computed
    BY <1>5
  <2>3. ParsedNode(e[n + 1], n + 1) /\ Reads(e[n + 1], inputs)
    BY <2>1 DEF Evaluable
  <2>4. NodeValue(e[n + 1], value, inputs, outputs) \in Computed
    BY <2>1, <2>2, <2>3, NodeType
  <2>5. value[n + 1] \in Computed
    BY <1>2, <2>1, <2>4
  <2> QED BY <2>1, <2>2, <2>5
<1>6. Len(e) \in Good
  <2> HIDE DEF Good
  <2>1. 0..Len(e) \subseteq Good
    BY <1>3, <1>4, <1>5, UpTo
  <2> QED BY <1>3, <2>1
<1> QED BY <1>1, <1>3, <1>6

-----------------------------------------------------------------------------
(* The outputs of a row.                                                    *)

\* An output that has a name has a last one of that name.
LEMMA LastIsNamed ==
  ASSUME NEW t, NEW n \in Nat, NEW f \in {t.outputs[k].name : k \in 1..n}
  PROVE  LastNamed(t, f, n) \in 1..n /\ t.outputs[LastNamed(t, f, n)].name = f
<1> DEFINE S == {j \in 0..n - 1 : t.outputs[n - j].name = f}
<1>1. PICK k \in 1..n : t.outputs[k].name = f
  OBVIOUS
<1>2. n - k \in 0..n - 1 /\ n - (n - k) = k
  OBVIOUS
<1>3. n - k \in S /\ S \in SUBSET Nat
  <2>1. t.outputs[n - (n - k)].name = f
    BY <1>1, <1>2
  <2>2. 0..n - 1 \subseteq Nat
    OBVIOUS
  <2> QED BY <1>2, <2>1, <2>2
<1>4. PICK j \in S : \A l \in S : j <= l
  <2> HIDE DEF S
  <2> QED BY <1>3, Least
<1>5. n - j \in 1..n /\ t.outputs[n - j].name = f
  BY <1>4
<1>6. \A l \in (n - j) + 1..n : t.outputs[l].name # f
  <2> SUFFICES ASSUME NEW l \in (n - j) + 1..n, t.outputs[l].name = f PROVE FALSE
    OBVIOUS
  <2>1. n - l \in 0..n - 1 /\ n - (n - l) = l /\ n - l < j
    BY <1>5
  <2> QED BY <1>4, <2>1
<1> QED BY <1>5, <1>6 DEF LastNamed

LEMMA NamedCongruence ==
  ASSUME NEW t, NEW n \in Nat, NEW f, NEW g, \A k \in 1..n : f[k] = g[k]
  PROVE  NamedValues(t, f, n) = NamedValues(t, g, n)
BY LastIsNamed DEF NamedValues

LEMMA NamedType ==
  ASSUME NEW t, NEW n \in Nat, NEW f, NEW S, \A k \in 1..n : f[k] \in S
  PROVE  RowIn(NamedValues(t, f, n), S)
BY LastIsNamed DEF NamedValues, RowIn

\* What the expressions of a calculation need of the rows of its inputs.
EvaluableBy(t, inputs) == \A k \in DOMAIN t.outputs : Evaluable(t.outputs[k].expression, inputs)

\* The outputs of a row satisfy their equations, each with the ones before it.
LEMMA OutputsSolved ==
  ASSUME NEW t, IsSeq(t.outputs), NEW inputs
  PROVE  \E f : f = [k \in DOMAIN t.outputs |->
                       Eval(t.outputs[k].expression, inputs, NamedValues(t, f, k - 1))]
<1> DEFINE e(k) == t.outputs[k].expression
           N == Len(t.outputs)
           Good == {n \in 0..N : \E f : \A k \in 1..n : f[k] = Eval(e(k), inputs, NamedValues(t, f, k - 1))}
<1>1. N \in Nat /\ DOMAIN t.outputs = 1..N
  BY SeqDomain
<1> HIDE DEF N, e
<1>2. 0 \in Good
  BY <1>1
<1>3. ASSUME NEW n \in 0..N - 1, n \in Good PROVE n + 1 \in Good
  <2>1. PICK f : \A k \in 1..n : f[k] = Eval(e(k), inputs, NamedValues(t, f, k - 1))
    BY <1>3
  <2> DEFINE g == [k \in 1..n + 1 |-> IF k = n + 1 THEN Eval(e(k), inputs, NamedValues(t, f, k - 1)) ELSE f[k]]
  <2>2. n \in Nat /\ n + 1 \in 0..N
    BY <1>1
  <2>3. \A k \in 1..n : g[k] = f[k]
    BY <2>2
  <2>4. g[n + 1] = Eval(e(n + 1), inputs, NamedValues(t, f, (n + 1) - 1))
    BY <2>2
  <2> HIDE DEF g
  <2>5. ASSUME NEW k \in 1..n + 1
        PROVE  g[k] = Eval(e(k), inputs, NamedValues(t, g, k - 1))
    <3>1. k - 1 \in Nat /\ \A j \in 1..k - 1 : g[j] = f[j]
      BY <2>2, <2>3
    <3>2. NamedValues(t, g, k - 1) = NamedValues(t, f, k - 1)
      BY <3>1, NamedCongruence
    <3> QED BY <2>1, <2>2, <2>3, <2>4, <3>2
  <2> QED BY <2>2, <2>5
<1>4. N \in Good
  <2> HIDE DEF Good
  <2>1. 0..N \subseteq Good
    BY <1>1, <1>2, <1>3, UpTo
  <2> QED BY <1>1, <2>1
<1>5. PICK f : \A k \in 1..N : f[k] = Eval(e(k), inputs, NamedValues(t, f, k - 1))
  BY <1>4
<1> DEFINE h == [k \in DOMAIN t.outputs |-> f[k]]
<1>6. ASSUME NEW k \in DOMAIN t.outputs
      PROVE  NamedValues(t, f, k - 1) = NamedValues(t, h, k - 1)
  <2>1. k - 1 \in Nat /\ \A j \in 1..k - 1 : f[j] = h[j]
    BY <1>1
  <2> HIDE DEF h
  <2> QED BY <2>1, NamedCongruence
<1>7. \A k \in DOMAIN t.outputs : h[k] = Eval(e(k), inputs, NamedValues(t, h, k - 1))
  BY <1>1, <1>5, <1>6
<1>8. h = [k \in DOMAIN t.outputs |-> h[k]]
  OBVIOUS
<1> HIDE DEF h
<1>9. h = [k \in DOMAIN t.outputs |-> Eval(e(k), inputs, NamedValues(t, h, k - 1))]
  BY <1>7, <1>8
<1> QED BY <1>9 DEF e

LEMMA OutputsType ==
  ASSUME NEW t, IsSeq(t.outputs), NEW inputs, EvaluableBy(t, inputs)
  PROVE  \A k \in DOMAIN t.outputs : OutputValues(t, inputs)[k] \in Computed
<1> DEFINE value == CHOOSE f : f = [k \in DOMAIN t.outputs |->
                       Eval(t.outputs[k].expression, inputs, NamedValues(t, f, k - 1))]
           N == Len(t.outputs)
<1>1. OutputValues(t, inputs) = value
  BY DEF OutputValues
<1>2. value = [k \in DOMAIN t.outputs |->
                 Eval(t.outputs[k].expression, inputs, NamedValues(t, value, k - 1))]
  BY OutputsSolved
<1>3. N \in Nat /\ DOMAIN t.outputs = 1..N
  BY SeqDomain
<1> HIDE DEF value, N
<1> DEFINE Good == {n \in 0..N : \A k \in 1..n : value[k] \in Computed}
<1>4. 0 \in Good
  BY <1>3
<1>5. ASSUME NEW n \in 0..N - 1, n \in Good PROVE n + 1 \in Good
  <2>1. n + 1 \in DOMAIN t.outputs /\ n \in Nat /\ (n + 1) - 1 = n /\ n + 1 \in 0..N
    BY <1>3
  <2>2. \A j \in 1..n : value[j] \in Computed
    BY <1>5
  <2>3. RowIn(NamedValues(t, value, n), Computed)
    BY <2>1, <2>2, NamedType
  <2>4. Eval(t.outputs[n + 1].expression, inputs, NamedValues(t, value, n)) \in Computed
    BY <2>1, <2>3, EvalType DEF EvaluableBy
  <2>5. value[n + 1] \in Computed
    BY <1>2, <2>1, <2>4
  <2> QED BY <2>1, <2>2, <2>5
<1>6. N \in Good
  <2> HIDE DEF Good
  <2>1. 0..N \subseteq Good
    BY <1>3, <1>4, <1>5, UpTo
  <2> QED BY <1>3, <2>1
<1> QED BY <1>1, <1>3, <1>6

-----------------------------------------------------------------------------
(* The rows of a task and the keys of a calculation                         *)

-----------------------------------------------------------------------------
(* The orders of keys and rows.                                             *)

LEMMA TextOrder ==
  /\ \A v \in Values : ~TextBefore(v, v)
  /\ \A u, v, w \in Values : TextBefore(u, v) /\ TextBefore(v, w) => TextBefore(u, w)
  /\ \A v, w \in Values : v # w => TextBefore(v, w) \/ TextBefore(w, v)
BY DEF TextBefore, Values

\* Keys of one length are totally ordered.
LEMMA KeysOrdered ==
  ASSUME NEW m \in Nat, NEW K \in SUBSET [1..m -> Values]
  PROVE  Orders(KeyOrder(K), K)
<1>1. \A x, y \in K : <<x, y>> \in KeyOrder(K) <=> KeyBefore(x, y)
  BY DEF KeyOrder
<1>2. \A x \in K : DOMAIN x = 1..m /\ \A k \in 1..m : x[k] \in Values
  OBVIOUS
<1>3. \A x \in K : ~KeyBefore(x, x)
  BY <1>2, TextOrder DEF KeyBefore
<1>4. ASSUME NEW x \in K, NEW y \in K, NEW z \in K, KeyBefore(x, y), KeyBefore(y, z)
      PROVE  KeyBefore(x, z)
  <2>1. PICK k \in 1..m : TextBefore(x[k], y[k]) /\ \A j \in 1..k - 1 : x[j] = y[j]
    BY <1>2, <1>4 DEF KeyBefore
  <2>2. PICK l \in 1..m : TextBefore(y[l], z[l]) /\ \A j \in 1..l - 1 : y[j] = z[j]
    BY <1>2, <1>4 DEF KeyBefore
  <2>3. CASE k < l
    <3>1. k \in 1..l - 1 /\ 1..k - 1 \subseteq 1..l - 1
      BY <2>3
    <3>2. TextBefore(x[k], z[k]) /\ \A j \in 1..k - 1 : x[j] = z[j]
      BY <2>1, <2>2, <3>1
    <3> QED BY <1>2, <3>2 DEF KeyBefore
  <2>4. CASE l < k
    <3>1. l \in 1..k - 1 /\ 1..l - 1 \subseteq 1..k - 1
      BY <2>4
    <3>2. TextBefore(x[l], z[l]) /\ \A j \in 1..l - 1 : x[j] = z[j]
      BY <2>1, <2>2, <3>1
    <3> QED BY <1>2, <3>2 DEF KeyBefore
  <2>5. CASE k = l
    <3>1. TextBefore(x[k], z[k])
      BY <1>2, <2>1, <2>2, <2>5, TextOrder
    <3>2. \A j \in 1..k - 1 : x[j] = z[j]
      BY <2>1, <2>2, <2>5
    <3> QED BY <1>2, <3>1, <3>2 DEF KeyBefore
  <2> QED BY <2>3, <2>4, <2>5
<1>5. ASSUME NEW x \in K, NEW y \in K, x # y
      PROVE  KeyBefore(x, y) \/ KeyBefore(y, x)
  <2> DEFINE D == {j \in 1..m : x[j] # y[j]}
  <2>1. D \in SUBSET Nat
    OBVIOUS
  <2>a. D # {}
    <3>1. x = [j \in 1..m |-> x[j]] /\ y = [j \in 1..m |-> y[j]]
      OBVIOUS
    <3> QED BY <1>5, <3>1
  <2>2. PICK k \in D : \A j \in D : k <= j
    <3> HIDE DEF D
    <3> QED BY <2>1, <2>a, Least
  <2>3. k \in 1..m /\ \A j \in 1..k - 1 : x[j] = y[j]
    BY <2>2
  <2>4. TextBefore(x[k], y[k]) \/ TextBefore(y[k], x[k])
    BY <1>2, <2>2, TextOrder
  <2> QED BY <1>2, <2>3, <2>4 DEF KeyBefore
<1> QED BY <1>1, <1>3, <1>4, <1>5 DEF Orders

LEMMA PairOrder ==
  /\ \A x \in Int \X Int : ~Smaller(x, x)
  /\ \A x, y, z \in Int \X Int : Smaller(x, y) /\ Smaller(y, z) => Smaller(x, z)
  /\ \A x, y \in Int \X Int : x # y => Smaller(x, y) \/ Smaller(y, x)
BY DEF Smaller

\* The order of a stable sort is total, in both directions.
LEMMA RowsOrdered ==
  ASSUME NEW t, NEW rows, NEW n \in Nat, DOMAIN rows = 1..n,
         \A p \in 1..n : rows[p][t.selection.field] \in Values
  PROVE  Orders(RowOrder(t, rows), 1..n)
<1> DEFINE v(p) == SortValue(rows[p][t.selection.field], Reverse(t))
<1>1. \A p \in 1..n : v(p) \in Int \X Int
  BY DEF SortValue, Values
<1>2. \A p, q \in 1..n : <<p, q>> \in RowOrder(t, rows) <=>
        (IF Reverse(t) THEN Smaller(v(q), v(p)) ELSE Smaller(v(p), v(q))) \/ (v(p) = v(q) /\ p < q)
  BY DEF RowOrder, RowBefore
<1> HIDE DEF v
<1>3. \A p \in 1..n : <<p, p>> \notin RowOrder(t, rows)
  BY <1>1, <1>2, PairOrder
<1>4. ASSUME NEW p \in 1..n, NEW q \in 1..n, NEW r \in 1..n,
             <<p, q>> \in RowOrder(t, rows), <<q, r>> \in RowOrder(t, rows)
      PROVE  <<p, r>> \in RowOrder(t, rows)
  <2>1. v(p) \in Int \X Int /\ v(q) \in Int \X Int /\ v(r) \in Int \X Int
    BY <1>1
  <2>2. p < q /\ q < r => p < r
    OBVIOUS
  <2>3. CASE Reverse(t)
    BY <1>2, <1>4, <2>1, <2>2, <2>3, PairOrder
  <2>4. CASE ~Reverse(t)
    BY <1>2, <1>4, <2>1, <2>2, <2>4, PairOrder
  <2> QED BY <2>3, <2>4
<1>5. ASSUME NEW p \in 1..n, NEW q \in 1..n, p # q
      PROVE  <<p, q>> \in RowOrder(t, rows) \/ <<q, p>> \in RowOrder(t, rows)
  <2>1. p < q \/ q < p
    BY <1>5
  <2> QED BY <1>1, <1>2, <2>1, PairOrder
<1> QED BY <1>3, <1>4, <1>5 DEF Orders

-----------------------------------------------------------------------------
(* The rows of a calculation.                                               *)

\* The rows of a result are a sequence, those of a contract have values, and
\* where contracts declare what arrives the declared fields are there, but of
\* pages.
RowsFit(i, rows) ==
  /\ Len(rows) \in Nat /\ DOMAIN rows = 1..Len(rows)
  /\ i \in Contracted => \A k \in DOMAIN rows : RowIn(rows[k], Values)
  /\ Honest /\ graph[i].op \notin Webs =>
       \A k \in DOMAIN rows : OutputFields(graph[i]) \subseteq DOMAIN rows[k]

RowsInv == \A i \in Done : RowsFit(i, results[i].rows)

\* An input of a calculation that is run.
Calculates(i) == RunInv /\ RowsInv /\ stage = "run" /\ i \in Of("CALCULATE")

\* The rows of an input of a calculation have values.
LEMMA InputData ==
  ASSUME NEW i, Calculates(i), NEW r \in Inputs(graph[i])
  PROVE  /\ Len(Dataset(r)) \in Nat /\ DOMAIN Dataset(r) = 1..Len(Dataset(r))
         /\ Dataset(r) # <<>> => Len(Dataset(r)) # 0
         /\ \A k \in DOMAIN Dataset(r) : RowIn(Dataset(r)[k], Values)
<1>1. Place(r.node) \in Contracted
  BY DEF Calculates, RunInv, CalculateValid
<1>2. CASE Place(r.node) \in Done
  BY <1>1, <1>2 DEF Calculates, RowsInv, RowsFit, Dataset
<1>3. CASE Place(r.node) \notin Done
  BY <1>3 DEF Dataset
<1> QED BY <1>2, <1>3

\* What the types and the checks say of a calculation that runs.
LEMMA CalculationParsed ==
  ASSUME NEW i, Calculates(i)
  PROVE  LET t == graph[i] IN
         /\ IsSeq(t.inputs) /\ ParsedSpec(t) /\ t.inputs # <<>> /\ t.inputs[1] \in Inputs(t)
         /\ IsFiniteSet(Inputs(t)) /\ Selects(t)
<1> DEFINE t == graph[i]
<1>1. graph \in TaskGraphs /\ i \in DOMAIN graph /\ t.op = "CALCULATE" /\ Inputs(t) # {} /\ Selects(t)
  BY DEF Calculates, RunInv, CalculateValid, Of, Tasks
<1>2. Parsed(t)
  BY <1>1, GraphsParsed
<1>3. IsSeq(t.inputs) /\ ParsedSpec(t)
  BY <1>1, <1>2 DEF Parsed
<1>4. Len(t.inputs) \in Nat /\ DOMAIN t.inputs = 1..Len(t.inputs)
  BY <1>3, SeqDomain
<1>5. 1 \in DOMAIN t.inputs /\ t.inputs # <<>>
  BY <1>1, <1>4 DEF Inputs
<1>6. IsFiniteSet(Inputs(t))
  <2> DEFINE s == t.inputs
  <2>1. Len(s) \in Nat /\ DOMAIN s = 1..Len(s) /\ Inputs(t) = {s[k] : k \in DOMAIN s}
    BY <1>4 DEF Inputs
  <2> HIDE DEF s
  <2> QED BY <2>1, FinitelyMany
<1>7. t.inputs[1] \in Inputs(t)
  BY <1>5 DEF Inputs
<1> QED BY <1>1, <1>3, <1>5, <1>6, <1>7

\* Keys have values.
LEMMA KeysTyped ==
  ASSUME NEW i, Calculates(i), NEW r \in Inputs(graph[i])
  PROVE  LET keys == graph[i].keys IN
         /\ KeysOf(r, keys) \in SUBSET [1..Len(keys) -> Values] /\ IsFiniteSet(KeysOf(r, keys))
<1> DEFINE keys == graph[i].keys
           rows == Dataset(r)
<1>1. keys \in Seq(STRING)
  BY CalculationParsed DEF ParsedSpec
<1>2. Len(keys) \in Nat /\ DOMAIN keys = 1..Len(keys)
  BY <1>1
<1>3. Len(rows) \in Nat /\ DOMAIN rows = 1..Len(rows) /\ \A k \in DOMAIN rows : RowIn(rows[k], Values)
  BY InputData
<1> HIDE DEF keys, rows
<1>4. \A k \in DOMAIN rows : KeyOf(rows[k], keys) \in [1..Len(keys) -> Values]
  BY <1>2, <1>3 DEF KeyOf, At, RowIn, Values
<1>5. KeysOf(r, keys) = {KeyOf(rows[k], keys) : k \in DOMAIN rows}
  BY DEF KeysOf, rows
<1>6. IsFiniteSet(KeysOf(r, keys))
  <2>1. IsFiniteSet(DOMAIN rows)
    BY <1>3, FS_Interval
  <2> DEFINE f == [k \in DOMAIN rows |-> KeyOf(rows[k], keys)]
  <2>2. f \in Surjection(DOMAIN rows, KeysOf(r, keys))
    BY <1>5 DEF Surjection
  <2> HIDE DEF f
  <2> QED BY <2>1, <2>2, FS_Surjection
<1> QED BY <1>4, <1>5, <1>6 DEF keys

LEMMA DomainTyped ==
  ASSUME NEW i, Calculates(i)
  PROVE  LET t == graph[i] IN
         Domain(t) \in SUBSET [1..Len(t.keys) -> Values] /\ IsFiniteSet(Domain(t))
<1> DEFINE t == graph[i]
           K == [1..Len(t.keys) -> Values]
           all == {KeysOf(r, t.keys) : r \in Inputs(t)}
<1>1. t.domain \in {"INNER", "LEFT", "OUTER"} /\ t.inputs[1] \in Inputs(t) /\ IsFiniteSet(Inputs(t))
  BY CalculationParsed DEF ParsedSpec
<1>2. \A k \in all : k \in SUBSET K /\ IsFiniteSet(k)
  BY KeysTyped
<1>3. IsFiniteSet(all)
  <2> DEFINE f == [r \in Inputs(t) |-> KeysOf(r, t.keys)]
  <2>1. f \in Surjection(Inputs(t), all)
    BY DEF Surjection
  <2> HIDE DEF f, all
  <2> QED BY <1>1, <2>1, FS_Surjection
<1>4. UNION all \in SUBSET K /\ IsFiniteSet(UNION all)
  <2> HIDE DEF all
  <2> QED BY <1>2, <1>3, FS_UNION
<1>5. Domain(t) \subseteq UNION all
  <2>1. KeysOf(t.inputs[1], t.keys) \subseteq UNION all
    BY <1>1
  <2>2. UNION {KeysOf(r, t.keys) : r \in Inputs(t)} = UNION all
    OBVIOUS
  <2> HIDE DEF all, t
  <2> QED BY <1>1, <2>1, <2>2 DEF Domain
<1> HIDE DEF all, K, t
<1> QED BY <1>4, <1>5, FS_Subset DEF t, K

\* A calculation goes once through the keys of its domain.
LEMMA AlignTyped ==
  ASSUME NEW i, Calculates(i)
  PROVE  LET t == graph[i] IN
         /\ Len(Align(t)) \in Nat /\ DOMAIN Align(t) = 1..Len(Align(t))
         /\ \A p \in DOMAIN Align(t) : Align(t)[p] \in [1..Len(t.keys) -> Values]
         /\ t.keys # <<>> => /\ Len(Align(t)) = Cardinality(Domain(t))
                             /\ \A key \in Domain(t) : \E p \in DOMAIN Align(t) : Align(t)[p] = key
                             /\ \A p \in DOMAIN Align(t) : Align(t)[p] \in Domain(t)
<1> DEFINE t == graph[i]
           S == Domain(t)
           K == [1..Len(t.keys) -> Values]
<1>1. t.keys \in Seq(STRING) /\ Len(t.keys) \in Nat
  BY CalculationParsed DEF ParsedSpec
<1>2. CASE t.keys = <<>>
  <2>1. Align(t) = << <<>> >>
    BY <1>2 DEF Align
  <2>2. Len(t.keys) = 0
    BY <1>2
  <2>3. <<>> \in [1..Len(t.keys) -> Values]
    BY <2>2
  <2>4. Len(Align(t)) = 1 /\ DOMAIN Align(t) = 1..1 /\ Align(t)[1] = <<>>
    BY <2>1
  <2>5. \A p \in DOMAIN Align(t) : Align(t)[p] = <<>>
    BY <2>4
  <2>6. \A p \in DOMAIN Align(t) : Align(t)[p] \in [1..Len(t.keys) -> Values]
    BY <2>3, <2>5
  <2>7. Len(Align(t)) \in Nat /\ DOMAIN Align(t) = 1..Len(Align(t))
    BY <2>4
  <2> HIDE DEF t
  <2> QED BY <1>2, <2>6, <2>7 DEF t
<1>3. CASE t.keys # <<>>
  <2>1. Align(t) = Sorted(S, KeyOrder(S))
    BY <1>3 DEF Align
  <2>2. S \in SUBSET K /\ IsFiniteSet(S)
    BY DomainTyped
  <2> HIDE DEF S
  <2>3. Orders(KeyOrder(S), S)
    BY <1>1, <2>2, KeysOrdered
  <2> DEFINE o == KeyOrder(S)
             s == Sorted(S, o)
  <2> HIDE DEF o
  <2>4. Orders(o, S)
    BY <2>3 DEF o
  <2>5. Lists(s, o, S)
    BY <2>2, <2>4, SortedLists
  <2>7. Align(t) = s
    BY <2>1 DEF o
  <2> HIDE DEF t, s
  <2> QED BY <2>2, <2>5, <2>7 DEF S, t, Lists
<1> QED BY <1>2, <1>3

-----------------------------------------------------------------------------
(* The rows of a calculation, all of them or the selected                   *)

\* A non-empty set of positions has a last one.
LEMMA Greatest ==
  ASSUME NEW n \in Nat, NEW S \in SUBSET (1..n), S # {}
  PROVE  \E k \in S : \A j \in S : j <= k
<1> DEFINE D == {j \in 0..n - 1 : n - j \in S}
<1>1. PICK k \in S : TRUE
  OBVIOUS
<1>2. n - k \in 0..n - 1 /\ n - (n - k) = k
  OBVIOUS
<1>3. D # {} /\ D \in SUBSET Nat
  <2>1. n - k \in D
    BY <1>1, <1>2
  <2>2. 0..n - 1 \subseteq Nat
    OBVIOUS
  <2> QED BY <2>1, <2>2
<1>4. PICK d \in D : \A j \in D : d <= j
  <2> HIDE DEF D
  <2> QED BY <1>3, Least
<1>5. \A j \in S : j <= n - d
  <2> SUFFICES ASSUME NEW j \in S PROVE j <= n - d
    OBVIOUS
  <2>1. n - j \in 0..n - 1 /\ n - (n - j) = j
    OBVIOUS
  <2>2. d <= n - j
    BY <1>4, <2>1
  <2> QED BY <1>4, <2>1, <2>2
<1> QED BY <1>4, <1>5

\* The last row with a key, or none.
LEMMA IndexedRow ==
  ASSUME NEW i, Calculates(i), NEW r \in Inputs(graph[i]), NEW key, NEW keys
  PROVE  LET rows == Dataset(r) IN
         \/ Indexed(r, key, keys) = <<>> /\ \A k \in DOMAIN rows : KeyOf(rows[k], keys) # key
         \/ \E k \in DOMAIN rows : Indexed(r, key, keys) = rows[k] /\ KeyOf(rows[k], keys) = key
<1> DEFINE rows == Dataset(r)
           hits == {k \in DOMAIN rows : KeyOf(rows[k], keys) = key}
<1>1. Len(rows) \in Nat /\ DOMAIN rows = 1..Len(rows)
  BY InputData
<1>2. Indexed(r, key, keys) = IF hits = {} THEN <<>> ELSE rows[CHOOSE k \in hits : \A j \in hits : j <= k]
  BY DEF Indexed
<1>3. hits # {} => \E k \in hits : \A j \in hits : j <= k
  <2>1. hits \in SUBSET (1..Len(rows))
    BY <1>1
  <2> HIDE DEF hits
  <2> QED BY <1>1, <2>1, Greatest
<1>4. hits # {} => (CHOOSE k \in hits : \A j \in hits : j <= k) \in hits
  <2> HIDE DEF hits
  <2> QED BY <1>3
<1> QED BY <1>2, <1>4

LEMMA InputsByAlias ==
  ASSUME NEW t, NEW a \in Aliases(t)
  PROVE  InputOf(t, a) \in Inputs(t) /\ InputOf(t, a).alias = a
BY DEF Aliases, InputOf

LEMMA InputRowsTyped ==
  ASSUME NEW i, Calculates(i), NEW key, NEW a \in Aliases(graph[i])
  PROVE  RowIn(InputRows(graph[i], key)[a], Values)
<1> DEFINE t == graph[i]
           r == InputOf(t, a)
<1>1. r \in Inputs(t)
  BY InputsByAlias
<1>2. /\ Len(Dataset(r)) \in Nat /\ DOMAIN Dataset(r) = 1..Len(Dataset(r))
      /\ Dataset(r) # <<>> => Len(Dataset(r)) # 0
      /\ \A k \in DOMAIN Dataset(r) : RowIn(Dataset(r)[k], Values)
  BY <1>1, InputData
<1>3. RowIn(<<>>, Values)
  BY DEF RowIn
<1>4. InputRows(t, key)[a] = IF t.keys # <<>> THEN Indexed(r, key, t.keys)
                             ELSE IF Dataset(r) = <<>> THEN <<>> ELSE Dataset(r)[1]
  BY DEF InputRows
<1>5. RowIn(Indexed(r, key, t.keys), Values)
  BY <1>1, <1>2, <1>3, IndexedRow
<1>6. Dataset(r) # <<>> => RowIn(Dataset(r)[1], Values)
  BY <1>2
<1> HIDE DEF r, t
<1> QED BY <1>3, <1>4, <1>5, <1>6 DEF t

LEMMA InputsReadable ==
  ASSUME NEW i, Calculates(i), NEW key
  PROVE  IsSeq(graph[i].outputs) /\ EvaluableBy(graph[i], InputRows(graph[i], key))
<1> DEFINE t == graph[i]
           inputs == InputRows(t, key)
<1>1. /\ IsSeq(t.outputs)
      /\ \A k \in DOMAIN t.outputs : LET e == t.outputs[k].expression IN
            IsSeq(e) /\ e # <<>> /\ \A j \in DOMAIN e : ParsedNode(e[j], j)
  BY CalculationParsed DEF ParsedSpec
<1>2. ASSUME NEW k \in DOMAIN t.outputs, NEW j \in DOMAIN t.outputs[k].expression
      PROVE  Reads(t.outputs[k].expression[j], inputs)
  <2> DEFINE n == t.outputs[k].expression[j]
  <2> SUFFICES ASSUME n.kind = "node_output" PROVE RowIn(inputs[n.input], Values)
    BY DEF Reads
  <2>1. n \in Refs(t.outputs[k].expression)
    BY DEF Refs
  <2>2. PICK r \in Inputs(t) : r.alias = n.input
    BY <2>1 DEF Calculates, RunInv, CalculateValid
  <2>3. n.input \in Aliases(t)
    BY <2>2 DEF Aliases
  <2> QED BY <2>3, InputRowsTyped
<1> QED BY <1>1, <1>2 DEF EvaluableBy, Evaluable

KeyNames(t) == {t.keys[k] : k \in DOMAIN t.keys}

\* A row of a calculation has the keys and outputs as fields, and values.
LEMMA CalculatedTyped ==
  ASSUME NEW i, Calculates(i), ~Raises(graph[i]), NEW p \in DOMAIN Align(graph[i])
  PROVE  LET t == graph[i]
             record == Calculated(t, Align(t)[p])
         IN  DOMAIN record = KeyNames(t) \cup Names(t) /\ RowIn(record, Values)
<1> DEFINE t == graph[i]
           key == Align(t)[p]
           inputs == InputRows(t, key)
           outputs == Outputs(t, inputs)
           record == Calculated(t, key)
<1>1. IsSeq(t.outputs) /\ EvaluableBy(t, inputs)
  BY InputsReadable
<1>2. Len(t.outputs) \in Nat /\ DOMAIN t.outputs = 1..Len(t.outputs)
  BY <1>1, SeqDomain
<1>3. \A k \in 1..Len(t.outputs) : OutputValues(t, inputs)[k] \in Values
  <2>1. \A k \in DOMAIN t.outputs : OutputValues(t, inputs)[k] \in Computed
    BY <1>1, OutputsType
  <2>2. \A k \in DOMAIN t.outputs : OutputValues(t, inputs)[k] # Raised
    BY DEF Raises
  <2> QED BY <1>2, <2>1, <2>2 DEF Computed
<1>4. RowIn(outputs, Values)
  <2> HIDE DEF inputs, t
  <2> QED BY <1>2, <1>3, NamedType DEF Outputs
<1>5. DOMAIN outputs = Names(t)
  BY <1>2 DEF Outputs, NamedValues, Names
<1>6. key \in [1..Len(t.keys) -> Values] /\ DOMAIN t.keys = 1..Len(t.keys)
  <2>1. t.keys \in Seq(STRING)
    BY CalculationParsed DEF ParsedSpec
  <2> QED BY <2>1, AlignTyped
<1>7. record = [f \in KeyNames(t) \cup Names(t) |->
               IF f \in Names(t) THEN outputs[f] ELSE key[CHOOSE k \in DOMAIN t.keys : t.keys[k] = f]]
  BY DEF Calculated, KeyNames
<1>8. \A f \in KeyNames(t) : key[CHOOSE k \in DOMAIN t.keys : t.keys[k] = f] \in Values
  <2> HIDE DEF t, key
  <2> QED BY <1>6 DEF KeyNames
<1> HIDE DEF t, key, outputs, record
<1>9. DOMAIN record = KeyNames(t) \cup Names(t) /\ RowIn(record, Values)
  BY <1>4, <1>5, <1>7, <1>8 DEF RowIn
<1> QED BY <1>9 DEF t, key, record

\* The rows of a calculation, before the selection.
LEMMA RowsTyped ==
  ASSUME NEW i, Calculates(i), ~Raises(graph[i])
  PROVE  LET t == graph[i]
             rows == CalculatedRows(t)
         IN  /\ Len(rows) \in Nat /\ DOMAIN rows = 1..Len(rows) /\ Len(rows) = Len(Align(t))
             /\ \A p \in DOMAIN rows : /\ rows[p] = Calculated(t, Align(t)[p])
                                       /\ DOMAIN rows[p] = KeyNames(t) \cup Names(t)
                                       /\ RowIn(rows[p], Values)
<1> DEFINE t == graph[i]
           rows == CalculatedRows(t)
           n == Len(Align(t))
           c(p) == Calculated(t, Align(t)[p])
<1>1. n \in Nat /\ DOMAIN Align(t) = 1..n
  BY AlignTyped
<1>2. rows = [p \in 1..n |-> c(p)]
  BY <1>1 DEF CalculatedRows
<1>3. Len(rows) = n /\ DOMAIN rows = 1..n
  <2> HIDE DEF rows, c, n
  <2> QED BY <1>1, <1>2
<1>4. \A p \in 1..n : rows[p] = c(p) /\ DOMAIN c(p) = KeyNames(t) \cup Names(t) /\ RowIn(c(p), Values)
  <2>1. \A p \in 1..n : DOMAIN c(p) = KeyNames(t) \cup Names(t) /\ RowIn(c(p), Values)
    BY <1>1, CalculatedTyped
  <2> HIDE DEF rows, c, n
  <2> QED BY <1>2, <2>1
<1> HIDE DEF rows, n, t
<1> QED BY <1>1, <1>3, <1>4 DEF rows, n, t

Kept(t, rows) == IF t.selection.take < Len(rows) THEN t.selection.take ELSE Len(rows)

\* The first of n rows, in their order.
FirstOf(kept, t, rows, n) ==
  LET s == Sorted(1..n, RowOrder(t, rows)) IN
  /\ Lists(s, RowOrder(t, rows), 1..n) /\ Cardinality(1..n) = n
  /\ Kept(t, rows) \in 0..n /\ DOMAIN kept = 1..Kept(t, rows) /\ Len(kept) = Kept(t, rows)
  /\ \A p \in 1..Kept(t, rows) : p \in 1..n /\ s[p] \in 1..n /\ kept[p] = rows[s[p]]

\* A selection is the first of the rows, in their order.
LEMMA Selected ==
  ASSUME NEW t, t.selection.take \in Nat, NEW rows, NEW n \in Nat, DOMAIN rows = 1..n, Len(rows) = n,
         \A p \in 1..n : rows[p][t.selection.field] \in Values
  PROVE  FirstOf(SelectRows(t, rows), t, rows, n)
<1> DEFINE order == RowOrder(t, rows)
           s == Sorted(1..n, order)
           m == Kept(t, rows)
           kept == SelectRows(t, rows)
<1>1. IsFiniteSet(1..n) /\ Cardinality(1..n) = n
  BY FS_Interval
<1>2. Orders(order, 1..n)
  BY RowsOrdered
<1>3. Lists(s, order, 1..n)
  <2> HIDE DEF order
  <2> QED BY <1>1, <1>2, SortedLists
<1>4. m \in 0..n
  BY DEF Kept
<1>5. kept = [p \in 1..m |-> rows[s[p]]]
  BY DEF SelectRows, Kept
<1>6. \A p \in 1..n : s[p] \in 1..n
  <2> HIDE DEF s, order
  <2> QED BY <1>1, <1>3 DEF Lists
<1> HIDE DEF order, s, m, kept
<1>7. Len(kept) = m /\ DOMAIN kept = 1..m
  BY <1>4, <1>5
<1>8. \A p \in 1..m : p \in 1..n /\ s[p] \in 1..n /\ kept[p] = rows[s[p]]
  BY <1>4, <1>5, <1>6
<1> QED BY <1>1, <1>3, <1>4, <1>7, <1>8 DEF order, s, m, kept, FirstOf

\* What a calculation that succeeds gives.
Result(i) ==
  IF graph[i].selection = None THEN CalculatedRows(graph[i])
  ELSE SelectRows(graph[i], CalculatedRows(graph[i]))

LEMMA ResultTyped ==
  ASSUME NEW i, Calculates(i), ~Raises(graph[i])
  PROVE  LET rows == Result(i) IN
         /\ Len(rows) \in Nat /\ DOMAIN rows = 1..Len(rows)
         /\ \A p \in DOMAIN rows : /\ DOMAIN rows[p] = KeyNames(graph[i]) \cup Names(graph[i])
                                   /\ RowIn(rows[p], Values)
<1> DEFINE t == graph[i]
           all == CalculatedRows(t)
           n == Len(all)
<1>1. /\ n \in Nat /\ DOMAIN all = 1..n
      /\ \A p \in 1..n : DOMAIN all[p] = KeyNames(t) \cup Names(t) /\ RowIn(all[p], Values)
  BY RowsTyped
<1>2. CASE t.selection = None
  <2>1. Result(i) = all
    BY <1>2 DEF Result
  <2> HIDE DEF all
  <2> QED BY <1>1, <2>1
<1>3. CASE t.selection # None
  <2>1. t.selection.take \in Nat /\ t.selection.field \in Names(t)
    BY <1>3, CalculationParsed DEF ParsedSpec, Selects
  <2>2. Result(i) = SelectRows(t, all)
    BY <1>3 DEF Result
  <2> HIDE DEF all, n, t
  <2>3. \A p \in 1..n : all[p][t.selection.field] \in Values
    BY <1>1, <2>1 DEF RowIn
  <2> DEFINE kept == SelectRows(t, all)
             m == Kept(t, all)
  <2>4. FirstOf(kept, t, all, n)
    BY <1>1, <2>1, <2>3, Selected DEF n
  <2>5. /\ m \in 0..n /\ DOMAIN kept = 1..m /\ Len(kept) = m
        /\ \A p \in 1..m : \E q \in 1..n : kept[p] = all[q]
    BY <2>4 DEF FirstOf
  <2> HIDE DEF kept, m
  <2>6. \A p \in 1..m : DOMAIN kept[p] = KeyNames(t) \cup Names(t) /\ RowIn(kept[p], Values)
    BY <1>1, <2>5
  <2>7. m \in Nat
    BY <1>1, <2>5
  <2> QED BY <2>2, <2>5, <2>6, <2>7 DEF kept, t
<1> QED BY <1>2, <1>3

-----------------------------------------------------------------------------
(* What a task delivers fits its contract                                   *)

\* What each kind of task delivers has the fields of its contract.
LEMMA DeclaredFields ==
  ASSUME NEW t, t.op \in Queries \cup {"CALCULATE"}
  PROVE  OutputFields(t) = Fields(t)
<1>1. t.op \notin Webs /\ t.op \notin {"ASK", "ACT"}
  BY DEF Queries, Webs
<1> QED BY <1>1 DEF OutputFields

LEMMA GroupsFit ==
  ASSUME NEW i \in Tasks, graph[i].op = "AGGREGATE", NEW rows \in GroupRows(graph[i])
  PROVE  RowsFit(i, rows)
<1> DEFINE t == graph[i]
           Groups == [t.dims -> KeyValues]
           Filling(g, v) == [f \in t.dims \cup {t.measure} |-> IF f = t.measure THEN v ELSE g[f]]
           Ordered(G) == {o \in [1..Cardinality(G) -> G] : \A k, j \in DOMAIN o : o[k] = o[j] => k = j}
           Filled(o) == {[k \in DOMAIN o |-> Filling(o[k], v[k])] : v \in [DOMAIN o -> Amounts \cup {None}]}
           From(G) == UNION {Filled(o) : o \in Ordered(G)}
           Some == {G \in SUBSET Groups : IsFiniteSet(G) /\ (t.dims = {} => G # {})}
<1>1. PICK G \in Some : rows \in From(G)
  <2>1. rows \in UNION {From(G) : G \in Some}
    BY DEF GroupRows
  <2> HIDE DEF From
  <2> QED BY <2>1
<1>2. PICK o \in Ordered(G) : rows \in Filled(o)
  <2> HIDE DEF Filled, Ordered
  <2> QED BY <1>1
<1>3. PICK v \in [DOMAIN o -> Amounts \cup {None}] : rows = [k \in DOMAIN o |-> Filling(o[k], v[k])]
  BY <1>2
<1> DEFINE n == Cardinality(G)
           c(k) == Filling(o[k], v[k])
<1>4. n \in Nat /\ DOMAIN o = 1..n /\ \A k \in DOMAIN o : o[k] \in Groups
  BY <1>1, FS_CardinalityType
<1>5. rows = [k \in 1..n |-> c(k)]
  BY <1>3, <1>4
<1>6. \A k \in 1..n : DOMAIN c(k) = t.dims \cup {t.measure} /\ RowIn(c(k), Values)
  BY <1>4, ValuesOK DEF RowIn, Values
<1> HIDE DEF c, n
<1>7. Len(rows) = n /\ DOMAIN rows = 1..n
  BY <1>4, <1>5
<1>8. \A k \in DOMAIN rows : DOMAIN rows[k] = t.dims \cup {t.measure} /\ RowIn(rows[k], Values)
  BY <1>5, <1>6, <1>7
<1>9. Honest => OutputFields(t) = t.dims \cup {t.measure}
  <2>1. i \in Contracted /\ OutputFields(t) = Fields(t)
    BY DeclaredFields DEF Contracted, Queries
  <2> QED BY <2>1 DEF Honest
<1> HIDE DEF t
<1>10. Honest => \A k \in DOMAIN rows : OutputFields(t) \subseteq DOMAIN rows[k]
  BY <1>8, <1>9
<1> QED BY <1>4, <1>7, <1>8, <1>10 DEF RowsFit, t

LEMMA SelectionFits ==
  ASSUME NEW i \in Tasks, graph[i].op = "SELECT", NEW rows \in SelectedRows(graph[i])
  PROVE  RowsFit(i, rows)
<1> DEFINE t == graph[i]
           V == KeyValues \cup Amounts \cup {None}
<1>1. PICK n \in 0..MaxRows : rows \in [1..n -> [t.select -> V]]
  BY DEF SelectedRows
<1>2. n \in Nat /\ DOMAIN rows = 1..n /\ Len(rows) = n
  BY <1>1, ValuesOK
<1>3. \A k \in DOMAIN rows : DOMAIN rows[k] = t.select /\ RowIn(rows[k], Values)
  BY <1>1, ValuesOK DEF RowIn, Values
<1>4. Honest => OutputFields(t) \subseteq t.select
  <2>1. i \in Contracted /\ OutputFields(t) = Fields(t)
    BY DeclaredFields DEF Contracted, Queries
  <2> QED BY <2>1 DEF Honest
<1> HIDE DEF t, V
<1>5. Honest => \A k \in DOMAIN rows : OutputFields(t) \subseteq DOMAIN rows[k]
  BY <1>3, <1>4
<1> QED BY <1>2, <1>3, <1>5 DEF RowsFit, t

LEMMA QueryFits ==
  ASSUME NEW i \in Tasks, graph[i].op \in Queries, NEW rows \in QueryRows(graph[i])
  PROVE  RowsFit(i, rows)
BY GroupsFit, SelectionFits DEF Queries, QueryRows

\* Pages are a sequence, whatever fields they have.
LEMMA PagesFit ==
  ASSUME NEW i, graph[i].op \in Webs, NEW rows \in PageRows(graph[i].op)
  PROVE  RowsFit(i, rows)
<1>1. PICK n, P : n \in Nat /\ rows \in [1..n -> P]
  <2> DEFINE op == graph[i].op
             N == IF op = "SEARCH" THEN 0..MaxRows ELSE {1}
             P == {Page(S) : S \in SUBSET PageFields(op)}
  <2>1. rows \in UNION {[1..n -> P] : n \in N}
    BY DEF PageRows
  <2>2. N \subseteq Nat
    BY ValuesOK
  <2> HIDE DEF N, P
  <2> QED BY <2>1, <2>2
<1>2. DOMAIN rows = 1..n /\ Len(rows) = n
  BY <1>1
<1>3. i \notin Contracted
  BY DEF Contracted, Webs, Queries
<1> QED BY <1>1, <1>2, <1>3 DEF RowsFit

LEMMA TextFits ==
  ASSUME NEW i, graph[i].op \in {"ASK", "ACT"}
  PROVE  RowsFit(i, <<[value |-> "text"]>>)
<1> DEFINE rows == <<[value |-> "text"]>>
<1>1. Len(rows) = 1 /\ DOMAIN rows = 1..1
  OBVIOUS
<1>2. \A k \in DOMAIN rows : DOMAIN rows[k] = {"value"}
  OBVIOUS
<1>3. OutputFields(graph[i]) = {"value"} /\ i \notin Contracted
  BY DEF OutputFields, Contracted, Queries, Webs
<1> HIDE DEF rows
<1>4. RowsFit(i, rows)
  BY <1>1, <1>2, <1>3 DEF RowsFit
<1> QED BY <1>4 DEF rows

LEMMA CalculationFits ==
  ASSUME NEW i, Calculates(i), ~Raises(graph[i])
  PROVE  RowsFit(i, Result(i))
<1> DEFINE t == graph[i]
           rows == Result(i)
<1>1. /\ Len(rows) \in Nat /\ DOMAIN rows = 1..Len(rows)
      /\ \A p \in DOMAIN rows : DOMAIN rows[p] = KeyNames(t) \cup Names(t) /\ RowIn(rows[p], Values)
  BY ResultTyped
<1>2. Honest => OutputFields(t) \subseteq KeyNames(t) \cup Names(t)
  <2>1. i \in Contracted /\ t.op = "CALCULATE" /\ OutputFields(t) = Fields(t)
    BY DeclaredFields DEF Calculates, Contracted, Of
  <2> QED BY <2>1 DEF Honest, KeyNames
<1> HIDE DEF rows, t
<1> QED BY <1>1, <1>2 DEF RowsFit, rows, t

LEMMA FailureFits ==
  ASSUME NEW i, NEW why
  PROVE  RowsFit(i, Failure(why).rows)
<1>1. Failure(why).rows = <<>>
  BY DEF Failure
<1> QED BY <1>1 DEF RowsFit

\* So whatever a task ends with fits.
LEMMA EndsFit ==
  ASSUME RunInv, RowsInv, stage = "run", NEW i \in Tasks, NEW result, Ends(i, result)
  PROVE  RowsFit(i, result.rows)
<1>1. CASE \E why : result = Failure(why)
  BY <1>1, FailureFits
<1>2. CASE graph[i].op \in Queries /\ \E rows \in QueryRows(graph[i]) : result = Success(rows, {i})
  <2>1. PICK rows \in QueryRows(graph[i]) : result = Success(rows, {i})
    BY <1>2
  <2> QED BY <1>2, <2>1, QueryFits, SuccessFields
<1>3. CASE /\ graph[i].op \in Webs
           /\ \E rows \in PageRows(graph[i].op) : result = Success(rows, {i})
  <2>1. PICK rows \in PageRows(graph[i].op) : result = Success(rows, {i})
    BY <1>3
  <2> QED BY <1>3, <2>1, PagesFit, SuccessFields
<1>4. CASE /\ graph[i].op \in {"ASK", "ACT"}
           /\ result = Success(<<[value |-> "text"]>>, Told(graph[i]))
  <2>1. result.rows = <<[value |-> "text"]>>
    BY <1>4 DEF Success
  <2> QED BY <1>4, <2>1, TextFits
<1>5. CASE /\ graph[i].op = "CALCULATE" /\ ~Raises(graph[i])
           /\ result = Success(Result(i), Told(graph[i]))
  <2>1. Calculates(i)
    BY <1>5 DEF Calculates, Of
  <2>2. result.rows = Result(i)
    BY <1>5 DEF Success
  <2> QED BY <1>5, <2>1, <2>2, CalculationFits
<1>6. CASE result.error = "none"
  BY <1>2, <1>3, <1>4, <1>5, <1>6, Outcome DEF Result
<1>7. CASE result.error # "none"
  <2>1. \A rows, told : Success(rows, told).error = "none"
    BY DEF Success
  <2> QED BY <1>1, <1>7, <2>1 DEF Ends
<1> QED BY <1>6, <1>7

LEMMA SameFields ==
  ASSUME UNCHANGED graph
  PROVE  Contracted' = Contracted /\ (Honest' <=> Honest)
<1>1. Contracted' = Contracted
  BY DEF Contracted, Of, Tasks
<1> QED BY <1>1 DEF Honest

LEMMA RowsNext == RunInv /\ RowsInv /\ [GraphNext]_graphVars => RowsInv'
<1> SUFFICES ASSUME RunInv, RowsInv, [GraphNext]_graphVars PROVE RowsInv'
  OBVIOUS
<1>1. CASE RunTask
  <2>1. PICK i, result : Deliver(i, result) /\ Ends(i, result)
    BY <1>1, TasksEnd
  <2>2. /\ Done' = Done \cup {i} /\ i \in Tasks /\ i \notin Done /\ stage = "run"
        /\ results'[i] = result /\ \A j \in Done : results'[j] = results[j]
        /\ UNCHANGED graph
    BY <2>1, Delivered
  <2>3. RowsFit(i, result.rows)
    BY <2>1, <2>2, EndsFit
  <2>4. \A j \in Done' : RowsFit(j, results'[j].rows)
    BY <2>2, <2>3 DEF RowsInv
  <2> QED BY <2>2, <2>4, SameFields DEF RowsInv, RowsFit
<1>2. CASE UNCHANGED <<graph, results>>
  BY <1>2, SameFields DEF RowsInv, Done, RowsFit
<1> QED
  BY <1>1, <1>2 DEF GraphNext, graphVars, CheckGraph, CheckOperators, CheckBusiness, CheckInputs,
                     CheckCalculate, Check, NextWave

-----------------------------------------------------------------------------
(* What a task may fail of                                                  *)

\* What a task that the compiler accepted may fail of.
Accepted == {"none", "service", "skipped", "no row", "null", "raised"}

\* An input is there, and has the field; only its row may be missing, and of a
\* page the field.
LEMMA InputsArrive ==
  ASSUME RunInv, RowsInv, stage = "run", Listed, Honest, NEW i \in Tasks, graph[i].op \notin Queries,
         PlanDeps(i) \subseteq Done, NEW r \in Inputs(graph[i])
  PROVE  Problem(r) \in {"none", "no row"} \/ PageLacks(r)
<1> DEFINE j == Place(r.node)
           rows == results[j].rows
<1>1. j \in Done
  BY InputsBefore DEF RunInv
<1>2. r.row \in Nat \cup {None} /\ None \notin Nat
  <2>1. graph \in TaskGraphs /\ i \in DOMAIN graph
    BY DEF RunInv, Tasks
  <2> QED BY <2>1, GraphsParsed, ValuesOK DEF Parsed, Inputs
<1>3. Len(rows) \in Nat /\ DOMAIN rows = 1..Len(rows)
  BY <1>1 DEF RowsInv, RowsFit
<1>4. r.output # None => r.output \in OutputFields(graph[j])
  BY DEF RunInv, RuntimeInputsValid
<1>0. CASE graph[j].op \in Webs
  <2>1. Problem(r) \in {"none", "no row", "no output"}
    BY <1>1 DEF Problem
  <2> QED BY <1>0, <2>1 DEF PageLacks
<1> SUFFICES ASSUME graph[j].op \notin Webs PROVE Problem(r) \in {"none", "no row"}
  BY <1>0
<1>5. \A k \in DOMAIN rows : r.output \in {None} \cup DOMAIN rows[k]
  BY <1>1, <1>4 DEF RowsInv, RowsFit
<1>6. CASE r.row = None
  BY <1>1, <1>5, <1>6 DEF Problem
<1>7. CASE r.row # None /\ r.row >= Len(rows)
  BY <1>1, <1>7 DEF Problem
<1>8. CASE r.row # None /\ ~(r.row >= Len(rows))
  <2>1. r.row + 1 \in DOMAIN rows
    BY <1>2, <1>3, <1>8
  <2> QED BY <1>1, <1>5, <1>8, <2>1 DEF Problem
<1> QED BY <1>6, <1>7, <1>8

\* A text names inputs that are scalars; only their value may be None.
LEMMA TextsArrive ==
  ASSUME RunInv, stage = "run", NEW i \in Tasks
  PROVE  TextProblem(graph[i]) \in {"none", "null"}
<1> DEFINE t == graph[i]
<1>1. Texts(t) \subseteq Aliases(t) /\ \A a \in Texts(t) : Scalar(InputOf(t, a))
  BY DEF RunInv, RuntimeInputsValid
<1> HIDE DEF t
<1>2. TextProblem(t) \in {"none", "null"}
  BY <1>1 DEF TextProblem, Scalar
<1> QED BY <1>2 DEF t

LEMMA AcceptedReasons ==
  /\ \A i : \A why \in Accepted : MayFailOf(i, why)
  /\ \A i : \A r \in Inputs(graph[i]) : PageLacks(r) => MayFailOf(i, Problem(r))
  /\ Accepted = {"none", "service", "skipped", "no row", "null", "raised"}
<1>1. \A i : \A why \in Accepted : MayFailOf(i, why)
  BY Zenon DEF Accepted, MayFailOf
<1>2. \A i : \A r \in Inputs(graph[i]) : PageLacks(r) => MayFailOf(i, Problem(r))
  BY Zenon DEF MayFailOf, PageLacks
<1>3. Accepted = {"none", "service", "skipped", "no row", "null", "raised"}
  BY Zenon DEF Accepted
<1> QED BY <1>1, <1>2, <1>3, Zenon

LEMMA EndsAccepted ==
  ASSUME RunInv, RowsInv, stage = "run", Listed, Honest, NEW i \in Tasks, PlanDeps(i) \subseteq Done,
         NEW result, Ends(i, result)
  PROVE  MayFailOf(i, result.error)
<1>0. "none" \in Accepted /\ "raised" \in Accepted /\ "skipped" \in Accepted /\ "service" \in Accepted
  BY Zenon DEF Accepted
<1>1. \A why : Failure(why).error = why
  BY DEF Failure
<1>2. \A rows, told : Success(rows, told).error = "none"
  BY DEF Success
<1>3. CASE \E why : why \in Accepted /\ result = Failure(why)
  BY <1>1, <1>3, AcceptedReasons, Zenon
<1>4. CASE \E rows, told : result = Success(rows, told)
  BY <1>2, <1>4, <1>0, AcceptedReasons, Zenon
<1>5. CASE graph[i].op \in Queries /\ \E rows \in QueryRows(graph[i]) : result = Success(rows, {i})
  BY <1>4, <1>5
<1>6. CASE /\ graph[i].op \in Webs \cup {"ASK", "ACT"} /\ ~UpstreamFailed(i)
           /\ IF InputProblems(graph[i]) # {}
              THEN \E why \in InputProblems(graph[i]) : result = Failure(why)
              ELSE IF TextProblem(graph[i]) # "none" THEN result = Failure(TextProblem(graph[i]))
              ELSE IF graph[i].op \in Webs
                THEN \E rows \in PageRows(graph[i].op) : result = Success(rows, {i})
                ELSE result = Success(<<[value |-> "text"]>>, Told(graph[i]))
  <2>0. graph[i].op \notin Queries
    BY <1>6 DEF Queries, Webs
  <2>1. ASSUME NEW why \in InputProblems(graph[i]) PROVE MayFailOf(i, why)
    <3>1. PICK r \in Inputs(graph[i]) : why = Problem(r)
      BY DEF InputProblems
    <3>2. Problem(r) \in {"none", "no row"} \/ PageLacks(r)
      BY <2>0, InputsArrive
    <3>3. Problem(r) \in {"none", "no row"} => Problem(r) \in Accepted
      BY Zenon DEF Accepted
    <3> QED BY <3>1, <3>2, <3>3, AcceptedReasons, Zenon
  <2>2. TextProblem(graph[i]) \in Accepted
    BY TextsArrive DEF Accepted
  <2>3. CASE InputProblems(graph[i]) # {}
    <3>1. PICK why \in InputProblems(graph[i]) : result = Failure(why)
      BY <1>6, <2>3
    <3> QED BY <1>1, <2>1, <3>1
  <2>4. CASE InputProblems(graph[i]) = {} /\ TextProblem(graph[i]) # "none"
    BY <1>3, <1>6, <2>2, <2>4
  <2>5. CASE InputProblems(graph[i]) = {} /\ TextProblem(graph[i]) = "none"
    BY <1>4, <1>6, <2>5
  <2> QED BY <2>3, <2>4, <2>5
<1>7. CASE graph[i].op = "CALCULATE"
  <2>1. result = Failure("skipped") \/ result = Failure("raised") \/ \E rows, told : result = Success(rows, told)
    BY <1>7, Sorts DEF Ends
  <2> QED BY <1>0, <1>3, <1>4, <2>1, Zenon
<1> QED BY <1>0, <1>3, <1>5, <1>6, <1>7 DEF Ends

\* What a page lacks it lacks for good.
LEMMA LacksForGood ==
  ASSUME UNCHANGED graph, Done \subseteq Done', \A j \in Done : results'[j] = results[j], NEW r, PageLacks(r)
  PROVE  PageLacks(r)'
<1>1. Place(r.node) \in Done
  BY DEF PageLacks, Problem
<1>2. Place(r.node)' = Place(r.node)
  BY DEF Place, Tasks
<1>3. results'[Place(r.node)] = results[Place(r.node)] /\ Place(r.node) \in Done'
  BY <1>1
<1>4. Problem(r)' = Problem(r)
  BY <1>1, <1>2, <1>3 DEF Problem
<1> QED BY <1>2, <1>4 DEF PageLacks

LEMMA AcceptedNext == RunInv /\ RowsInv /\ AcceptedGraphsRun /\ [GraphNext]_graphVars => AcceptedGraphsRun'
<1> SUFFICES ASSUME RunInv, RowsInv, AcceptedGraphsRun, [GraphNext]_graphVars PROVE AcceptedGraphsRun'
  OBVIOUS
<1>1. AcceptedGraphsRun <=> (Listed /\ Honest => \A i \in Done : MayFailOf(i, results[i].error))
  BY DEF AcceptedGraphsRun
<1>2. UNCHANGED graph => (Listed' <=> Listed) /\ (Honest' <=> Honest)
  BY SameFields DEF Listed, Tasks
<1>3. CASE RunTask
  <2>1. PICK i, result : Deliver(i, result) /\ Ends(i, result)
    BY <1>3, TasksEnd
  <2>2. /\ Done' = Done \cup {i} /\ i \in Tasks /\ i \notin Done /\ stage = "run"
        /\ results'[i] = result /\ \A j \in Done : results'[j] = results[j]
        /\ UNCHANGED graph /\ PlanDeps(i) \subseteq Done
    BY <2>1, Delivered
  <2> SUFFICES ASSUME Listed, Honest, NEW k \in Done' PROVE MayFailOf(k, results[k].error)'
    BY <1>2, <2>2 DEF AcceptedGraphsRun
  <2>3. MayFailOf(i, result.error)
    BY <2>1, <2>2, EndsAccepted
  <2>4. MayFailOf(k, results'[k].error)
    BY <1>1, <2>2, <2>3
  <2>5. \A r : PageLacks(r) => PageLacks(r)'
    BY <2>2, LacksForGood
  <2>6. Inputs(graph[k])' = Inputs(graph[k])
    BY <2>2 DEF Inputs
  <2> QED BY <2>4, <2>5, <2>6, Zenon DEF MayFailOf
<1>4. CASE UNCHANGED <<graph, results>>
  <2>1. UNCHANGED Done /\ \A i : Inputs(graph[i])' = Inputs(graph[i])
    BY <1>4 DEF Done, Inputs
  <2> SUFFICES ASSUME Listed, Honest, NEW k \in Done PROVE MayFailOf(k, results[k].error)'
    BY <1>2, <1>4, <2>1 DEF AcceptedGraphsRun
  <2>2. MayFailOf(k, results'[k].error)
    BY <1>1, <1>4
  <2>3. \A r : PageLacks(r) => PageLacks(r)'
    BY <1>4, <2>1, LacksForGood
  <2> QED BY <2>1, <2>2, <2>3, Zenon DEF MayFailOf
<1> QED
  BY <1>3, <1>4 DEF GraphNext, graphVars, CheckGraph, CheckOperators, CheckBusiness, CheckInputs,
                     CheckCalculate, Check, NextWave

(* A graph the compiler accepts, whose tasks are listed in order and whose  *)
(* contracts declare what arrives, fails for want of a service, a row, a    *)
(* value, a function _eval has not or a field that a page came without,     *)
(* never of an input or a scalar: an input of a task is in the plan before  *)
(* it, and the rows of a query, a calculation or a text have the fields of  *)
(* its contract (RowsInv).                                                  *)
THEOREM AcceptedRun == GraphSpec => []AcceptedGraphsRun
<1>1. GraphInit => RowsInv /\ AcceptedGraphsRun
  BY DEF GraphInit, RowsInv, AcceptedGraphsRun, Done
<1> QED BY <1>1, RunInit, RunNext, RowsNext, AcceptedNext, PTL DEF GraphSpec

-----------------------------------------------------------------------------
(* The rows a selection keeps                                               *)

\* A calculation gives the same as long as the rows of its inputs stay.
LEMMA SameData ==
  ASSUME NEW t, t.inputs[1] \in Inputs(t), \A r \in Inputs(t) : Dataset(r)' = Dataset(r)
  PROVE  CalculatedRows(t)' = CalculatedRows(t) /\ (Raises(t)' <=> Raises(t))
<1>1. \A r \in Inputs(t) : \A keys : KeysOf(r, keys)' = KeysOf(r, keys)
  BY DEF KeysOf
<1>2. Domain(t)' = Domain(t)
  BY <1>1 DEF Domain
<1>3. Align(t)' = Align(t)
  BY <1>2 DEF Align
<1>4. \A r \in Inputs(t) : \A key, keys : Indexed(r, key, keys)' = Indexed(r, key, keys)
  <2> SUFFICES ASSUME NEW r \in Inputs(t), NEW key, NEW keys
               PROVE  Indexed(r, key, keys)' = Indexed(r, key, keys)
    OBVIOUS
  <2> DEFINE in(rows) == LET hits == {k \in DOMAIN rows : KeyOf(rows[k], keys) = key}
                         IN  IF hits = {} THEN <<>> ELSE rows[CHOOSE k \in hits : \A j \in hits : j <= k]
  <2>1. Indexed(r, key, keys) = in(Dataset(r)) /\ Indexed(r, key, keys)' = in(Dataset(r)')
    BY DEF Indexed
  <2> HIDE DEF in
  <2> QED BY <2>1
<1>5. \A key : InputRows(t, key)' = InputRows(t, key)
  <2>1. \A a \in Aliases(t) : InputOf(t, a) \in Inputs(t)
    BY InputsByAlias
  <2> QED BY <1>4, <2>1 DEF InputRows
<1>6. \A key : Calculated(t, key)' = Calculated(t, key)
  BY <1>5 DEF Calculated
<1> QED BY <1>3, <1>5, <1>6 DEF CalculatedRows, Raises

Calculation(t) == IF t.selection = None THEN CalculatedRows(t) ELSE SelectRows(t, CalculatedRows(t))

\* A calculation still is what its inputs give: they were there before it.
CalculatedInv ==
  Listed => \A i \in Done : \A t :
    t = graph[i] /\ t.op = "CALCULATE" /\ results[i].error = "none" =>
      ~Raises(t) /\ results[i].rows = Calculation(t)

LEMMA CalculatedNext == RunInv /\ RowsInv /\ CalculatedInv /\ [GraphNext]_graphVars => CalculatedInv'
<1> SUFFICES ASSUME RunInv, RowsInv, CalculatedInv, [GraphNext]_graphVars PROVE CalculatedInv'
  OBVIOUS
<1>1. UNCHANGED graph => (Listed' <=> Listed)
  BY DEF Listed, Tasks
<1>2. CASE RunTask
  <2>1. PICK i, result : Deliver(i, result) /\ Ends(i, result)
    BY <1>2, TasksEnd
  <2>2. /\ Done' = Done \cup {i} /\ i \in Tasks /\ i \notin Done /\ stage = "run"
        /\ results'[i] = result /\ \A j \in Done : results'[j] = results[j]
        /\ UNCHANGED graph /\ PlanDeps(i) \subseteq Done
    BY <2>1, Delivered
  <2> SUFFICES ASSUME Listed, NEW j \in Done', NEW t, t = graph[j], t.op = "CALCULATE",
                      results'[j].error = "none"
               PROVE  ~Raises(t)' /\ results'[j].rows = Calculation(t)'
    BY <1>1, <2>2 DEF CalculatedInv
  <2>3. Calculates(j)
    BY <2>2 DEF Calculates, Of, RunInv
  <2>4. PlanDeps(j) \subseteq Done
    BY <2>2 DEF RunInv
  <2>5. \A r \in Inputs(t) : Dataset(r)' = Dataset(r)
    <3> SUFFICES ASSUME NEW r \in Inputs(t) PROVE Dataset(r)' = Dataset(r)
      OBVIOUS
    <3>1. Place(r.node) \in Done
      BY <2>2, <2>3, <2>4, InputsBefore, Sorts DEF Calculates, RunInv, Of
    <3>2. Place(r.node)' = Place(r.node)
      BY <2>2 DEF Place, Tasks
    <3> QED BY <2>2, <3>1, <3>2 DEF Dataset
  <2>6. CalculatedRows(t)' = CalculatedRows(t) /\ (Raises(t)' <=> Raises(t))
    BY <2>3, <2>5, CalculationParsed, SameData
  <2>7. Calculation(t)' = Calculation(t)
    BY <2>6 DEF Calculation
  <2>8. ~Raises(t) /\ results'[j].rows = Calculation(t)
    <3>1. CASE j = i
      <4>1. result.error = "none"
        BY <2>2, <3>1
      <4>2. ~Raises(graph[i]) /\ result = Success(IF graph[i].selection = None THEN CalculatedRows(graph[i])
                                ELSE SelectRows(graph[i], CalculatedRows(graph[i])), Told(graph[i]))
        BY <2>1, <2>2, <3>1, <4>1, Outcome, Sorts
      <4> QED BY <2>2, <3>1, <4>2, SuccessFields DEF Calculation
    <3>2. CASE j \in Done
      BY <2>2, <3>2 DEF CalculatedInv
    <3> QED BY <2>2, <3>1, <3>2
  <2> QED BY <2>6, <2>7, <2>8
<1>3. CASE UNCHANGED <<graph, results>>
  <2> SUFFICES ASSUME Listed, NEW j \in Done, NEW t, t = graph[j], t.op = "CALCULATE",
                      results[j].error = "none"
               PROVE  ~Raises(t)' /\ results[j].rows = Calculation(t)'
    BY <1>1, <1>3 DEF CalculatedInv, Done
  <2>1. Calculates(j)
    BY DEF Calculates, Of, RunInv, Done
  <2>2. \A r \in Inputs(t) : Dataset(r)' = Dataset(r)
    BY <1>3 DEF Dataset, Place, Tasks, Done
  <2>3. CalculatedRows(t)' = CalculatedRows(t) /\ (Raises(t)' <=> Raises(t))
    BY <2>1, <2>2, CalculationParsed, SameData
  <2>4. Calculation(t)' = Calculation(t)
    BY <2>3 DEF Calculation
  <2> QED BY <2>3, <2>4 DEF CalculatedInv
<1> QED
  BY <1>2, <1>3 DEF GraphNext, graphVars, CheckGraph, CheckOperators, CheckBusiness, CheckInputs,
                     CheckCalculate, Check, NextWave

\* Of rows in their order, those before the one at p are p - 1.
LEMMA BestKept ==
  ASSUME NEW t, NEW rows, NEW n \in Nat, DOMAIN rows = 1..n, Len(rows) = n,
         t.selection.take \in Nat \ {0}, \A p \in 1..n : rows[p][t.selection.field] \in Values,
         NEW p \in DOMAIN SelectRows(t, rows)
  PROVE  Cardinality({q \in 1..n : Better(t, rows[q][t.selection.field],
                                         SelectRows(t, rows)[p][t.selection.field])})
           < t.selection.take
<1> DEFINE order == RowOrder(t, rows)
           s == Sorted(1..n, order)
           kept == SelectRows(t, rows)
           better == {q \in 1..n : Better(t, rows[q][t.selection.field], kept[p][t.selection.field])}
           before == {q \in 1..n : <<q, s[p]>> \in order}
<1>1. FirstOf(kept, t, rows, n)
  BY Selected
<1>2. p \in 1..Kept(t, rows) /\ p \in 1..n /\ s[p] \in 1..n /\ kept[p] = rows[s[p]]
  BY <1>1 DEF FirstOf
<1>3. Cardinality(before) = p - 1
  BY <1>1, <1>2 DEF FirstOf, Lists
<1>4. better \subseteq before
  <2> SUFFICES ASSUME NEW q \in 1..n, Better(t, rows[q][t.selection.field], rows[s[p]][t.selection.field])
               PROVE  <<q, s[p]>> \in order
    BY <1>2
  <2> DEFINE v == rows[q][t.selection.field]
             w == rows[s[p]][t.selection.field]
  <2>1. v \in Int /\ w \in Int \cup {None} /\ None \notin Int
    BY <1>2, ValuesOK DEF Better, Values
  <2>2. Better(t, v, w)
    OBVIOUS
  <2>3. RowBefore(t, rows, q, s[p])
    <3> DEFINE x == SortValue(v, Reverse(t))
               y == SortValue(w, Reverse(t))
    <3> SUFFICES IF Reverse(t) THEN Smaller(y, x) ELSE Smaller(x, y)
      BY DEF RowBefore
    <3> HIDE DEF v, w, s
    <3> QED BY <2>1, <2>2 DEF Better, Smaller, SortValue
  <2> QED BY <1>2, <2>3 DEF RowOrder
<1>5. IsFiniteSet(before)
  BY FS_Interval, FS_Subset, 1 \in Int, n \in Int
<1>6. Cardinality(better) <= Cardinality(before) /\ Cardinality(better) \in Nat
  BY <1>4, <1>5, FS_Subset, FS_CardinalityType
<1>7. p - 1 < t.selection.take /\ p - 1 \in Nat
  <2>1. Kept(t, rows) <= t.selection.take /\ Kept(t, rows) \in Nat
    BY DEF Kept
  <2> HIDE DEF s, kept
  <2> QED BY <1>2, <2>1
<1> HIDE DEF better, before
<1>8. Cardinality(better) < t.selection.take
  BY <1>3, <1>6, <1>7
<1> QED BY <1>8 DEF better

(* A selection keeps the best rows: SelectRows takes the first of an order  *)
(* that is total, and what is better than a row comes before it.            *)
THEOREM KeepsBest == GraphSpec => []SelectionKeepsBest
<1>1. RunInv /\ RowsInv /\ CalculatedInv => SelectionKeepsBest
  <2> SUFFICES ASSUME RunInv, RowsInv, CalculatedInv, Listed, NEW i \in Of("CALCULATE") \cap Done,
                      graph[i].selection # None, results[i].error = "none"
               PROVE  LET t == graph[i]
                          all == CalculatedRows(t)
                          kept == results[i].rows
                      IN  /\ Len(kept) = IF Len(all) < t.selection.take THEN Len(all) ELSE t.selection.take
                          /\ \A p \in DOMAIN kept :
                                Cardinality({q \in DOMAIN all : Better(t, all[q][t.selection.field],
                                                                     kept[p][t.selection.field])})
                                  < t.selection.take
    BY DEF SelectionKeepsBest
  <2> DEFINE t == graph[i]
             all == CalculatedRows(t)
             n == Len(all)
  <2>1. Calculates(i)
    BY DEF Calculates, RunInv, Done
  <2>2. ~Raises(t) /\ results[i].rows = SelectRows(t, all)
    <3>1. t.op = "CALCULATE"
      BY DEF Of
    <3> QED BY <3>1 DEF CalculatedInv, Calculation
  <2>3. ParsedSpec(t) /\ Selects(t)
    BY <2>1, CalculationParsed
  <2>4. t.selection.take \in Nat \ {0} /\ t.selection.field \in Names(t)
    BY <2>3 DEF ParsedSpec, Selects
  <2>5. n \in Nat /\ DOMAIN all = 1..n
        /\ \A p \in 1..n : DOMAIN all[p] = KeyNames(t) \cup Names(t) /\ RowIn(all[p], Values)
    BY <2>1, <2>2, RowsTyped
  <2>6. \A p \in 1..n : all[p][t.selection.field] \in Values
    BY <2>4, <2>5 DEF RowIn
  <2> HIDE DEF all
  <2>7. FirstOf(SelectRows(t, all), t, all, n)
    BY <2>4, <2>5, <2>6, Selected
  <2>8. Len(SelectRows(t, all)) = IF n < t.selection.take THEN n ELSE t.selection.take
    BY <2>4, <2>5, <2>7 DEF FirstOf, Kept
  <2>9. \A p \in DOMAIN SelectRows(t, all) :
          Cardinality({q \in 1..n : Better(t, all[q][t.selection.field],
                                         SelectRows(t, all)[p][t.selection.field])})
            < t.selection.take
    BY <2>4, <2>5, <2>6, BestKept
  <2> QED BY <2>2, <2>5, <2>8, <2>9 DEF all
<1>2. GraphInit => RowsInv /\ CalculatedInv
  BY DEF GraphInit, RowsInv, CalculatedInv, Done
<1> QED BY <1>1, <1>2, RunInit, RunNext, RowsNext, CalculatedNext, PTL DEF GraphSpec

-----------------------------------------------------------------------------
(* The join a calculation is                                                *)

\* Where a calculation is the join its domain names.
Joins(i) ==
  /\ Calculates(i) /\ graph[i].keys # <<>>
  /\ \A r \in Inputs(graph[i]) : KeyedBy(r, graph[i].keys)

\* The row of an input that has a key, or 0.
PositionOf(r, key, keys) ==
  IF \E p \in DOMAIN Dataset(r) : KeyOf(Dataset(r)[p], keys) = key
  THEN CHOOSE p \in DOMAIN Dataset(r) : KeyOf(Dataset(r)[p], keys) = key
  ELSE 0

\* Of an input that keeps to its keys, the row with a key is the one indexed.
LEMMA KeyedRow ==
  ASSUME NEW i, Joins(i), NEW r \in Inputs(graph[i]), NEW key
  PROVE  LET keys == graph[i].keys
             pos == PositionOf(r, key, keys)
         IN  /\ pos \in Positions(r)
             /\ pos # 0 => pos \in DOMAIN Dataset(r) /\ KeyOf(Dataset(r)[pos], keys) = key
             /\ \A p \in DOMAIN Dataset(r) : KeyOf(Dataset(r)[p], keys) = key => pos = p /\ p # 0
             /\ Indexed(r, key, keys) = RowAt(r, pos)
<1> DEFINE keys == graph[i].keys
           rows == Dataset(r)
           pos == PositionOf(r, key, keys)
<1>1. Len(rows) \in Nat /\ DOMAIN rows = 1..Len(rows)
  BY InputData DEF Joins
<1>2. \A p, q \in DOMAIN rows : KeyOf(rows[p], keys) = KeyOf(rows[q], keys) => p = q
  BY DEF Joins, KeyedBy
<1>3. \/ Indexed(r, key, keys) = <<>> /\ \A k \in DOMAIN rows : KeyOf(rows[k], keys) # key
      \/ \E k \in DOMAIN rows : Indexed(r, key, keys) = rows[k] /\ KeyOf(rows[k], keys) = key
  <2>1. Calculates(i)
    BY DEF Joins
  <2> QED BY <2>1, IndexedRow
<1> HIDE DEF rows, keys
<1>4. CASE \A k \in DOMAIN rows : KeyOf(rows[k], keys) # key
  <2>1. pos = 0
    BY <1>4 DEF PositionOf, rows
  <2>2. Indexed(r, key, keys) = <<>>
    BY <1>3, <1>4
  <2> HIDE DEF pos
  <2> QED BY <1>1, <1>4, <2>1, <2>2 DEF Positions, RowAt, rows, keys, pos
<1>5. CASE \E k \in DOMAIN rows : KeyOf(rows[k], keys) = key
  <2>1. pos \in DOMAIN rows /\ KeyOf(rows[pos], keys) = key
    BY <1>5 DEF PositionOf, rows
  <2> HIDE DEF pos
  <2>2. Indexed(r, key, keys) = rows[pos]
    BY <1>2, <1>3, <2>1
  <2>3. \A p \in DOMAIN rows : p # 0
    BY <1>1
  <2>4. pos \in 0..Len(rows)
    BY <1>1, <2>1
  <2> QED BY <1>2, <2>1, <2>2, <2>3, <2>4 DEF Positions, RowAt, rows, keys, pos
<1> QED BY <1>4, <1>5

\* The combination of the rows that have a key.
RowsOf(t, key) == [a \in Aliases(t) |-> PositionOf(InputOf(t, a), key, t.keys)]

\* Every input is the one of its alias.
LEMMA OneInputAnAlias ==
  ASSUME NEW i, Calculates(i)
  PROVE  \A r \in Inputs(graph[i]) : r.alias \in Aliases(graph[i]) /\ InputOf(graph[i], r.alias) = r
<1>1. graph \in TaskGraphs /\ i \in DOMAIN graph
  BY DEF Calculates, RunInv, Of, Tasks
<1>2. Parsed(graph[i])
  BY <1>1, GraphsParsed
<1>3. \A r, s \in Inputs(graph[i]) : r.alias = s.alias => r = s
  BY <1>2 DEF Parsed, Inputs
<1>4. \A r \in Inputs(graph[i]) : r.alias \in Aliases(graph[i])
  BY DEF Aliases
<1> QED BY <1>3, <1>4, InputsByAlias

\* A key is in the domain if some input has it, or all, or the first.
LEMMA DomainKeys ==
  ASSUME NEW i, Calculates(i), NEW key
  PROVE  LET t == graph[i]
             has(r) == key \in KeysOf(r, t.keys)
         IN  key \in Domain(t) <=>
               /\ \E r \in Inputs(t) : has(r)
               /\ t.domain = "INNER" => \A r \in Inputs(t) : has(r)
               /\ t.domain = "LEFT" => has(t.inputs[1])
<1> DEFINE t == graph[i]
<1>1. t.domain \in {"INNER", "LEFT", "OUTER"} /\ t.inputs[1] \in Inputs(t)
  BY CalculationParsed DEF ParsedSpec
<1>2. CASE t.domain = "INNER"
  BY <1>1, <1>2 DEF Domain
<1>3. CASE t.domain = "LEFT"
  BY <1>1, <1>3 DEF Domain
<1>4. CASE t.domain = "OUTER"
  BY <1>1, <1>4 DEF Domain
<1> QED BY <1>1, <1>2, <1>3, <1>4

\* The rows with a key of the domain are a combination, and the ones that are
\* calculated with.
LEMMA KeyCombines ==
  ASSUME NEW i, Joins(i), NEW key \in Domain(graph[i])
  PROVE  LET t == graph[i]
             c == RowsOf(t, key)
         IN  /\ c \in Combinations(t) /\ InputRows(t, key) = Chosen(t, c)
             /\ \E a \in Aliases(t) : c[a] # 0
             /\ \A a \in Aliases(t) : c[a] # 0 => KeyOf(Chosen(t, c)[a], t.keys) = key
<1> DEFINE t == graph[i]
           c == RowsOf(t, key)
           pos(a) == PositionOf(InputOf(t, a), key, t.keys)
           data(a) == Dataset(InputOf(t, a))
<1>1. \A a \in Aliases(t) : InputOf(t, a) \in Inputs(t)
  BY InputsByAlias
<1>2. \A a \in Aliases(t) :
        /\ pos(a) \in Positions(InputOf(t, a))
        /\ pos(a) # 0 => pos(a) \in DOMAIN data(a) /\ KeyOf(data(a)[pos(a)], t.keys) = key
        /\ \A p \in DOMAIN data(a) : KeyOf(data(a)[p], t.keys) = key => pos(a) = p /\ p # 0
        /\ Indexed(InputOf(t, a), key, t.keys) = RowAt(InputOf(t, a), pos(a))
  BY <1>1, KeyedRow
<1>3. c = [a \in Aliases(t) |-> pos(a)]
  BY DEF RowsOf
<1>4. \A r \in Inputs(t) : r.alias \in Aliases(t) /\ InputOf(t, r.alias) = r
  BY OneInputAnAlias DEF Joins
<1>5. \A r \in Inputs(t) : key \in KeysOf(r, t.keys) => pos(r.alias) # 0
  <2> SUFFICES ASSUME NEW r \in Inputs(t), key \in KeysOf(r, t.keys) PROVE pos(r.alias) # 0
    OBVIOUS
  <2>1. PICK p \in DOMAIN Dataset(r) : KeyOf(Dataset(r)[p], t.keys) = key
    BY DEF KeysOf
  <2>2. p \in DOMAIN data(r.alias) /\ KeyOf(data(r.alias)[p], t.keys) = key
    BY <1>4, <2>1
  <2> HIDE DEF pos, data
  <2> QED BY <1>2, <1>4, <2>2
<1>6. /\ \E r \in Inputs(t) : key \in KeysOf(r, t.keys)
      /\ t.domain = "INNER" => \A r \in Inputs(t) : key \in KeysOf(r, t.keys)
      /\ t.domain = "LEFT" => key \in KeysOf(t.inputs[1], t.keys)
  BY DomainKeys DEF Joins
<1>7. \A a \in Aliases(t) : Chosen(t, c)[a] = RowAt(InputOf(t, a), pos(a))
  BY <1>3 DEF Chosen
<1>8. InputRows(t, key) = Chosen(t, c)
  <2>1. InputRows(t, key) = [a \in Aliases(t) |-> Indexed(InputOf(t, a), key, t.keys)]
    BY DEF InputRows, Joins
  <2>2. Chosen(t, c) = [a \in Aliases(t) |-> RowAt(InputOf(t, a), pos(a))]
    BY <1>3 DEF Chosen
  <2> QED BY <1>2, <2>1, <2>2
<1>9. \A a \in Aliases(t) : c[a] = pos(a)
  BY <1>3
<1>10. t.inputs[1] \in Inputs(t)
  BY CalculationParsed DEF Joins
<1>11. \A a \in Aliases(t) : \E r \in Inputs(t) : a = r.alias
  BY DEF Aliases
<1> HIDE DEF c, pos, t
<1>12. \A a \in Aliases(t) : c[a] # 0 => KeyOf(Chosen(t, c)[a], t.keys) = key
  <2> HIDE DEF data
  <2> QED BY <1>2, <1>7, <1>9 DEF RowAt, data
<1>13. \E a \in Aliases(t) : c[a] # 0
  BY <1>4, <1>5, <1>6, <1>9
<1>14. t.domain = "INNER" => \A a \in Aliases(t) : c[a] # 0
  BY <1>5, <1>6, <1>9, <1>11
<1>15. t.domain = "LEFT" => t.inputs[1].alias \in Aliases(t) /\ c[t.inputs[1].alias] # 0
  BY <1>4, <1>5, <1>6, <1>9, <1>10
<1>16. \A a \in Aliases(t) : c[a] = 0 => \A p \in DOMAIN data(a) : KeyOf(data(a)[p], t.keys) # key
  <2> HIDE DEF data
  <2> QED BY <1>2, <1>9
<1>17. Combines(t, c)
  BY <1>12, <1>13, <1>14, <1>15, <1>16 DEF Combines
<1>18. c \in [Aliases(t) -> UNION {Positions(r) : r \in Inputs(t)}]
  <2>1. \A a \in Aliases(t) : pos(a) \in UNION {Positions(r) : r \in Inputs(t)}
    BY <1>1, <1>2 DEF t
  <2> QED BY <1>3, <2>1
<1>19. c \in Combinations(t)
  BY <1>2, <1>9, <1>17, <1>18 DEF Combinations
<1> QED BY <1>8, <1>12, <1>13, <1>19 DEF c, t

\* A combination has a key of the domain, and is of the rows that have it.
LEMMA CombinationKeyed ==
  ASSUME NEW i, Joins(i), NEW c \in Combinations(graph[i])
  PROVE  \E key \in Domain(graph[i]) : RowsOf(graph[i], key) = c
<1> DEFINE t == graph[i]
           data(a) == Dataset(InputOf(t, a))
           present == {a \in Aliases(t) : c[a] # 0}
           keyOf(a) == KeyOf(Chosen(t, c)[a], t.keys)
<1>1. /\ c \in [Aliases(t) -> UNION {Positions(r) : r \in Inputs(t)}]
      /\ \A a \in Aliases(t) : c[a] \in Positions(InputOf(t, a))
      /\ Combines(t, c)
  BY DEF Combinations
<1>2. /\ present # {} /\ \A a, b \in present : keyOf(a) = keyOf(b)
      /\ \A a \in Aliases(t) \ present : \A b \in present : \A p \in DOMAIN data(a) :
           KeyOf(data(a)[p], t.keys) # keyOf(b)
      /\ t.domain = "INNER" => present = Aliases(t)
      /\ t.domain = "LEFT" => t.inputs[1].alias \in present
  BY <1>1 DEF Combines
<1>3. PICK b \in present : TRUE
  BY <1>2
<1> DEFINE key == keyOf(b)
<1>4. \A a \in Aliases(t) : InputOf(t, a) \in Inputs(t)
  BY InputsByAlias
<1>5. \A a \in present : c[a] \in DOMAIN data(a) /\ KeyOf(data(a)[c[a]], t.keys) = key
  <2> SUFFICES ASSUME NEW a \in present PROVE c[a] \in DOMAIN data(a) /\ KeyOf(data(a)[c[a]], t.keys) = key
    OBVIOUS
  <2>1. Len(data(a)) \in Nat /\ DOMAIN data(a) = 1..Len(data(a))
    BY <1>4, InputData DEF Joins
  <2>2. c[a] \in 0..Len(data(a)) /\ c[a] # 0
    BY <1>1 DEF Positions
  <2>3. Chosen(t, c)[a] = data(a)[c[a]]
    BY <2>2 DEF Chosen, RowAt
  <2>4. keyOf(a) = key
    BY <1>2, <1>3
  <2> HIDE DEF data
  <2> QED BY <2>1, <2>2, <2>3, <2>4
<1>6. \A r \in Inputs(t) : r.alias \in Aliases(t) /\ InputOf(t, r.alias) = r
  BY OneInputAnAlias DEF Joins
<1>7. \A r \in Inputs(t) : r.alias \in present => key \in KeysOf(r, t.keys)
  <2> SUFFICES ASSUME NEW r \in Inputs(t), r.alias \in present PROVE key \in KeysOf(r, t.keys)
    OBVIOUS
  <2>1. c[r.alias] \in DOMAIN Dataset(r) /\ KeyOf(Dataset(r)[c[r.alias]], t.keys) = key
    BY <1>5, <1>6
  <2> HIDE DEF key
  <2> QED BY <2>1 DEF KeysOf
<1>8. \E r \in Inputs(t) : r.alias \in present
  BY <1>3 DEF Aliases
<1>9. t.inputs[1] \in Inputs(t)
  BY CalculationParsed DEF Joins
<1>10. key \in Domain(t)
  <2> HIDE DEF key, present
  <2>1. t.domain = "INNER" => \A r \in Inputs(t) : key \in KeysOf(r, t.keys)
    BY <1>2, <1>6, <1>7
  <2>2. t.domain = "LEFT" => key \in KeysOf(t.inputs[1], t.keys)
    BY <1>2, <1>7, <1>9
  <2>3. \E r \in Inputs(t) : key \in KeysOf(r, t.keys)
    BY <1>7, <1>8
  <2> QED BY <2>1, <2>2, <2>3, DomainKeys DEF Joins
<1>11. \A a \in Aliases(t) : PositionOf(InputOf(t, a), key, t.keys) = c[a]
  <2> SUFFICES ASSUME NEW a \in Aliases(t) PROVE PositionOf(InputOf(t, a), key, t.keys) = c[a]
    OBVIOUS
  <2> DEFINE pos == PositionOf(InputOf(t, a), key, t.keys)
  <2>1. /\ pos # 0 => pos \in DOMAIN data(a) /\ KeyOf(data(a)[pos], t.keys) = key
        /\ \A p \in DOMAIN data(a) : KeyOf(data(a)[p], t.keys) = key => pos = p
    <3> HIDE DEF key
    <3> QED BY <1>4, KeyedRow
  <2>2. CASE a \in present
    <3> HIDE DEF key, pos, data
    <3> QED BY <1>5, <2>1, <2>2 DEF pos
  <2>3. CASE a \notin present
    <3>1. \A p \in DOMAIN data(a) : KeyOf(data(a)[p], t.keys) # key
      BY <1>2, <1>3, <2>3
    <3>2. c[a] = 0
      BY <2>3
    <3> HIDE DEF key, pos, data
    <3> QED BY <2>1, <3>1, <3>2 DEF pos
  <2> QED BY <2>2, <2>3
<1>12. RowsOf(t, key) = c
  <2> HIDE DEF key
  <2> QED BY <1>1, <1>11 DEF RowsOf
<1> HIDE DEF key
<1> QED BY <1>10, <1>12

\* Keys of the domain and combinations are one to one.
LEMMA AsManyRows ==
  ASSUME NEW i, Joins(i)
  PROVE  Cardinality(Domain(graph[i])) = Cardinality(Combinations(graph[i]))
<1> DEFINE t == graph[i]
           f == [key \in Domain(t) |-> RowsOf(t, key)]
<1>1. f \in [Domain(t) -> Combinations(t)]
  BY KeyCombines
<1>2. \A key, other \in Domain(t) : f[key] = f[other] => key = other
  <2> SUFFICES ASSUME NEW key \in Domain(t), NEW other \in Domain(t), RowsOf(t, key) = RowsOf(t, other)
               PROVE  key = other
    OBVIOUS
  <2>1. PICK a \in Aliases(t) : RowsOf(t, key)[a] # 0
    BY KeyCombines
  <2>2. KeyOf(Chosen(t, RowsOf(t, key))[a], t.keys) = key
    BY <2>1, KeyCombines
  <2>3. KeyOf(Chosen(t, RowsOf(t, other))[a], t.keys) = other
    BY <2>1, KeyCombines
  <2> QED BY <2>2, <2>3
<1>3. \A c \in Combinations(t) : \E key \in Domain(t) : f[key] = c
  BY CombinationKeyed
<1>4. f \in Bijection(Domain(t), Combinations(t))
  <2> HIDE DEF f
  <2> QED BY <1>1, <1>2, <1>3 DEF Bijection, Injection, IsInjective, Surjection
<1>5. IsFiniteSet(Domain(t))
  BY DomainTyped DEF Joins
<1> QED BY <1>4, <1>5, FS_Bijection DEF ExistsBijection

\* The row of a key has the outputs of its combination.
LEMMA RowOfCombination ==
  ASSUME NEW i, Joins(i), NEW key \in Domain(graph[i])
  PROVE  LET t == graph[i]
             c == RowsOf(t, key)
             record == Calculated(t, key)
         IN  /\ \A f \in Names(t) : record[f] = Outputs(t, Chosen(t, c))[f]
             /\ \A k \in DOMAIN t.keys : \A a \in Aliases(t) :
                  c[a] # 0 /\ t.keys[k] \notin Names(t) => record[t.keys[k]] = At(Chosen(t, c)[a], t.keys[k])
<1> DEFINE t == graph[i]
           c == RowsOf(t, key)
           record == Calculated(t, key)
           outputs == Outputs(t, InputRows(t, key))
           place(f) == CHOOSE l \in DOMAIN t.keys : t.keys[l] = f
<1>1. InputRows(t, key) = Chosen(t, c)
  BY KeyCombines
<1>2. record = [f \in {t.keys[k] : k \in DOMAIN t.keys} \cup Names(t) |->
              IF f \in Names(t) THEN outputs[f] ELSE key[place(f)]]
  BY DEF Calculated
<1>3. \A f \in Names(t) : record[f] = Outputs(t, Chosen(t, c))[f]
  <2> HIDE DEF record
  <2> QED BY <1>1, <1>2
<1>4. ASSUME NEW k \in DOMAIN t.keys, NEW a \in Aliases(t), c[a] # 0, t.keys[k] \notin Names(t)
      PROVE  record[t.keys[k]] = At(Chosen(t, c)[a], t.keys[k])
  <2> DEFINE l == place(t.keys[k])
  <2>1. l \in DOMAIN t.keys /\ t.keys[l] = t.keys[k]
    OBVIOUS
  <2>2. record[t.keys[k]] = key[l]
    <3> HIDE DEF place
    <3> QED BY <1>2, <1>4
  <2>3. KeyOf(Chosen(t, c)[a], t.keys) = key
    BY <1>4, KeyCombines
  <2> HIDE DEF l, c, record
  <2>4. KeyOf(Chosen(t, c)[a], t.keys)[l] = At(Chosen(t, c)[a], t.keys[l])
    BY <2>1 DEF KeyOf
  <2> QED BY <2>1, <2>2, <2>3, <2>4
<1> QED BY <1>3, <1>4

(* A calculation over inputs that keep to its keys is the join its domain   *)
(* names: the keys of the domain and the combinations of rows are one to    *)
(* one, and the row of a key has the outputs of its combination.            *)
THEOREM JoinCalculated == GraphSpec => []CalculatesTheJoin
<1>1. RunInv /\ RowsInv /\ CalculatedInv => CalculatesTheJoin
  <2> SUFFICES ASSUME RunInv, RowsInv, CalculatedInv, NEW i \in Done, Plain(i)
               PROVE  LET t == graph[i]
                          rows == results[i].rows
                          outputs == [c \in Combinations(t) |-> Outputs(t, Chosen(t, c))]
                          agree(p, c) == \A f \in Names(t) : rows[p][f] = outputs[c][f]
                      IN  /\ Len(rows) = Cardinality(Combinations(t))
                          /\ \A c \in Combinations(t) : \E p \in DOMAIN rows :
                               /\ agree(p, c)
                               /\ \A k \in DOMAIN t.keys : \A a \in Aliases(t) :
                                    c[a] # 0 /\ t.keys[k] \notin Names(t) =>
                                      rows[p][t.keys[k]] = At(Chosen(t, c)[a], t.keys[k])
    BY DEF CalculatesTheJoin
  <2> DEFINE t == graph[i]
             rows == CalculatedRows(t)
  <2>1. /\ i \in Of("CALCULATE") /\ results[i].error = "none" /\ Listed /\ t.op = "CALCULATE"
        /\ t.selection = None /\ t.keys # <<>> /\ \A r \in Inputs(t) : KeyedBy(r, t.keys)
    BY DEF Plain, Of
  <2>2. Calculates(i) /\ Joins(i)
    BY <2>1 DEF Calculates, Joins, RunInv, Done
  <2>3. ~Raises(t) /\ results[i].rows = rows
    BY <2>1 DEF CalculatedInv, Calculation
  <2>4. /\ Len(rows) \in Nat /\ DOMAIN rows = 1..Len(rows) /\ Len(rows) = Len(Align(t))
        /\ \A p \in DOMAIN rows : rows[p] = Calculated(t, Align(t)[p])
    BY <2>2, <2>3, RowsTyped
  <2>5. /\ DOMAIN Align(t) = 1..Len(Align(t)) /\ Len(Align(t)) = Cardinality(Domain(t))
        /\ \A key \in Domain(t) : \E p \in DOMAIN Align(t) : Align(t)[p] = key
    BY <2>1, <2>2, AlignTyped
  <2>6. Len(rows) = Cardinality(Combinations(t))
    BY <2>2, <2>4, <2>5, AsManyRows
  <2>7. ASSUME NEW c \in Combinations(t)
        PROVE  \E p \in DOMAIN rows :
                 /\ \A f \in Names(t) : rows[p][f] = Outputs(t, Chosen(t, c))[f]
                 /\ \A k \in DOMAIN t.keys : \A a \in Aliases(t) :
                      c[a] # 0 /\ t.keys[k] \notin Names(t) =>
                        rows[p][t.keys[k]] = At(Chosen(t, c)[a], t.keys[k])
    <3>1. PICK key \in Domain(t) : RowsOf(t, key) = c
      BY <2>2, CombinationKeyed
    <3>2. PICK p \in DOMAIN rows : rows[p] = Calculated(t, key)
      <4> HIDE DEF rows
      <4> QED BY <2>4, <2>5
    <3>3. /\ \A f \in Names(t) : Calculated(t, key)[f] = Outputs(t, Chosen(t, c))[f]
          /\ \A k \in DOMAIN t.keys : \A a \in Aliases(t) :
               c[a] # 0 /\ t.keys[k] \notin Names(t) =>
                 Calculated(t, key)[t.keys[k]] = At(Chosen(t, c)[a], t.keys[k])
      BY <2>2, <3>1, RowOfCombination
    <3> QED BY <3>2, <3>3
  <2> HIDE DEF rows
  <2> QED BY <2>3, <2>6, <2>7
<1>2. GraphInit => RowsInv /\ CalculatedInv
  BY DEF GraphInit, RowsInv, CalculatedInv, Done
<1> QED BY <1>1, <1>2, RunInit, RunNext, RowsNext, CalculatedNext, PTL DEF GraphSpec
=============================================================================
