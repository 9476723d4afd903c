----------------------------- MODULE Compilation -----------------------------
(***************************************************************************)
(* How an ask becomes a typed query graph: the initializer selects the     *)
(* ontologies (src/backend/app/nexus/engine/initializer.py) and the        *)
(* compiler has a model write the graph over them (Compiler.compile and    *)
(* _compile_llm in engine/compiler.py).  Asks run in threads of their own, *)
(* beside the owner's edits and the reloads of the registry, and share two *)
(* caches that live as long as the process: the route of a question over   *)
(* the ontologies its user may read, and the graph of a question over a    *)
(* scope.  An entry's age is a choice at every look-up: a used entry may   *)
(* be any age, because every use restarts its hour.                        *)
(*                                                                         *)
(* What a model answers is one of its outcomes for the code: a pick of     *)
(* candidates or nothing usable; a graph every check accepts, one that a   *)
(* check rejects, a refusal, an exception.  What the checks accept is the  *)
(* subject of GraphContracts.                                              *)
(***************************************************************************)
EXTENDS ResolverRegistry, OntologyRepository, FiniteSets

CONSTANTS Asks,
          Initial,       \* the ontologies there may be at first
          User,          \* [Asks -> Users]
          Question,      \* [Asks -> normalized questions]
          ModelName,     \* [Asks -> Models \cup {NoModel}], the model it names
          Uses,          \* [graph -> its resolver names]
          Sound,         \* the graphs with version 3 and complete relations
          Concepts,      \* [graph -> its concepts]
          OperatorsOf,   \* [Resolvers -> the operators of its type]
          Calculate,     \* the operator that needs no resolver
          MaxOntologies, \* _MAX_ONTOLOGIES
          MaxAttempts,   \* _MAX_COMPILE_ATTEMPTS
          Mixed          \* bound: one behaviour has both edits and reloads

ASSUME AsksNamed == User \in [Asks -> Users]

ASSUME AttemptsPositive == MaxAttempts \in Nat \ {0}

ASSUME InitialRows == Initial \subseteq [Ontologies -> Row \cup {Absent}]

VARIABLES at,         \* where each ask is
          candidates, \* the ontologies it listed
          picked,     \* the routed ones it has not looked up yet
          row,        \* the row it read last
          scope,      \* the ontologies it holds, with the graphs it read
          operators,  \* the operators of the scope's resolvers
          attempts,   \* answers of the model it has rejected
          sqg,        \* the graph it plans with
          routes,     \* _ROUTE_CACHE
          sqgs,       \* _SQG_CACHE
          seen        \* what each ask could read after it had read the row

askVars == <<at, candidates, picked, row, scope, operators, attempts, sqg>>

vars == <<registryVars, repositoryVars, askVars, routes, sqgs, seen>>

NoRow == [id |-> NoOntology, row |-> Absent]

NoSqg == [operators |-> {}, concepts |-> {}]

Ended == {"planned", "unplanned", "failed"}

Init ==
  /\ RegistryInit
  /\ onto \in Initial
  /\ grants \in [Ontologies -> SUBSET Users]
  /\ \A o \in Ontologies : grants[o] # {} => onto[o].visibility = "shared"
  /\ edit = NoEdit
  /\ edits = 0
  /\ at = [a \in Asks |-> "start"]
  /\ candidates = [a \in Asks |-> {}]
  /\ picked = [a \in Asks |-> {}]
  /\ row = [a \in Asks |-> NoRow]
  /\ scope = [a \in Asks |-> {}]
  /\ operators = [a \in Asks |-> {}]
  /\ attempts = [a \in Asks |-> 0]
  /\ sqg = [a \in Asks |-> NoSqg]
  /\ routes = {}
  /\ sqgs = {}
  /\ seen = [a \in Asks |-> {}]

Goto(a, p) == at' = [at EXCEPT ![a] = p]

Several(S) == \E x, y \in S : x # y

-----------------------------------------------------------------------------
(* The initializer. *)

(* The ask names its ontology, or lists those its user may read. *)
Begin(a) ==
  /\ at[a] = "start"
  /\ \/ /\ \E o \in Ontologies : picked' = [picked EXCEPT ![a] = {o}]
        /\ Goto(a, "get")
        /\ UNCHANGED candidates
     \/ /\ candidates' = [candidates EXCEPT ![a] = Visible(User[a])]
        /\ Goto(a, "choose")
        /\ UNCHANGED picked
  /\ UNCHANGED <<row, scope, operators, attempts, sqg, routes, sqgs>>

RouteKey(a) == [question |-> Question[a], candidates |-> candidates[a]]

RouteHits(a) == {e \in routes : e.key = RouteKey(a) /\ Several(candidates[a])}

PutRoute(a, ids) ==
  routes' = {e \in routes : e.key # RouteKey(a)}
            \cup IF Several(candidates[a])
                 THEN {[key |-> RouteKey(a), picked |-> ids]}
                 ELSE {}

Route(a, ids) ==
  /\ picked' = [picked EXCEPT ![a] = ids]
  /\ candidates' = [candidates EXCEPT ![a] = {}]
  /\ PutRoute(a, ids)
  /\ Goto(a, "get")

(* The first candidate, the one that was updated last, stands in for a *)
(* route, and is put into the cache as one.                            *)
Fallback(a) == \E o \in candidates[a] : Route(a, {o})

Choose(a) ==
  /\ at[a] = "choose"
  /\ \/ \E e \in RouteHits(a) :
          /\ picked' = [picked EXCEPT ![a] = e.picked]
          /\ candidates' = [candidates EXCEPT ![a] = {}]
          /\ Goto(a, "get")
          /\ UNCHANGED routes
     \/ /\ Several(candidates[a])
        /\ Model(ModelName[a])
        /\ Goto(a, "route")
        /\ routes' = routes \ RouteHits(a)
        /\ UNCHANGED <<candidates, picked>>
     \/ /\ ~(Several(candidates[a]) /\ Model(ModelName[a]))
        /\ Fallback(a)
     \/ /\ candidates[a] = {}
        /\ Goto(a, "failed")
        /\ UNCHANGED <<candidates, picked, routes>>
  /\ UNCHANGED <<row, scope, operators, attempts, sqg, sqgs>>

RouteAnswer(a) ==
  /\ at[a] = "route"
  /\ \/ \E ids \in SUBSET candidates[a] \ {{}} :
          /\ Cardinality(ids) <= MaxOntologies
          /\ Route(a, ids)
     \/ Fallback(a)
  /\ UNCHANGED <<row, scope, operators, attempts, sqg, sqgs>>

(* repo.get: the row, then the grants; then can_read. *)
ReadRow(a) ==
  /\ at[a] = "get"
  /\ \E o \in picked[a] :
       /\ picked' = [picked EXCEPT ![a] = @ \ {o}]
       /\ IF onto[o] = Absent
          THEN UNCHANGED <<at, row>>
          ELSE /\ Goto(a, "grants")
               /\ row' = [row EXCEPT ![a] = [id |-> o, row |-> onto[o]]]
  /\ UNCHANGED <<candidates, scope, operators, attempts, sqg, routes, sqgs>>

Held(a) == [id |-> row[a].id, graph |-> row[a].row.graph]

\* Mutation: a routed ontology was listed for the user, so it is not checked.
TrustRoute(a) ==
  /\ at[a] = "grants"
  /\ scope' = [scope EXCEPT ![a] = @ \cup {Held(a)}]
  /\ Goto(a, "get")
  /\ row' = [row EXCEPT ![a] = NoRow]
  /\ UNCHANGED <<candidates, picked, operators, attempts, sqg, routes, sqgs>>

ReadGrants(a) ==
  /\ at[a] = "grants"
  /\ IF CanRead(row[a].row, grants[row[a].id], User[a])
     THEN scope' = [scope EXCEPT ![a] = @ \cup {Held(a)}]
     ELSE UNCHANGED scope
  /\ Goto(a, "get")
  /\ row' = [row EXCEPT ![a] = NoRow]
  /\ UNCHANGED <<candidates, picked, operators, attempts, sqg, routes, sqgs>>

(* validate_ontology: the graph is well formed, names a resolver, and the *)
(* registry has all it names.                                              *)
Valid(h) == /\ h.graph \in Sound
            /\ Uses[h.graph] # {}
            /\ Uses[h.graph] \subseteq resolvers

(* Invalid ontologies are dropped; without one left the ask fails. *)
Validate(a) ==
  /\ at[a] = "get"
  /\ picked[a] = {}
  /\ LET valid == {h \in scope[a] : Valid(h)}
     IN /\ scope' = [scope EXCEPT ![a] = valid]
        /\ Goto(a, IF valid = {} THEN "failed" ELSE "operators")
  /\ UNCHANGED <<candidates, picked, row, operators, attempts, sqg, routes, sqgs>>

(* The resolvers are looked up again: one that a reload has removed since *)
(* gives none, and is not missed.                                         *)
Assemble(a) ==
  /\ at[a] = "operators"
  /\ LET allowed == UNION {Uses[h.graph] : h \in scope[a]}
     IN operators' = [operators EXCEPT ![a] =
          UNION {OperatorsOf[r] : r \in allowed \cap resolvers} \cup {Calculate}]
  /\ Goto(a, "compiler")
  /\ UNCHANGED <<candidates, picked, row, scope, attempts, sqg, routes, sqgs>>

-----------------------------------------------------------------------------
(* The compiler. *)

(* _ontology_fingerprint: the concepts of the scope's ontologies, and not *)
(* what they are bound to.                                                *)
Fingerprint(S) == {<<h.id, Concepts[h.graph]>> : h \in S}

\* Mutation: the operators are left out of the key.
KeyWithoutOperators(a) == [question   |-> Question[a],
                           ontologies |-> {h.id : h \in scope[a]},
                           operators  |-> {},
                           concepts   |-> Fingerprint(scope[a])]

CacheKey(a) == [question   |-> Question[a],
                ontologies |-> {h.id : h \in scope[a]},
                operators  |-> operators[a],
                concepts   |-> Fingerprint(scope[a])]

Plan(a, graph) ==
  /\ sqg' = [sqg EXCEPT ![a] = graph]
  /\ Goto(a, "planned")

(* No model: the ask goes on without a graph. A cached graph is used as it *)
(* is; without one the model is asked.                                     *)
Compile(a) ==
  /\ at[a] = "compiler"
  /\ LET hits == {e \in sqgs : e.key = CacheKey(a)}
     IN \/ /\ ~Model(ModelName[a])
           /\ Goto(a, "unplanned")
           /\ UNCHANGED <<sqg, sqgs>>
        \/ /\ Model(ModelName[a])
           /\ \E e \in hits : Plan(a, e.sqg)
           /\ UNCHANGED sqgs
        \/ /\ Model(ModelName[a])
           /\ Goto(a, "compile")
           /\ sqgs' = sqgs \ hits
           /\ UNCHANGED sqg
  /\ UNCHANGED <<candidates, picked, row, scope, operators, attempts, routes>>

(* The model's graph passes every check against the scope this ask holds: *)
(* of a graph the model keeps the operators and concepts it was checked   *)
(* against, any of which it may use.                                      *)
Accept(a) ==
  /\ at[a] = "compile"
  /\ LET graph == [operators |-> operators[a],
                   concepts  |-> Fingerprint(scope[a])]
     IN /\ Plan(a, graph)
        /\ sqgs' = {e \in sqgs : e.key # CacheKey(a)}
                   \cup {[key |-> CacheKey(a), sqg |-> graph]}
  /\ UNCHANGED <<candidates, picked, row, scope, operators, attempts, routes>>

(* A check rejects it: the model is asked again, with the errors, until it *)
(* has had MaxAttempts.                                                    *)
Reject(a) ==
  /\ at[a] = "compile"
  /\ attempts' = [attempts EXCEPT ![a] = @ + 1]
  /\ IF attempts[a] + 1 < MaxAttempts THEN UNCHANGED at
                                      ELSE Goto(a, "unplanned")
  /\ UNCHANGED <<candidates, picked, row, scope, operators, sqg, routes, sqgs>>

(* It declares what it cannot express, gives no node, or raises. *)
Refuse(a) ==
  /\ at[a] = "compile"
  /\ Goto(a, "unplanned")
  /\ UNCHANGED <<candidates, picked, row, scope, operators, attempts, sqg,
                 routes, sqgs>>

AskStep(a) ==
  \/ Begin(a) \/ Choose(a) \/ RouteAnswer(a) \/ ReadRow(a) \/ ReadGrants(a)
  \/ Validate(a) \/ Assemble(a) \/ Compile(a) \/ Accept(a) \/ Reject(a)
  \/ Refuse(a)

(* What an ask that has read a row, but not yet its grants, can read. *)
Observe ==
  seen' = [a \in Asks |->
             seen[a] \cup IF at'[a] = "grants" /\ Readable(row[a].id, User[a])'
                          THEN {row'[a].id} ELSE {}]

Step ==
  \/ /\ \E a \in Asks : AskStep(a)
     /\ UNCHANGED <<registryVars, repositoryVars>>
  \/ /\ RegistryNext
     /\ Mixed \/ edits = 0
     /\ UNCHANGED <<repositoryVars, askVars, routes, sqgs>>
  \/ /\ Edit
     /\ Mixed \/ reloads + changes = 0
     /\ UNCHANGED <<registryVars, askVars, routes, sqgs>>

Next == Step /\ Observe

Spec == Init /\ [][Next]_vars
-----------------------------------------------------------------------------
Operators == UNION {OperatorsOf[r] : r \in Resolvers} \cup {Calculate}

Holding == [id: Ontologies, graph: Graphs \cup {NewGraph}]

Sqg == [operators: SUBSET Operators, concepts: SUBSET Fingerprint(Holding)]

AskTypeOK ==
  /\ at \in [Asks -> Ended \cup {"start", "choose", "route", "get", "grants",
                                "operators", "compiler", "compile"}]
  /\ candidates \in [Asks -> SUBSET Ontologies]
  /\ picked \in [Asks -> SUBSET Ontologies]
  /\ row \in [Asks -> [id: Ontologies, row: Row] \cup {NoRow}]
  /\ \A a \in Asks : at[a] = "grants" => row[a] # NoRow
  /\ scope \in [Asks -> SUBSET Holding]
  /\ operators \in [Asks -> SUBSET Operators]
  /\ attempts \in [Asks -> 0 .. MaxAttempts]
  /\ \A a \in Asks : at[a] = "compile" => attempts[a] < MaxAttempts
  /\ sqg \in [Asks -> Sqg]
  /\ \A e \in routes : e.picked \subseteq Ontologies
  /\ \A e \in sqgs : e.sqg \in Sqg
  /\ seen \in [Asks -> SUBSET Ontologies]

TypeOK == RegistryTypeOK /\ RepositoryTypeOK /\ AskTypeOK

(* An ask only works on ontologies its user could read at one moment after *)
(* the ask began to look them up, whatever a cached route says and though  *)
(* the row and its grants are read apart while the owner publishes.        *)
ScopeWasReadable ==
  \A a \in Asks : {h.id : h \in scope[a]} \subseteq seen[a]

(* The graph an ask plans with, its own or one that another ask compiled,  *)
(* was checked against the concepts this ask's ontologies have and the     *)
(* operators its resolvers have, though ontologies are saved and resolvers *)
(* reloaded between the two.                                               *)
PlansWithinScope ==
  \A a \in Asks : at[a] = "planned" =>
    /\ sqg[a].operators \subseteq operators[a]
    /\ sqg[a].concepts = Fingerprint(scope[a])

=============================================================================
