------------------------------ MODULE JoinTrees ------------------------------
(***************************************************************************)
(* From the entities a task reads to the joins of its fragments: join_tree *)
(* (engine/relations.py) connects them by relations of the ontology, one   *)
(* breadth-first search for each entity that is missing; the binder        *)
(* (engine/binder.py) keeps the tree; the optimizer (engine/optimizer.py)  *)
(* orients its relations, those of a single query in _query_joins and      *)
(* those between sources in _cross_source, which leaves the relations      *)
(* inside a source to the fragment of that source.                         *)
(*                                                                         *)
(* A search starts from a Python set, whose order differs from process to  *)
(* process: the queue of a search starts with the nodes of the tree in any *)
(* order.                                                                  *)
(***************************************************************************)
EXTENDS Sequences, FiniteSets, Naturals

CONSTANTS
    Entities,
    Sources,      \* the source instances entities are bound to
    RelationLists \* what relation_edges may give: sequences of relations

ASSUME OntologiesRelate == RelationLists \subseteq Seq([from : Entities, to : Entities])

VARIABLES
    edges,      \* relation_edges of the ontology, in its order
    source,     \* the source instance of every entity
    root,       \* the entity the task is about
    required,   \* the entities its attributes are of, and the root
    position,   \* where join_tree, or the optimizer after it, is
    ordered,    \* the entities of the tree, in the order they were added
    tree,       \* its relations: tree[i] was added with ordered[i + 1]
    queue,      \* the queue of the search
    paths,      \* the path parent gives for every visited entity
    walk,       \* what is left of the path that is being added
    across,     \* TRUE: _cross_source, FALSE: a single query
    local,      \* the joins inside the fragments of _cross_source
    pending,    \* the relations that are not oriented yet, by place in tree
    turn,       \* the next relation of the pass over them
    progressed, \* the pass has oriented one
    joined,     \* the entities, or sources, that are joined
    joins       \* the joins of the query, or of the compute fragment

input == <<edges, source, root, required>>
search == <<queue, paths, walk>>
orientation == <<across, local, pending, turn, progressed, joined, joins>>
treeVars == <<input, position, ordered, tree, search, orientation>>

Nodes == {ordered[i] : i \in DOMAIN ordered}
Remaining == required \ Nodes
Ends(r) == {edges[r].from, edges[r].to}

TreeInit ==
    /\ edges \in RelationLists
    /\ source \in [Entities -> Sources]
    /\ root \in Entities
    /\ required \in {S \in SUBSET Entities : root \in S}
    /\ position = "tree" /\ ordered = <<root>> /\ tree = <<>>
    /\ queue = <<>> /\ paths = <<>> /\ walk = <<>>
    /\ across = FALSE /\ local = {} /\ pending = {} /\ turn = 1 /\ progressed = FALSE
    /\ joined = {} /\ joins = <<>>

-----------------------------------------------------------------------------
(* join_tree                                                                *)

Distinct(s) == \A i, j \in DOMAIN s : s[i] = s[j] => i = j

\* The queue and the paths of a search that begins: deque(sources).
Seed ==
    /\ position = "tree" /\ Remaining # {}
    /\ position' = "search"
    /\ queue' \in {s \in [DOMAIN ordered -> Nodes] : {s[i] : i \in DOMAIN s} = Nodes}
    /\ paths' = [n \in Nodes |-> <<>>]
    /\ UNCHANGED <<input, ordered, tree, walk, orientation>>

Visited == DOMAIN paths

\* Mutation: a relation is entered in the adjacency of its from end only.
JoiningForward(c, n) == {r \in DOMAIN edges : edges[r].from = c /\ edges[r].to = n}

\* The relations in the adjacency of c that lead to n.
Joining(c, n) == {r \in DOMAIN edges : Ends(r) = {c, n}}

\* A neighbor is reached by the first of them, and queued in their order.
Reaches(c, r, n) == r \in Joining(c, n) /\ \A q \in Joining(c, n) : r <= q
Fresh(c) == {n \in Entities \ Visited : Joining(c, n) # {}}

InAdjacency(c, s) ==
    /\ Distinct(s) /\ {s[i] : i \in DOMAIN s} = Fresh(c)
    /\ \A i, j \in DOMAIN s : i < j =>
           \E q \in Joining(c, s[i]) : \A r \in Joining(c, s[j]) : q < r

\* One turn of _bfs_path: an entity that is missing ends the search.
Visit ==
    /\ position = "search" /\ queue # <<>>
    /\ LET c == Head(queue) IN
       IF c \in Remaining
         THEN position' = "walk" /\ walk' = paths[c] /\ queue' = <<>> /\ paths' = <<>>
         ELSE /\ \E n \in 0..Len(edges) : \E s \in [1..n -> Fresh(c)] :
                   InAdjacency(c, s) /\ queue' = Tail(queue) \o s
              /\ \E first \in [Fresh(c) -> DOMAIN edges] :
                   /\ \A n \in Fresh(c) : Reaches(c, first[n], n)
                   /\ paths' = [n \in Visited \cup Fresh(c) |->
                          IF n \in Visited THEN paths[n]
                          ELSE Append(paths[c], [entity |-> n, relation |-> first[n]])]
              /\ UNCHANGED <<position, walk>>
    /\ UNCHANGED <<input, ordered, tree, orientation>>

\* Nothing is left to visit: BindingError, entities are not connected.
NotConnected ==
    /\ position = "search" /\ queue = <<>>
    /\ position' = "unconnected"
    /\ UNCHANGED <<input, ordered, tree, search, orientation>>

\* Mutation: the path is walked from its end.
WalkReversed ==
    /\ position = "walk" /\ walk # <<>>
    /\ LET step == walk[Len(walk)] IN
       IF step.entity \in Nodes
         THEN UNCHANGED <<ordered, tree>>
         ELSE /\ ordered' = Append(ordered, step.entity)
              /\ tree' = Append(tree, step.relation)
    /\ walk' = SubSeq(walk, 1, Len(walk) - 1)
    /\ UNCHANGED <<input, position, queue, paths, orientation>>

Walk ==
    /\ position = "walk" /\ walk # <<>>
    /\ LET step == Head(walk) IN
       IF step.entity \in Nodes
         THEN UNCHANGED <<ordered, tree>>
         ELSE /\ ordered' = Append(ordered, step.entity)
              /\ tree' = Append(tree, step.relation)
    /\ walk' = Tail(walk)
    /\ UNCHANGED <<input, position, queue, paths, orientation>>

WalkEnd ==
    /\ position = "walk" /\ walk = <<>>
    /\ position' = "tree"
    /\ UNCHANGED <<input, ordered, tree, search, orientation>>

-----------------------------------------------------------------------------
(* The optimizer                                                            *)

Local(s) == {i \in DOMAIN tree : \A e \in Ends(tree[i]) : source[e] = s}

\* The entity a fragment starts from: the first of its source.
IsLocalRoot(e) ==
    \E i \in DOMAIN ordered :
        ordered[i] = e /\ \A j \in 1..i - 1 : source[ordered[j]] # source[e]

\* Mutation: the relation is read the other way round.
LocalTargetReversed(r) == IF IsLocalRoot(edges[r].to) THEN edges[r].from ELSE edges[r].to

\* The entity that a join inside a fragment brings in.
LocalTarget(r) == IF IsLocalRoot(edges[r].from) THEN edges[r].to ELSE edges[r].from

LocalJoins ==
    {[relation |-> i, target |-> LocalTarget(tree[i])] : i \in UNION {Local(s) : s \in Sources}}

\* What the joins join: entities in one query, fragments of sources in compute.
Joinable(e) == IF across THEN source[e] ELSE e

\* The tree connects what is required.  A task of one source is one query,
\* unless the source lacks its aggregate.
Bind ==
    /\ position = "tree" /\ Remaining = {}
    /\ position' = "orient" /\ turn' = 1 /\ progressed' = FALSE /\ joins' = <<>>
    /\ \/ /\ \A e \in Nodes : source[e] = source[root]
          /\ across' = FALSE /\ local' = {}
          /\ pending' = DOMAIN tree /\ joined' = {root}
       \/ /\ across' = TRUE /\ local' = LocalJoins
          /\ pending' = DOMAIN tree \ UNION {Local(s) : s \in Sources}
          /\ joined' = {source[root]}
    /\ UNCHANGED <<input, ordered, tree, search>>

\* Mutation: a relation is taken in its own direction only.
JoinsOnForward(r, p, q) ==
    /\ p = Joinable(edges[r].from) /\ q = Joinable(edges[r].to)
    /\ p \in joined /\ q \notin joined

\* Relation r joins q to p, which is joined already.
JoinsOn(r, p, q) ==
    /\ \/ p = Joinable(edges[r].from) /\ q = Joinable(edges[r].to)
       \/ p = Joinable(edges[r].to) /\ q = Joinable(edges[r].from)
    /\ p \in joined /\ q \notin joined

Orient ==
    /\ position = "orient" /\ turn \in pending
    /\ \E p, q \in Entities \cup Sources :
        /\ JoinsOn(tree[turn], p, q)
        /\ joined' = joined \cup {q}
        /\ joins' = Append(joins, [relation |-> turn, from |-> p, target |-> q])
    /\ pending' = pending \ {turn}
    /\ progressed' = TRUE
    /\ turn' = turn + 1
    /\ UNCHANGED <<input, position, ordered, tree, search, across, local>>

PassOver ==
    /\ position = "orient" /\ turn \in DOMAIN tree
    /\ turn \in pending => \A p, q \in Entities \cup Sources : ~JoinsOn(tree[turn], p, q)
    /\ turn' = turn + 1
    /\ UNCHANGED <<input, position, ordered, tree, search, across, local, pending, progressed, joined, joins>>

\* The pass is over: all are oriented, or another pass, or BindingError.
PassEnd ==
    /\ position = "orient" /\ turn > Len(tree)
    /\ \/ pending = {} /\ position' = "joined" /\ UNCHANGED <<turn, progressed>>
       \/ pending # {} /\ progressed /\ turn' = 1 /\ progressed' = FALSE /\ UNCHANGED position
       \/ pending # {} /\ ~progressed /\ position' = "stuck" /\ UNCHANGED <<turn, progressed>>
    /\ UNCHANGED <<input, ordered, tree, search, across, local, pending, joined, joins>>

TreeNext == Seed \/ Visit \/ NotConnected \/ Walk \/ WalkEnd \/ Bind \/ Orient \/ PassOver \/ PassEnd

TreeSpec == TreeInit /\ [][TreeNext]_treeVars

-----------------------------------------------------------------------------
(* Properties                                                               *)

PathStep == [entity : Entities, relation : DOMAIN edges]

TreeTypeOK ==
    /\ edges \in Seq([from : Entities, to : Entities])
    /\ source \in [Entities -> Sources]
    /\ root \in Entities /\ required \in SUBSET Entities /\ root \in required
    /\ position \in {"tree", "search", "walk", "unconnected", "orient", "joined", "stuck"}
    /\ ordered \in Seq(Entities) /\ ordered # <<>> /\ ordered[1] = root
    /\ tree \in Seq(DOMAIN edges) /\ Len(ordered) = Len(tree) + 1
    /\ queue \in Seq(Entities) /\ walk \in Seq(PathStep)
    /\ DOMAIN paths \subseteq Entities
    /\ \A n \in DOMAIN paths : paths[n] \in Seq(PathStep)
    /\ across \in BOOLEAN /\ progressed \in BOOLEAN
    /\ local \subseteq [relation : DOMAIN tree, target : Entities]
    /\ pending \subseteq DOMAIN tree /\ turn \in 1 .. Len(ordered)
    /\ joined \subseteq Entities \cup Sources
    /\ joins \in Seq([relation : DOMAIN tree, from : Entities \cup Sources,
                      target : Entities \cup Sources])

\* What join_tree returns is a tree of relations over the required entities:
\* whatever order the searches start in, every relation adds one entity and
\* connects it to one that was there (walking back parent and reversing it).
TreeConnects ==
    /\ Distinct(ordered)
    /\ \A i \in DOMAIN tree : \E j \in 1..i : Ends(tree[i]) = {ordered[j], ordered[i + 1]}
    /\ position \in {"orient", "joined", "stuck"} => required \subseteq Nodes

Closed(S) == \A r \in DOMAIN edges : Ends(r) \cap S # {} => Ends(r) \subseteq S

\* A task is refused as not connected only if no relations, in either
\* direction, lead from its root to something it requires.
RefusedOnlyIfApart ==
    position = "unconnected" =>
        \E S \in SUBSET Entities : root \in S /\ Closed(S) /\ ~(required \subseteq S)

\* The relations of a query over one source can always be oriented.  Where
\* they could, every entity, or fragment, is joined exactly once, to one that
\* was joined before it (an alias that is used twice, or before it is
\* introduced, is an error of the source).
JoinsEverythingOnce ==
    /\ position = "stuck" => across
    /\ position = "joined" =>
        LET targets == {joins[i].target : i \in DOMAIN joins} IN
        /\ targets = {Joinable(e) : e \in Nodes} \ {Joinable(root)}
        /\ \A i, j \in DOMAIN joins : joins[i].target = joins[j].target => i = j
        /\ \A i \in DOMAIN joins : \/ joins[i].from = Joinable(root)
                                   \/ \E j \in 1..i - 1 : joins[i].from = joins[j].target

\* The relations inside s start at its fragment's root or lead towards it.
LeadToRoot(s) ==
    \A i \in Local(s) : \/ \E e \in Ends(tree[i]) : IsLocalRoot(e)
                        \/ edges[tree[i]].from = ordered[i + 1]

\* A fragment never holds two entities that only another source connects: the
\* orientation of the relations between sources fails then.  And if the
\* relations of a fragment lead to its root or start there, its joins bring in
\* every other entity once (the local joins are not oriented like the others).
WholeFragments ==
    position = "joined" /\ across => \A s \in Sources :
        LET here == {e \in Nodes : source[e] = s} IN
        /\ here # {} => Cardinality(here) = Cardinality(Local(s)) + 1
        /\ LeadToRoot(s) =>
              {j.target : j \in {j \in local : j.relation \in Local(s)}} = {e \in here : ~IsLocalRoot(e)}
=============================================================================
