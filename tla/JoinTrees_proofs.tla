--------------------------- MODULE JoinTrees_proofs ---------------------------
(***************************************************************************)
(* Theorems of JoinTrees for every ontology, every assignment of entities  *)
(* to sources and every order in which a search may start.                 *)
(***************************************************************************)
EXTENDS JoinTrees, WellFoundedInduction, FiniteSetTheorems, TLAPS

(* Every set of natural numbers that is not empty has a least element.     *)
LEMMA Least ==
  ASSUME NEW T, T \subseteq Nat, T # {}
  PROVE  \E x \in T : \A y \in T : x <= y
<1>1. \E x \in T : \A y \in T : ~ (<<y, x>> \in OpToRel(<, Nat))
  BY NatLessThanWellFounded, WFMin, Zenon
<1>2. \A x \in T, y \in T : <<y, x>> \in OpToRel(<, Nat) <=> y < x
  BY DEF OpToRel
<1>3. PICK x \in T : \A y \in T : ~ (y < x)
  <2> HIDE DEF OpToRel
  <2> QED BY <1>1, <1>2
<1>4. \A y \in T : x <= y
  BY <1>3
<1> QED
  BY <1>4

-----------------------------------------------------------------------------
(* The search and the tree                                                  *)

\* A path that starts at one of N and goes from entity to entity.
Linked(p, N) ==
  \A k \in DOMAIN p : \E x \in Entities :
    /\ k = 1 => x \in N
    /\ k > 1 => x = p[k - 1].entity
    /\ Ends(p[k].relation) = {x, p[k].entity}

PathsLead ==
  /\ \A n \in Visited :
       /\ Linked(paths[n], Nodes)
       /\ paths[n] = <<>> => n \in Nodes
       /\ paths[n] # <<>> => paths[n][Len(paths[n])].entity = n
  /\ Linked(walk, Nodes)

Queued(v) == \E i \in DOMAIN queue : queue[i] = v

\* What was visited and has left the queue is not missing and has no neighbor
\* that was not visited.
SearchInv ==
  position = "search" =>
    /\ Remaining # {}
    /\ Nodes \subseteq Visited
    /\ \A i \in DOMAIN queue : queue[i] \in Visited
    /\ \A v \in Visited : ~Queued(v) =>
         /\ v \notin Remaining
         /\ \A r \in DOMAIN edges : v \in Ends(r) => Ends(r) \subseteq Visited

TreeInv == TreeTypeOK /\ SearchInv /\ PathsLead /\ TreeConnects /\ RefusedOnlyIfApart

LEMMA InitInv == TreeInit => TreeInv
<1> SUFFICES ASSUME TreeInit PROVE TreeInv
  OBVIOUS
<1>1. edges \in Seq([from : Entities, to : Entities])
  BY OntologiesRelate DEF TreeInit
<1>2. TreeTypeOK
  <2>1. ordered \in Seq(Entities) /\ ordered # <<>> /\ ordered[1] = root /\ Len(ordered) = 1
    BY DEF TreeInit
  <2>2. tree \in Seq(DOMAIN edges) /\ Len(tree) = 0
    BY DEF TreeInit
  <2>3. queue \in Seq(Entities) /\ walk \in Seq(PathStep) /\ DOMAIN paths = {}
    BY DEF TreeInit
  <2>4. turn \in 1 .. Len(ordered)
    BY <2>1 DEF TreeInit
  <2>5. joins \in Seq([relation : DOMAIN tree, from : Entities \cup Sources,
                       target : Entities \cup Sources])
    BY DEF TreeInit
  <2>6. /\ source \in [Entities -> Sources] /\ root \in Entities
        /\ required \in SUBSET Entities /\ root \in required
        /\ position = "tree" /\ across \in BOOLEAN /\ progressed \in BOOLEAN
        /\ local = {} /\ pending = {} /\ joined = {}
    BY DEF TreeInit
  <2> QED
    BY <1>1, <2>1, <2>2, <2>3, <2>4, <2>5, <2>6 DEF TreeTypeOK
<1>3. SearchInv /\ PathsLead /\ TreeConnects /\ RefusedOnlyIfApart
  BY DEF TreeInit, SearchInv, PathsLead, Linked, TreeConnects, RefusedOnlyIfApart, Visited, Distinct
<1> QED
  BY <1>2, <1>3 DEF TreeInv

\* One turn of the search, where it goes on.
Expands(c, s, first) ==
  /\ c = Head(queue) /\ c \notin Remaining
  /\ s \in Seq(Fresh(c)) /\ InAdjacency(c, s) /\ queue' = Tail(queue) \o s
  /\ first \in [Fresh(c) -> DOMAIN edges] /\ \A n \in Fresh(c) : Reaches(c, first[n], n)
  /\ paths' = [n \in Visited \cup Fresh(c) |->
                 IF n \in Visited THEN paths[n]
                 ELSE Append(paths[c], [entity |-> n, relation |-> first[n]])]

Finds == /\ Head(queue) \in Remaining
         /\ position' = "walk" /\ walk' = paths[Head(queue)] /\ queue' = <<>> /\ paths' = <<>>

LEMMA VisitCases ==
  ASSUME Visit
  PROVE  /\ position = "search" /\ queue # <<>>
         /\ UNCHANGED <<input, ordered, tree, orientation>>
         /\ \/ Finds
            \/ /\ \E c, s, first : Expands(c, s, first)
               /\ UNCHANGED <<position, walk>>
<1>1. CASE Head(queue) \in Remaining
  BY <1>1 DEF Visit, Finds
<1>2. CASE Head(queue) \notin Remaining
  <2> DEFINE c == Head(queue)
  <2>1. PICK n \in 0..Len(edges) : \E s \in [1..n -> Fresh(c)] :
          InAdjacency(c, s) /\ queue' = Tail(queue) \o s
    BY <1>2 DEF Visit
  <2>2. PICK s \in [1..n -> Fresh(c)] : InAdjacency(c, s) /\ queue' = Tail(queue) \o s
    BY <2>1
  <2>3. PICK first \in [Fresh(c) -> DOMAIN edges] :
          /\ \A m \in Fresh(c) : Reaches(c, first[m], m)
          /\ paths' = [m \in Visited \cup Fresh(c) |->
                 IF m \in Visited THEN paths[m]
                 ELSE Append(paths[c], [entity |-> m, relation |-> first[m]])]
    BY <1>2 DEF Visit
  <2>4. s \in Seq(Fresh(c))
    BY <2>2
  <2>5. Expands(c, s, first)
    BY <1>2, <2>2, <2>3, <2>4 DEF Expands
  <2> QED
    BY <1>2, <2>5 DEF Visit
<1> QED
  BY <1>1, <1>2

LEMMA TypeVisit ==
  ASSUME TreeTypeOK, SearchInv, Visit
  PROVE  TreeTypeOK'
<1>1. /\ position = "search" /\ queue # <<>>
      /\ UNCHANGED <<input, ordered, tree, orientation>>
  BY VisitCases
<1>2. Head(queue) \in Visited /\ Head(queue) \in Entities
  BY <1>1 DEF SearchInv, TreeTypeOK, Visited
<1>3. CASE Finds
  <2>1. walk' \in Seq(PathStep)
    BY <1>2, <1>3 DEF Finds, TreeTypeOK, Visited
  <2>2. queue' \in Seq(Entities) /\ DOMAIN paths' = {} /\ position' = "walk"
    BY <1>3 DEF Finds
  <2> QED
    BY <1>1, <2>1, <2>2 DEF TreeTypeOK, input, orientation, PathStep
<1>4. CASE (\E c, s, first : Expands(c, s, first)) /\ UNCHANGED <<position, walk>>
  <2>1. PICK c, s, first : Expands(c, s, first)
    BY <1>4
  <2>2. Fresh(c) \subseteq Entities /\ c \in Visited
    BY <1>2, <2>1 DEF Fresh, Expands
  <2>3. queue' \in Seq(Entities)
    <3>1. Tail(queue) \in Seq(Entities) /\ s \in Seq(Entities)
      BY <1>1, <2>1, <2>2 DEF TreeTypeOK, Expands
    <3> QED
      BY <2>1, <3>1 DEF Expands
  <2>4. DOMAIN paths' \subseteq Entities
    BY <2>1, <2>2 DEF Expands, TreeTypeOK, Visited
  <2>5. ASSUME NEW n \in DOMAIN paths' PROVE paths'[n] \in Seq(PathStep)
    <3>1. CASE n \in Visited
      BY <2>1, <3>1 DEF Expands, TreeTypeOK, Visited
    <3>2. CASE n \in Fresh(c) /\ n \notin Visited
      <4>1. [entity |-> n, relation |-> first[n]] \in PathStep
        BY <2>1, <2>2, <3>2 DEF Expands, PathStep
      <4>2. paths[c] \in Seq(PathStep)
        BY <2>2 DEF TreeTypeOK, Visited
      <4>3. paths'[n] = Append(paths[c], [entity |-> n, relation |-> first[n]])
        BY <2>1, <3>2 DEF Expands
      <4> QED
        BY <4>1, <4>2, <4>3
    <3> QED
      BY <2>1, <3>1, <3>2 DEF Expands
  <2> QED
    BY <1>1, <1>4, <2>3, <2>4, <2>5 DEF TreeTypeOK, input, orientation, PathStep
<1> QED
  BY <1>3, <1>4, VisitCases

LEMMA SeqWider ==
  ASSUME NEW S, NEW T, S \subseteq T, NEW s \in Seq(S)
  PROVE  s \in Seq(T)
OBVIOUS

LEMMA ElementOf ==
  ASSUME NEW S, NEW s \in Seq(S), NEW i \in DOMAIN s
  PROVE  s[i] \in S
OBVIOUS

LEMMA AppendKeeps ==
  ASSUME NEW S, NEW s \in Seq(S), s # <<>>, NEW e \in S
  PROVE  /\ Append(s, e) \in Seq(S) /\ Append(s, e) # <<>>
         /\ Append(s, e)[1] = s[1] /\ Len(Append(s, e)) = Len(s) + 1
OBVIOUS

\* The relations of the ontology, and of the tree, connect entities.
LEMMA EdgeTyped ==
  ASSUME TreeTypeOK
  PROVE  /\ \A r \in DOMAIN edges : edges[r].from \in Entities /\ edges[r].to \in Entities
         /\ \A i \in DOMAIN tree : tree[i] \in DOMAIN edges
<1>1. \A r \in DOMAIN edges : edges[r] \in [from : Entities, to : Entities]
  BY ElementOf DEF TreeTypeOK
<1>2. \A i \in DOMAIN tree : tree[i] \in DOMAIN edges
  BY DEF TreeTypeOK
<1> QED
  BY <1>1, <1>2

LEMMA TypeSearch ==
  ASSUME TreeTypeOK, Seed \/ NotConnected \/ Walk \/ WalkEnd
  PROVE  TreeTypeOK'
<1>1. CASE Seed
  <2>1. Nodes \subseteq Entities
    BY DEF TreeTypeOK, Nodes
  <2>2. queue' \in Seq(Entities)
    <3>1. queue' \in [1..Len(ordered) -> Nodes] /\ Len(ordered) \in Nat
      BY <1>1 DEF Seed, TreeTypeOK
    <3>2. queue' \in Seq(Nodes)
      BY <3>1
    <3> QED
      BY <2>1, <3>2, SeqWider
  <2>3. DOMAIN paths' \subseteq Entities /\ \A n \in DOMAIN paths' : paths'[n] \in Seq(PathStep)
    BY <1>1, <2>1 DEF Seed
  <2> QED
    BY <1>1, <2>2, <2>3 DEF Seed, TreeTypeOK, input, orientation, PathStep
<1>2. CASE NotConnected \/ WalkEnd
  BY <1>2 DEF NotConnected, WalkEnd, TreeTypeOK, input, orientation, search, PathStep
<1>3. CASE Walk
  <2>1. walk' \in Seq(PathStep) /\ Head(walk) \in PathStep
    BY <1>3 DEF Walk, TreeTypeOK
  <2>2. CASE Head(walk).entity \in Nodes
    BY <1>3, <2>1, <2>2 DEF Walk, TreeTypeOK, input, orientation, PathStep
  <2>3. CASE Head(walk).entity \notin Nodes
    <3>1. /\ ordered' = Append(ordered, Head(walk).entity)
          /\ tree' = Append(tree, Head(walk).relation)
      BY <1>3, <2>3 DEF Walk
    <3>2. /\ ordered' \in Seq(Entities) /\ ordered' # <<>> /\ ordered'[1] = root
          /\ Len(ordered') = Len(ordered) + 1
      <4>1. Head(walk).entity \in Entities
        BY <2>1 DEF PathStep
      <4> QED
        BY <3>1, <4>1, AppendKeeps DEF TreeTypeOK
    <3>3. tree' \in Seq(DOMAIN edges) /\ Len(tree') = Len(tree) + 1
      BY <2>1, <3>1 DEF TreeTypeOK, PathStep
    <3>4. DOMAIN tree \subseteq DOMAIN tree'
      BY <3>3 DEF TreeTypeOK
    <3>5. turn \in 1..Len(ordered')
      BY <3>2 DEF TreeTypeOK
    <3>6. /\ edges' = edges /\ source' = source /\ root' = root /\ required' = required
          /\ position' = position /\ queue' = queue /\ paths' = paths /\ across' = across
          /\ local' = local /\ pending' = pending /\ turn' = turn
          /\ progressed' = progressed /\ joined' = joined /\ joins' = joins
      BY <1>3 DEF Walk, input, orientation
    <3>7. local \subseteq [relation : DOMAIN tree', target : Entities]
      BY <3>4 DEF TreeTypeOK
    <3>8. joins \in Seq([relation : DOMAIN tree', from : Entities \cup Sources,
                         target : Entities \cup Sources])
      <4> DEFINE R == [relation : DOMAIN tree, from : Entities \cup Sources,
                       target : Entities \cup Sources]
                 Q == [relation : DOMAIN tree', from : Entities \cup Sources,
                       target : Entities \cup Sources]
      <4>1. R \subseteq Q /\ joins \in Seq(R)
        BY <3>4 DEF TreeTypeOK
      <4> HIDE DEF R, Q
      <4>2. joins \in Seq(Q)
        BY <4>1, SeqWider
      <4> QED
        BY <4>2 DEF Q
    <3>9. Len(ordered') = Len(tree') + 1
      BY <3>2, <3>3 DEF TreeTypeOK
    <3>10. PathStep' = PathStep
      BY <3>6 DEF PathStep
    <3>11. pending \subseteq DOMAIN tree'
      BY <3>4 DEF TreeTypeOK
    <3> QED
      BY <2>1, <3>2, <3>3, <3>5, <3>6, <3>7, <3>8, <3>9, <3>10, <3>11 DEF TreeTypeOK
  <2> QED
    BY <2>2, <2>3
<1> QED
  BY <1>1, <1>2, <1>3

LEMMA TypeOrientation ==
  ASSUME TreeTypeOK, Bind \/ Orient \/ PassOver \/ PassEnd
  PROVE  TreeTypeOK'
<1>1. CASE Bind
  <2>1. UNION {Local(s) : s \in Sources} \subseteq DOMAIN tree
    BY DEF Local
  <2>2. LocalJoins \subseteq [relation : DOMAIN tree, target : Entities]
    <3>1. \A i \in DOMAIN tree : LocalTarget(tree[i]) \in Entities
      <4> SUFFICES ASSUME NEW i \in DOMAIN tree
                   PROVE  LocalTarget(tree[i]) \in Entities
        OBVIOUS
      <4> QED
        BY EdgeTyped DEF LocalTarget
    <3> QED
      BY <2>1, <3>1 DEF LocalJoins
  <2>3. /\ local' \subseteq [relation : DOMAIN tree, target : Entities]
        /\ pending' \subseteq DOMAIN tree /\ joined' \subseteq Entities \cup Sources
        /\ across' \in BOOLEAN
    <3>1. {root} \subseteq Entities \cup Sources /\ {source[root]} \subseteq Entities \cup Sources
      BY DEF TreeTypeOK
    <3>2. {} \subseteq [relation : DOMAIN tree, target : Entities]
      OBVIOUS
    <3> HIDE DEF LocalJoins
    <3> QED
      BY <1>1, <2>2, <3>1, <3>2 DEF Bind
  <2>4. turn' \in 1..Len(ordered) /\ joins' = <<>> /\ progressed' = FALSE /\ position' = "orient"
    BY <1>1 DEF Bind, TreeTypeOK
  <2> QED
    <3>1. UNCHANGED <<input, ordered, tree, search>>
      BY <1>1 DEF Bind
    <3>2. joins' \in Seq([relation : DOMAIN tree, from : Entities \cup Sources,
                          target : Entities \cup Sources])
      BY <2>4
    <3> QED
      BY <2>3, <2>4, <3>1, <3>2 DEF TreeTypeOK, input, search, PathStep
<1>2. CASE Orient
  <2>1. turn \in DOMAIN tree /\ turn' = turn + 1 /\ turn' \in 1..Len(ordered)
    BY <1>2 DEF Orient, TreeTypeOK
  <2>2. PICK p \in Entities \cup Sources, q \in Entities \cup Sources :
          /\ joined' = joined \cup {q}
          /\ joins' = Append(joins, [relation |-> turn, from |-> p, target |-> q])
    BY <1>2 DEF Orient
  <2>3. joins' \in Seq([relation : DOMAIN tree, from : Entities \cup Sources,
                        target : Entities \cup Sources])
    BY <2>1, <2>2 DEF TreeTypeOK
  <2>4. joined' \subseteq Entities \cup Sources /\ pending' \subseteq DOMAIN tree
    BY <1>2, <2>2 DEF TreeTypeOK, Orient
  <2> QED
    BY <1>2, <2>1, <2>3, <2>4 DEF Orient, TreeTypeOK, input, search, PathStep
<1>3. CASE PassOver
  <2>1. turn' \in 1..Len(ordered)
    BY <1>3 DEF PassOver, TreeTypeOK
  <2> QED
    BY <1>3, <2>1 DEF PassOver, TreeTypeOK, input, search, PathStep
<1>4. CASE PassEnd
  <2>1. turn' \in 1..Len(ordered) /\ progressed' \in BOOLEAN
        /\ position' \in {"orient", "joined", "stuck"}
    <3>1. Len(ordered) >= 1 /\ Len(ordered) \in Nat /\ turn \in 1..Len(ordered)
          /\ progressed \in BOOLEAN
      BY DEF TreeTypeOK
    <3>0. 1 \in 1..Len(ordered)
      BY <3>1
    <3>2. CASE pending = {} /\ position' = "joined" /\ UNCHANGED <<turn, progressed>>
      BY <3>1, <3>2
    <3>3. CASE turn' = 1 /\ progressed' = FALSE /\ position' = position
      BY <1>4, <3>0, <3>1, <3>3 DEF PassEnd
    <3>4. CASE position' = "stuck" /\ UNCHANGED <<turn, progressed>>
      BY <3>1, <3>4
    <3> QED
      BY <1>4, <3>2, <3>3, <3>4 DEF PassEnd
  <2> QED
    BY <1>4, <2>1 DEF PassEnd, TreeTypeOK, input, search, PathStep
<1> QED
  BY <1>1, <1>2, <1>3, <1>4

-----------------------------------------------------------------------------
(* A path that leads from the tree keeps leading from it.                   *)
LEMMA LinkedGrows ==
  ASSUME NEW p, NEW N, NEW M, N \subseteq M, Linked(p, N)
  PROVE  Linked(p, M)
BY DEF Linked

LEMMA SeedInv ==
  ASSUME TreeInv, Seed
  PROVE  SearchInv' /\ PathsLead' /\ TreeConnects' /\ RefusedOnlyIfApart'
<1>1. /\ position' = "search" /\ UNCHANGED <<edges, required, root, ordered, tree, walk>>
      /\ queue' \in [DOMAIN ordered -> Nodes]
      /\ {queue'[i] : i \in DOMAIN queue'} = Nodes
      /\ paths' = [n \in Nodes |-> <<>>]
  BY DEF Seed, input
<1>2. Nodes' = Nodes /\ Remaining' = Remaining /\ Remaining # {} /\ Visited' = Nodes
  BY <1>1 DEF Seed, Nodes, Remaining, Visited
<1>3. \A v \in Nodes : Queued(v)'
  BY <1>1 DEF Queued
<1>4. SearchInv'
  BY <1>1, <1>2, <1>3 DEF SearchInv
<1>5. PathsLead'
  <2>1. Linked(walk, Nodes)'
    BY <1>1, <1>2 DEF TreeInv, PathsLead, Linked, Ends
  <2>2. \A n \in Nodes : Linked(<<>>, Nodes)'
    BY DEF Linked
  <2> QED
    BY <1>1, <1>2, <2>1, <2>2 DEF PathsLead, Linked
<1>6. TreeConnects' /\ RefusedOnlyIfApart'
  BY <1>1 DEF TreeInv, TreeConnects, RefusedOnlyIfApart, Distinct, Ends
<1> QED
  BY <1>4, <1>5, <1>6

\* A path that is extended along a relation of its last entity.
LEMMA LinkedAppend ==
  ASSUME NEW S, NEW p \in Seq(S), NEW N, NEW c \in Entities, NEW e, Linked(p, N),
         p = <<>> => c \in N,
         p # <<>> => p[Len(p)].entity = c,
         Ends(e.relation) = {c, e.entity}
  PROVE  Linked(Append(p, e), N)
<1> DEFINE q == Append(p, e)
<1> SUFFICES ASSUME NEW k \in DOMAIN q
             PROVE  \E x \in Entities : /\ k = 1 => x \in N
                                        /\ k > 1 => x = q[k - 1].entity
                                        /\ Ends(q[k].relation) = {x, q[k].entity}
  BY DEF Linked
<1>1. CASE k \in DOMAIN p
  <2>1. q[k] = p[k] /\ (k > 1 => q[k - 1] = p[k - 1])
    BY <1>1
  <2> QED
    BY <1>1, <2>1 DEF Linked
<1>2. CASE k = Len(p) + 1
  <2>1. q[k] = e /\ (k > 1 => q[k - 1] = p[Len(p)])
    BY <1>2
  <2>2. k = 1 => p = <<>>
    BY <1>2
  <2>3. k > 1 => p # <<>>
    BY <1>2
  <2> QED
    BY <2>1, <2>2, <2>3
<1> QED
  BY <1>1, <1>2

LEMMA VisitInv ==
  ASSUME TreeInv, Visit
  PROVE  SearchInv' /\ PathsLead' /\ TreeConnects' /\ RefusedOnlyIfApart'
<1>1. /\ position = "search" /\ queue # <<>>
      /\ UNCHANGED <<input, ordered, tree, orientation>>
  BY VisitCases
<1>2. UNCHANGED <<edges, required, root, Nodes, Remaining, ordered, tree>>
  BY <1>1 DEF input, Nodes, Remaining
<1>3. position' \in {"search", "walk"}
  BY <1>1, VisitCases DEF Finds
<1>4. TreeConnects' /\ RefusedOnlyIfApart'
  BY <1>1, <1>2, <1>3 DEF TreeInv, TreeConnects, RefusedOnlyIfApart, Distinct, Ends
<1>5. Head(queue) \in Visited /\ Head(queue) \in Entities
  BY <1>1 DEF TreeInv, SearchInv, TreeTypeOK, Visited
<1>6. CASE Finds
  <2>1. Linked(walk', Nodes)
    BY <1>5, <1>6 DEF Finds, TreeInv, PathsLead
  <2>2. Linked(walk, Nodes)'
    BY <1>2, <2>1 DEF Linked, Ends
  <2>3. Visited' = {}
    BY <1>6 DEF Finds, Visited
  <2> QED
    BY <1>4, <1>6, <2>2, <2>3 DEF PathsLead, SearchInv, Finds
<1>7. CASE (\E c, s, first : Expands(c, s, first)) /\ UNCHANGED <<position, walk>>
  <2>1. PICK c, s, first : Expands(c, s, first)
    BY <1>7
  <2>2. c \in Visited /\ c \in Entities /\ c = Head(queue) /\ c \notin Remaining
    BY <1>5, <2>1 DEF Expands
  <2>3. Visited' = Visited \cup Fresh(c)
    BY <2>1 DEF Expands, Visited
  <2>4. ASSUME NEW n \in Visited'
        PROVE  /\ Linked(paths'[n], Nodes)
               /\ paths'[n] = <<>> => n \in Nodes
               /\ paths'[n] # <<>> => paths'[n][Len(paths'[n])].entity = n
    <3>1. CASE n \in Visited
      <4>1. paths'[n] = paths[n]
        BY <2>1, <3>1 DEF Expands
      <4> QED
        BY <3>1, <4>1 DEF TreeInv, PathsLead
    <3>2. CASE n \in Fresh(c)
      <4> DEFINE e == [entity |-> n, relation |-> first[n]]
      <4>1. n \notin Visited /\ n \in Entities
        BY <3>2 DEF Fresh
      <4>2. paths'[n] = Append(paths[c], e)
        BY <2>1, <3>2, <4>1 DEF Expands
      <4>3. Ends(e.relation) = {c, n}
        BY <2>1, <3>2 DEF Expands, Reaches, Joining
      <4>4. paths[c] \in Seq(PathStep)
        BY <2>2 DEF TreeInv, TreeTypeOK, Visited
      <4>5. /\ Linked(paths[c], Nodes)
            /\ paths[c] = <<>> => c \in Nodes
            /\ paths[c] # <<>> => paths[c][Len(paths[c])].entity = c
        BY <2>2 DEF TreeInv, PathsLead
      <4>6. e.entity = n /\ Ends(e.relation) = {c, e.entity}
        BY <4>3
      <4>7. Linked(Append(paths[c], e), Nodes)
        <5> HIDE DEF e
        <5> QED
          BY <2>2, <4>4, <4>5, <4>6, LinkedAppend
      <4>8. /\ Append(paths[c], e) # <<>>
            /\ Append(paths[c], e)[Len(Append(paths[c], e))] = e
        BY <4>4
      <4> QED
        BY <4>2, <4>6, <4>7, <4>8
    <3> QED
      BY <2>3, <3>1, <3>2
  <2>5. PathsLead'
    <3>1. \A n \in Visited' : Linked(paths'[n], Nodes) <=> Linked(paths[n], Nodes)'
      BY <1>2 DEF Linked, Ends
    <3>2. Linked(walk, Nodes)'
      BY <1>2, <1>7 DEF TreeInv, PathsLead, Linked, Ends
    <3> QED
      BY <1>2, <2>4, <3>1, <3>2 DEF PathsLead
  <2>6. /\ \A i \in DOMAIN queue' : queue'[i] \in Visited'
        /\ \A v \in Fresh(c) : Queued(v)'
        /\ \A v : v # c /\ Queued(v) => Queued(v)'
    <3>1. queue \in Seq(Entities) /\ s \in Seq(Fresh(c))
      BY <2>1 DEF Expands, TreeInv, TreeTypeOK
    <3>2. {s[i] : i \in DOMAIN s} = Fresh(c)
      BY <2>1 DEF Expands, InAdjacency
    <3>3. queue' = Tail(queue) \o s
      BY <2>1 DEF Expands
    <3>4. Len(queue') = Len(queue) - 1 + Len(s) /\ DOMAIN queue' = 1..Len(queue')
          /\ Len(s) \in Nat /\ Len(queue) \in Nat /\ Len(queue) >= 1
      BY <1>1, <3>1, <3>3
    <3>5. \A i \in 1..Len(queue) - 1 : queue'[i] = queue[i + 1]
      BY <1>1, <3>1, <3>3
    <3>6. \A i \in 1..Len(s) : queue'[Len(queue) - 1 + i] = s[i]
      BY <1>1, <3>1, <3>3
    <3>7. ASSUME NEW i \in DOMAIN queue' PROVE queue'[i] \in Visited'
      <4>1. CASE i <= Len(queue) - 1
        <5>1. i + 1 \in DOMAIN queue /\ queue'[i] = queue[i + 1]
          BY <3>1, <3>4, <3>5, <4>1
        <5> QED
          BY <1>1, <2>3, <5>1 DEF TreeInv, SearchInv
      <4>2. CASE i > Len(queue) - 1
        <5> DEFINE k == i - (Len(queue) - 1)
        <5>1. k \in DOMAIN s /\ queue'[i] = s[k]
          <6>1. k \in 1..Len(s) /\ i = Len(queue) - 1 + k
            BY <3>4, <4>2
          <6>2. DOMAIN s = 1..Len(s)
            BY <3>1
          <6> QED
            BY <3>6, <6>1, <6>2
        <5> QED
          BY <2>3, <3>2, <5>1
      <4> QED
        BY <3>4, <4>1, <4>2
    <3>8. ASSUME NEW v \in Fresh(c) PROVE Queued(v)'
      <4>1. PICK i \in DOMAIN s : s[i] = v
        BY <3>2
      <4>2. Len(queue) - 1 + i \in DOMAIN queue' /\ queue'[Len(queue) - 1 + i] = v
        BY <3>1, <3>4, <3>6, <4>1
      <4> QED
        BY <4>2 DEF Queued
    <3>9. ASSUME NEW v, v # c, Queued(v) PROVE Queued(v)'
      <4>1. PICK i \in DOMAIN queue : queue[i] = v
        BY <3>9 DEF Queued
      <4>2. i # 1
        BY <1>1, <2>2, <3>1, <3>9, <4>1
      <4>3. i - 1 \in 1..Len(queue) - 1
        BY <3>1, <3>4, <4>1, <4>2
      <4>4. queue'[i - 1] = v /\ i - 1 \in DOMAIN queue'
        BY <3>1, <3>4, <3>5, <4>1, <4>3
      <4> QED
        BY <4>4 DEF Queued
    <3> QED
      BY <3>7, <3>8, <3>9
  <2>7. ASSUME NEW v \in Visited', ~ Queued(v)'
        PROVE  /\ v \notin Remaining
               /\ \A r \in DOMAIN edges : v \in Ends(r) => Ends(r) \subseteq Visited'
    <3>1. v \in Visited
      BY <2>3, <2>6, <2>7
    <3>2. CASE v = c
      <4> SUFFICES ASSUME NEW r \in DOMAIN edges, c \in Ends(r), NEW n \in Ends(r)
                   PROVE  n \in Visited'
        BY <2>2, <3>2
      <4>1. Ends(r) \subseteq Entities
        BY EdgeTyped DEF TreeInv, Ends
      <4>2. n = c \/ Ends(r) = {c, n}
        BY DEF Ends
      <4>3. CASE Ends(r) = {c, n}
        <5>1. Joining(c, n) # {}
          BY <4>3 DEF Joining
        <5> QED
          BY <2>3, <4>1, <5>1 DEF Fresh
      <4> QED
        BY <2>2, <2>3, <4>2, <4>3
    <3>3. CASE v # c
      <4>1. ~ Queued(v)
        BY <2>6, <2>7, <3>3
      <4> QED
        BY <1>1, <2>3, <3>1, <4>1 DEF TreeInv, SearchInv
    <3> QED
      BY <3>2, <3>3
  <2>8. SearchInv'
    <3>1. Remaining' # {} /\ Nodes' \subseteq Visited'
      BY <1>1, <1>2, <2>3 DEF TreeInv, SearchInv
    <3>2. \A r \in DOMAIN edges' : Ends(r)' = Ends(r)
      BY <1>2 DEF Ends
    <3> QED
      BY <1>2, <2>6, <2>7, <3>1, <3>2 DEF SearchInv
  <2> QED
    BY <1>4, <2>5, <2>8
<1> QED
  BY <1>6, <1>7, VisitCases

LEMMA WalkInv ==
  ASSUME TreeInv, Walk
  PROVE  SearchInv' /\ PathsLead' /\ TreeConnects' /\ RefusedOnlyIfApart'
<1> DEFINE step == Head(walk)
<1>1. /\ position = "walk" /\ position' = "walk" /\ walk # <<>> /\ walk' = Tail(walk)
      /\ UNCHANGED <<edges, required, root, queue, paths>>
  BY DEF Walk, input
<1>2. walk \in Seq(PathStep) /\ ordered \in Seq(Entities) /\ tree \in Seq(DOMAIN edges)
      /\ Len(ordered) = Len(tree) + 1 /\ step \in PathStep
  BY <1>1 DEF TreeInv, TreeTypeOK
<1>3. SearchInv' /\ RefusedOnlyIfApart'
  BY <1>1 DEF SearchInv, RefusedOnlyIfApart
<1>4. PICK x \in Nodes : Ends(step.relation) = {x, step.entity}
  <2>1. 1 \in DOMAIN walk /\ walk[1] = step
    BY <1>1, <1>2
  <2> QED
    BY <2>1 DEF TreeInv, PathsLead, Linked
<1>5. /\ Nodes \cup {step.entity} = Nodes'
      /\ TreeConnects'
  <2>1. CASE step.entity \in Nodes
    <3>1. UNCHANGED <<ordered, tree>>
      BY <2>1 DEF Walk
    <3> QED
      <4>1. Nodes' = Nodes
        BY <3>1 DEF Nodes
      <4>2. TreeConnects'
        BY <1>1, <3>1 DEF TreeInv, TreeConnects, Distinct, Ends
      <4> QED
        BY <2>1, <4>1, <4>2
  <2>2. CASE step.entity \notin Nodes
    <3>1. ordered' = Append(ordered, step.entity) /\ tree' = Append(tree, step.relation)
      BY <2>2 DEF Walk
    <3>2. /\ DOMAIN ordered' = 1..Len(ordered) + 1 /\ DOMAIN ordered = 1..Len(ordered)
          /\ Len(ordered) \in Nat
          /\ \A i \in DOMAIN ordered : ordered'[i] = ordered[i]
          /\ ordered'[Len(ordered) + 1] = step.entity
      BY <1>2, <3>1 DEF PathStep
    <3>3. /\ DOMAIN tree' = 1..Len(tree) + 1 /\ DOMAIN tree = 1..Len(tree) /\ Len(tree) \in Nat
          /\ \A i \in DOMAIN tree : tree'[i] = tree[i]
          /\ tree'[Len(tree) + 1] = step.relation
      BY <1>2, <3>1 DEF PathStep
    <3>4. Nodes' = Nodes \cup {step.entity}
      BY <3>2 DEF Nodes
    <3>5. Distinct(ordered')
      BY <2>2, <3>2 DEF TreeInv, TreeConnects, Distinct, Nodes
    <3>6. ASSUME NEW i \in DOMAIN tree'
          PROVE  \E j \in 1..i : Ends(tree'[i]) = {ordered'[j], ordered'[i + 1]}
      <4>1. CASE i \in DOMAIN tree
        <5>1. PICK j \in 1..i : Ends(tree[i]) = {ordered[j], ordered[i + 1]}
          BY <4>1 DEF TreeInv, TreeConnects
        <5>2. j \in DOMAIN ordered /\ i + 1 \in DOMAIN ordered
          BY <1>2, <3>2, <3>3, <4>1
        <5> QED
          BY <3>2, <3>3, <4>1, <5>1, <5>2
      <4>2. CASE i = Len(tree) + 1
        <5>1. PICK j \in DOMAIN ordered : ordered[j] = x
          BY DEF Nodes
        <5>2. j \in 1..i /\ ordered'[j] = x /\ ordered'[i + 1] = step.entity
              /\ tree'[i] = step.relation
          BY <1>2, <3>2, <3>3, <4>2, <5>1
        <5> QED
          BY <1>4, <5>2
      <4> QED
        BY <3>3, <4>1, <4>2
    <3>7. \A r : Ends(r)' = Ends(r)
      BY <1>1 DEF Ends
    <3> QED
      BY <1>1, <3>4, <3>5, <3>6, <3>7 DEF TreeConnects
  <2> QED
    BY <2>1, <2>2
<1>6. PathsLead'
  <2>1. \A n \in Visited : Linked(paths[n], Nodes')
    BY <1>5, LinkedGrows DEF TreeInv, PathsLead
  <2>2. Linked(Tail(walk), Nodes')
    <3> DEFINE t == Tail(walk)
    <3> SUFFICES ASSUME NEW k \in DOMAIN t
                 PROVE  \E y \in Entities : /\ k = 1 => y \in Nodes'
                                            /\ k > 1 => y = t[k - 1].entity
                                            /\ Ends(t[k].relation) = {y, t[k].entity}
      BY DEF Linked
    <3>1. k + 1 \in DOMAIN walk /\ t[k] = walk[k + 1] /\ (k > 1 => t[k - 1] = walk[k])
          /\ k \in Nat /\ k >= 1 /\ walk[1] = step
      BY <1>1, <1>2
    <3>2. PICK y \in Entities : y = walk[k].entity
                                /\ Ends(walk[k + 1].relation) = {y, walk[k + 1].entity}
      <4>1. PICK y \in Entities : /\ k + 1 > 1 => y = walk[(k + 1) - 1].entity
                                  /\ Ends(walk[k + 1].relation) = {y, walk[k + 1].entity}
        BY <3>1 DEF TreeInv, PathsLead, Linked
      <4>2. (k + 1) - 1 = k /\ k + 1 > 1
        BY <3>1
      <4> QED
        BY <4>1, <4>2
    <3> QED
      BY <1>5, <3>1, <3>2
  <2>3. Visited' = Visited
    BY <1>1 DEF Visited
  <2>4. \A n \in Visited : Linked(paths[n], Nodes)'
    BY <1>1, <2>1 DEF Linked, Ends
  <2>5. Linked(walk, Nodes)'
    BY <1>1, <2>2 DEF Linked, Ends
  <2>6. \A n \in Visited : /\ paths[n] = <<>> => n \in Nodes'
                           /\ paths[n] # <<>> => paths[n][Len(paths[n])].entity = n
    BY <1>5 DEF TreeInv, PathsLead
  <2> QED
    BY <1>1, <2>3, <2>4, <2>5, <2>6 DEF PathsLead
<1> QED
  BY <1>3, <1>5, <1>6

LEMMA PathsKept ==
  ASSUME PathsLead, UNCHANGED <<edges, paths, walk, Nodes, Visited>>
  PROVE  PathsLead'
<1>1. \A n \in Visited : Linked(paths[n], Nodes)'
  <2> SUFFICES ASSUME NEW n \in Visited PROVE Linked(paths[n], Nodes)'
    OBVIOUS
  <2>1. Linked(paths[n], Nodes)
    BY DEF PathsLead
  <2> QED
    BY <2>1 DEF Linked, Ends
<1>2. Linked(walk, Nodes)'
  <2>1. Linked(walk, Nodes)
    BY DEF PathsLead
  <2> QED
    BY <2>1 DEF Linked, Ends
<1>3. \A n \in Visited : /\ paths[n] = <<>> => n \in Nodes'
                         /\ paths[n] # <<>> => paths[n][Len(paths[n])].entity = n
  BY DEF PathsLead
<1> QED
  BY <1>1, <1>2, <1>3 DEF PathsLead

LEMMA StepInv == TreeInv /\ [TreeNext]_treeVars => TreeInv'
<1> SUFFICES ASSUME TreeInv, [TreeNext]_treeVars PROVE TreeInv'
  OBVIOUS
<1>1. CASE Seed
  BY <1>1, TypeSearch, SeedInv DEF TreeInv
<1>2. CASE Visit
  BY <1>2, TypeVisit, VisitInv DEF TreeInv
<1>3. CASE NotConnected
  <2>1. /\ position = "search" /\ queue = <<>> /\ position' = "unconnected"
        /\ UNCHANGED <<edges, required, root, ordered, tree, walk, paths, Nodes, Visited>>
    BY <1>3 DEF NotConnected, input, search, Nodes, Visited
  <2>2. \A v : ~ Queued(v)
    BY <2>1 DEF Queued
  <2>3. /\ Remaining # {} /\ Nodes \subseteq Visited
        /\ \A v \in Visited : v \notin Remaining
        /\ \A r \in DOMAIN edges : \A v \in Visited : v \in Ends(r) => Ends(r) \subseteq Visited
    BY <2>1, <2>2 DEF TreeInv, SearchInv
  <2>4. Closed(Visited) /\ root \in Visited /\ ~(required \subseteq Visited)
    <3>1. root \in Nodes
      BY DEF TreeInv, TreeTypeOK, Nodes
    <3>2. Closed(Visited)
      BY <2>3 DEF Closed
    <3> QED
      BY <2>3, <3>1, <3>2 DEF Remaining
  <2>5. Visited \in SUBSET Entities
    BY DEF TreeInv, TreeTypeOK, Visited
  <2>6. RefusedOnlyIfApart'
    <3>1. Closed(Visited)'
      BY <2>1, <2>4 DEF Closed, Ends
    <3> QED
      BY <2>1, <2>4, <2>5, <3>1 DEF RefusedOnlyIfApart, Closed, Ends
  <2>7. SearchInv' /\ TreeConnects'
    BY <2>1 DEF SearchInv, TreeInv, TreeConnects, Distinct, Ends
  <2>8. PathsLead'
    BY <2>1, PathsKept DEF TreeInv
  <2> QED
    BY <1>3, <2>6, <2>7, <2>8, TypeSearch DEF TreeInv
<1>4. CASE Walk
  BY <1>4, TypeSearch, WalkInv DEF TreeInv
<1>5. CASE WalkEnd \/ Bind \/ Orient \/ PassOver \/ PassEnd \/ UNCHANGED treeVars
  <2>1. UNCHANGED <<edges, required, root, ordered, tree, walk, paths, Nodes, Visited, queue>>
    BY <1>5 DEF WalkEnd, Bind, Orient, PassOver, PassEnd, treeVars, input, search, Nodes, Visited
  <2>2. /\ position' = "search" => position = "search"
        /\ position' = "unconnected" => position = "unconnected"
        /\ position' \in {"orient", "joined", "stuck"} =>
             position \in {"orient", "joined", "stuck"} \/ required \subseteq Nodes
    BY <1>5 DEF WalkEnd, Bind, Orient, PassOver, PassEnd, treeVars, Remaining
  <2>3. TreeTypeOK'
    <3>1. CASE WalkEnd
      BY <3>1, TypeSearch DEF TreeInv
    <3>2. CASE Bind \/ Orient \/ PassOver \/ PassEnd
      BY <3>2, TypeOrientation DEF TreeInv
    <3>3. CASE UNCHANGED treeVars
      BY <3>3 DEF TreeInv, TreeTypeOK, treeVars, input, search, orientation, PathStep
    <3> QED
      BY <1>5, <3>1, <3>2, <3>3
  <2>4. SearchInv'
    BY <2>1, <2>2 DEF TreeInv, SearchInv, Queued, Remaining, Ends
  <2>5. PathsLead'
    BY <2>1, PathsKept DEF TreeInv
  <2>6. TreeConnects'
    BY <2>1, <2>2 DEF TreeInv, TreeConnects, Distinct, Ends
  <2>7. RefusedOnlyIfApart'
    BY <2>1, <2>2 DEF TreeInv, RefusedOnlyIfApart, Closed, Ends
  <2> QED
    BY <2>3, <2>4, <2>5, <2>6, <2>7 DEF TreeInv
<1> QED
  BY <1>1, <1>2, <1>3, <1>4, <1>5 DEF TreeNext

LEMMA Invariance == TreeSpec => []TreeInv
BY InitInv, StepInv, PTL DEF TreeSpec

\* Every state of the search and of the orientation has its type.
THEOREM TypeCorrect == TreeSpec => []TreeTypeOK
BY Invariance, PTL DEF TreeInv

\* What join_tree returns is a tree of relations over everything a task
\* requires, whatever the ontology and whatever order a search starts in.
THEOREM TreesConnect == TreeSpec => []TreeConnects
BY Invariance, PTL DEF TreeInv

\* A task is refused as not connected only if its entities are apart.
THEOREM RefusalsRight == TreeSpec => []RefusedOnlyIfApart
BY Invariance, PTL DEF TreeInv

-----------------------------------------------------------------------------
(* The orientation                                                          *)

Covered(i) ==
  LET p == Joinable(edges[tree[i]].from)
      q == Joinable(edges[tree[i]].to)
  IN p = q \/ {p, q} \subseteq joined

\* What is joined, and that every join brings in something new.
Placed ==
  /\ joined = {Joinable(root)} \cup {joins[i].target : i \in DOMAIN joins}
  /\ joined \subseteq {Joinable(e) : e \in Nodes}
  /\ \A i, j \in DOMAIN joins : joins[i].target = joins[j].target => i = j
  /\ \A i \in DOMAIN joins : joins[i].target # Joinable(root)
  /\ \A i \in DOMAIN joins : \/ joins[i].from = Joinable(root)
                             \/ \E j \in 1..i - 1 : joins[i].from = joins[j].target
  /\ \A i \in DOMAIN tree \ pending : Covered(i)

\* One pass orients the relations of a single query, in the order of the tree.
InOrder ==
  ~across => /\ joined = {ordered[k] : k \in 1..turn}
             /\ pending = turn..Len(tree)
             /\ position # "stuck"

OrientInv ==
  position \in {"orient", "joined", "stuck"} =>
    Placed /\ InOrder /\ (position = "joined" => pending = {})

LEMMA BindPlaces ==
  ASSUME TreeInv, Bind
  PROVE  OrientInv'
<1>1. /\ position' = "orient" /\ turn' = 1 /\ joins' = <<>> /\ root' = root /\ source' = source
      /\ ordered' = ordered /\ tree' = tree /\ edges' = edges
  BY DEF Bind, input
<1>2. Nodes' = Nodes /\ root \in Nodes /\ ordered[1] = root
      /\ tree \in Seq(DOMAIN edges) /\ Nodes \subseteq Entities
  <2>1. ordered[1] = root /\ 1 \in DOMAIN ordered /\ tree \in Seq(DOMAIN edges)
    BY DEF TreeInv, TreeTypeOK
  <2>2. Nodes \subseteq Entities
    BY DEF Nodes, TreeInv, TreeTypeOK
  <2> QED
    BY <1>1, <2>1, <2>2 DEF Nodes
<1>3. CASE across' = FALSE /\ pending' = DOMAIN tree /\ joined' = {root}
  <2>1. Placed'
    BY <1>1, <1>2, <1>3 DEF Placed, Joinable
  <2>2. InOrder'
    <3>1. pending' = 1..Len(tree)
      BY <1>2, <1>3
    <3>2. {ordered[k] : k \in 1..1} = {root}
      BY <1>2
    <3> QED
      BY <1>1, <1>3, <3>1, <3>2 DEF InOrder
  <2> QED
    BY <1>1, <2>1, <2>2 DEF OrientInv
<1>4. CASE /\ across' = TRUE /\ joined' = {source[root]}
           /\ pending' = DOMAIN tree \ UNION {Local(s) : s \in Sources}
  <2>1. \A e : Joinable(e)' = source[e]
    BY <1>1, <1>4 DEF Joinable
  <2>2. ASSUME NEW i \in DOMAIN tree, i \notin pending'
        PROVE  source[edges[tree[i]].from] = source[edges[tree[i]].to]
    <3>1. PICK s \in Sources : i \in Local(s)
      BY <1>4, <2>2
    <3> QED
      BY <3>1 DEF Local, Ends
  <2>3. Placed'
    BY <1>1, <1>2, <1>4, <2>1, <2>2 DEF Placed, Covered
  <2> QED
    BY <1>1, <1>4, <2>3 DEF OrientInv, InOrder
<1> QED
  BY <1>3, <1>4 DEF Bind

LEMMA OrientPlaces ==
  ASSUME TreeInv, OrientInv, Orient
  PROVE  OrientInv'
<1>1. /\ position = "orient" /\ position' = "orient" /\ turn \in pending /\ turn' = turn + 1
      /\ pending' = pending \ {turn} /\ turn \in DOMAIN tree
      /\ UNCHANGED <<edges, source, root, ordered, tree, across, Nodes>>
  BY DEF Orient, input, TreeInv, TreeTypeOK, Nodes
<1>2. PICK p \in Entities \cup Sources, q \in Entities \cup Sources :
        /\ JoinsOn(tree[turn], p, q)
        /\ joined' = joined \cup {q}
        /\ joins' = Append(joins, [relation |-> turn, from |-> p, target |-> q])
  BY DEF Orient
<1>3. Placed /\ InOrder
  BY <1>1 DEF OrientInv
<1>4. \A e : Joinable(e)' = Joinable(e)
  BY <1>1 DEF Joinable
<1>5. PICK j \in 1..turn : Ends(tree[turn]) = {ordered[j], ordered[turn + 1]}
  BY <1>1 DEF TreeInv, TreeConnects
<1>6. /\ ordered \in Seq(Entities) /\ Len(ordered) = Len(tree) + 1 /\ Len(tree) \in Nat
      /\ DOMAIN tree = 1..Len(tree) /\ DOMAIN ordered = 1..Len(ordered)
  BY DEF TreeInv, TreeTypeOK
<1>7. {p, q} = {Joinable(ordered[j]), Joinable(ordered[turn + 1])} /\ p \in joined /\ q \notin joined
  BY <1>2, <1>5 DEF JoinsOn, Ends
<1>8. /\ Len(joins) \in Nat /\ DOMAIN joins = 1..Len(joins) /\ DOMAIN joins' = 1..Len(joins) + 1
      /\ \A i \in DOMAIN joins : joins'[i] = joins[i]
      /\ joins'[Len(joins) + 1] = [relation |-> turn, from |-> p, target |-> q]
  BY <1>2 DEF TreeInv, TreeTypeOK
<1>9. Placed'
  <2>1. joined' = {Joinable(root)} \cup {joins'[i].target : i \in DOMAIN joins'}
    BY <1>2, <1>3, <1>8 DEF Placed
  <2>2. joined' \subseteq {Joinable(e) : e \in Nodes}
    <3>1. ordered[j] \in Nodes /\ ordered[turn + 1] \in Nodes
      BY <1>1, <1>6 DEF Nodes
    <3>2. q \in {Joinable(e) : e \in Nodes}
      BY <1>7, <3>1
    <3>3. joined \subseteq {Joinable(e) : e \in Nodes}
      BY <1>3 DEF Placed
    <3> QED
      BY <1>2, <3>2, <3>3
  <2>3. \A i \in DOMAIN joins : joins[i].target # q
    BY <1>3, <1>7 DEF Placed
  <2>31. q # Joinable(root)
    BY <1>3, <1>7 DEF Placed
  <2>4. \A i, k \in DOMAIN joins' : joins'[i].target = joins'[k].target => i = k
    BY <1>3, <1>8, <2>3 DEF Placed
  <2>5. \A i \in DOMAIN joins' : joins'[i].target # Joinable(root)
    BY <1>3, <1>8, <2>31 DEF Placed
  <2>6. ASSUME NEW i \in DOMAIN joins'
        PROVE  \/ joins'[i].from = Joinable(root)
               \/ \E k \in 1..i - 1 : joins'[i].from = joins'[k].target
    <3>1. CASE i \in DOMAIN joins
      <4>1. \A k \in 1..i - 1 : k \in DOMAIN joins
        BY <1>8, <3>1
      <4> QED
        BY <1>3, <1>8, <3>1, <4>1 DEF Placed
    <3>2. CASE i = Len(joins) + 1
      <4>1. p = Joinable(root) \/ \E k \in DOMAIN joins : p = joins[k].target
        BY <1>3, <1>7 DEF Placed
      <4>2. DOMAIN joins = 1..i - 1
        BY <1>8, <3>2
      <4> QED
        BY <1>8, <3>2, <4>1, <4>2
    <3> QED
      BY <1>8, <3>1, <3>2
  <2>7. \A i \in DOMAIN tree \ pending' : Covered(i)'
    <3>1. joined \subseteq joined'
      BY <1>2
    <3>2. \A i \in DOMAIN tree \ pending : Covered(i)'
      BY <1>1, <1>3, <1>4, <3>1 DEF Placed, Covered
    <3>3. \A i : i = turn => Covered(i)'
      BY <1>1, <1>2, <1>4 DEF JoinsOn, Covered
    <3> QED
      BY <1>1, <3>2, <3>3
  <2>8. Joinable(root)' = Joinable(root) /\ {Joinable(e) : e \in Nodes}' = {Joinable(e) : e \in Nodes}
    <3>1. Joinable(root)' = Joinable(root)
      BY <1>1 DEF Joinable
    <3>2. \A e \in Nodes : Joinable(e)' = Joinable(e)
      BY <1>4
    <3> QED
      BY <1>1, <3>1, <3>2
  <2>9. (\A i \in DOMAIN joins : \/ joins[i].from = Joinable(root)
                                \/ \E k \in 1..i - 1 : joins[i].from = joins[k].target)'
    BY <2>6, <2>8
  <2>10. (\A i \in DOMAIN tree \ pending : Covered(i))'
    BY <1>1, <2>7
  <2> HIDE DEF Joinable, Covered, Nodes
  <2> QED
    BY <2>1, <2>2, <2>4, <2>5, <2>8, <2>9, <2>10 DEF Placed
<1>10. InOrder'
  <2> SUFFICES ASSUME ~ across
               PROVE  joined' = {ordered[k] : k \in 1..turn + 1} /\ pending' = turn + 1..Len(tree)
    BY <1>1 DEF InOrder
  <2>1. joined = {ordered[k] : k \in 1..turn} /\ pending = turn..Len(tree)
    BY <1>3 DEF InOrder
  <2>2. q = ordered[turn + 1]
    <3>1. ordered[j] \in joined
      BY <2>1
    <3> QED
      BY <1>7, <3>1 DEF Joinable
  <2>3. turn \in Nat
    BY DEF TreeInv, TreeTypeOK
  <2>4. pending' = turn + 1..Len(tree)
    BY <1>1, <1>6, <2>1, <2>3
  <2>5. 1..turn + 1 = (1..turn) \cup {turn + 1}
    BY <2>3
  <2> QED
    BY <1>2, <2>1, <2>2, <2>4, <2>5
<1> QED
  BY <1>1, <1>9, <1>10 DEF OrientInv

LEMMA PlacedKept ==
  ASSUME Placed, UNCHANGED <<edges, source, root, ordered, tree, across, pending, joined, joins>>
  PROVE  Placed'
<1>1. \A e : Joinable(e)' = Joinable(e)
  BY DEF Joinable
<1>2. Nodes' = Nodes
  BY DEF Nodes
<1>3. \A i : Covered(i)' = Covered(i)
  BY <1>1 DEF Covered
<1> QED
  BY <1>1, <1>2, <1>3 DEF Placed

\* A relation of a single query is never passed over.
LEMMA PassOverPlaces ==
  ASSUME TreeInv, OrientInv, PassOver
  PROVE  OrientInv'
<1>1. /\ position = "orient" /\ position' = "orient" /\ turn \in DOMAIN tree
      /\ UNCHANGED <<edges, source, root, ordered, tree, across, pending, joined, joins>>
      /\ turn \in pending => \A p, q \in Entities \cup Sources : ~ JoinsOn(tree[turn], p, q)
  BY DEF PassOver, input
<1>2. Placed /\ InOrder
  BY <1>1 DEF OrientInv
<1>3. across
  <2> SUFFICES ASSUME ~ across PROVE FALSE
    OBVIOUS
  <2>1. joined = {ordered[k] : k \in 1..turn} /\ pending = turn..Len(tree)
    BY <1>2 DEF InOrder
  <2>2. PICK j \in 1..turn : Ends(tree[turn]) = {ordered[j], ordered[turn + 1]}
    BY <1>1 DEF TreeInv, TreeConnects
  <2>3. /\ ordered \in Seq(Entities) /\ Len(ordered) = Len(tree) + 1 /\ Len(tree) \in Nat
        /\ DOMAIN tree = 1..Len(tree) /\ DOMAIN ordered = 1..Len(ordered) /\ turn \in Nat
    BY DEF TreeInv, TreeTypeOK
  <2>4. j \in DOMAIN ordered /\ turn + 1 \in DOMAIN ordered /\ turn \in pending
    BY <1>1, <2>1, <2>3
  <2>5. ordered[j] \in Entities /\ ordered[turn + 1] \in Entities
    BY <2>3, <2>4
  <2>6. \A k \in 1..turn : k \in DOMAIN ordered /\ k # turn + 1
    BY <1>1, <2>3
  <2>7. ordered[j] \in joined /\ ordered[turn + 1] \notin joined
    BY <2>1, <2>4, <2>6 DEF TreeInv, TreeConnects, Distinct
  <2>8. JoinsOn(tree[turn], ordered[j], ordered[turn + 1])
    <3>1. \/ edges[tree[turn]].from = ordered[j] /\ edges[tree[turn]].to = ordered[turn + 1]
          \/ edges[tree[turn]].to = ordered[j] /\ edges[tree[turn]].from = ordered[turn + 1]
      BY <2>2, <2>7 DEF Ends
    <3> QED
      BY <2>7, <3>1 DEF JoinsOn, Joinable
  <2> QED
    BY <1>1, <2>4, <2>5, <2>8
<1> QED
  BY <1>1, <1>2, <1>3, PlacedKept DEF OrientInv, InOrder

LEMMA PassEndPlaces ==
  ASSUME TreeInv, OrientInv, PassEnd
  PROVE  OrientInv'
<1>1. /\ position = "orient" /\ turn > Len(tree)
      /\ UNCHANGED <<edges, source, root, ordered, tree, across, pending, joined, joins>>
  BY DEF PassEnd, input
<1>2. Placed /\ InOrder
  BY <1>1 DEF OrientInv
<1>3. ~ across => pending = {}
  <2>1. turn \in Nat /\ Len(tree) \in Nat
    BY DEF TreeInv, TreeTypeOK
  <2> QED
    BY <1>1, <1>2, <2>1 DEF InOrder
<1>4. pending = {} => position' = "joined" /\ turn' = turn
  BY DEF PassEnd
<1>5. pending # {} => position' # "joined" /\ across
  BY <1>1, <1>3 DEF PassEnd
<1> QED
  BY <1>1, <1>2, <1>3, <1>4, <1>5, PlacedKept DEF OrientInv, InOrder

\* Where no relation is pending, all is joined: the least place that is not
\* would be related to one before it.
LEMMA AllJoined ==
  ASSUME TreeInv, Placed, pending = {}
  PROVE  joined = {Joinable(e) : e \in Nodes}
<1> DEFINE T == {i \in DOMAIN ordered : Joinable(ordered[i]) \notin joined}
<1>1. /\ ordered \in Seq(Entities) /\ ordered[1] = root /\ Len(ordered) = Len(tree) + 1
      /\ Len(tree) \in Nat
      /\ DOMAIN tree = 1..Len(tree) /\ DOMAIN ordered = 1..Len(ordered)
  BY DEF TreeInv, TreeTypeOK
<1>2. SUFFICES ASSUME T # {} PROVE FALSE
  BY DEF Placed, Nodes
<1>3. PICK m \in T : \A y \in T : m <= y
  <2>1. T \subseteq Nat
    BY <1>1
  <2> HIDE DEF T
  <2> QED
    BY <1>2, <2>1, Least
<1>4. m # 1
  BY <1>1 DEF Placed
<1>5. m - 1 \in DOMAIN tree /\ (m - 1) + 1 = m
  BY <1>1, <1>4
<1>6. PICK j \in 1..m - 1 : Ends(tree[m - 1]) = {ordered[j], ordered[m]}
  BY <1>5 DEF TreeInv, TreeConnects
<1>7. Joinable(ordered[j]) \in joined
  BY <1>1, <1>3, <1>5
<1>8. Covered(m - 1)
  BY <1>5 DEF Placed
<1> QED
  BY <1>3, <1>6, <1>7, <1>8 DEF Covered, Ends

LEMMA OrientStep == TreeInv /\ OrientInv /\ [TreeNext]_treeVars => OrientInv'
<1> SUFFICES ASSUME TreeInv, OrientInv, [TreeNext]_treeVars PROVE OrientInv'
  OBVIOUS
<1>1. CASE Seed \/ Visit \/ NotConnected \/ Walk \/ WalkEnd
  <2>1. position' \in {"tree", "search", "walk", "unconnected"}
    BY <1>1, VisitCases DEF Seed, Finds, NotConnected, Walk, WalkEnd
  <2> QED
    BY <2>1 DEF OrientInv
<1>2. CASE UNCHANGED treeVars
  <2>1. UNCHANGED <<edges, source, root, ordered, tree, across, pending, joined, joins, turn, position>>
    BY <1>2 DEF treeVars, input, orientation
  <2> QED
    BY <2>1, PlacedKept DEF OrientInv, InOrder
<1> QED
  BY <1>1, <1>2, BindPlaces, OrientPlaces, PassOverPlaces, PassEndPlaces DEF TreeNext

\* The relations of a query over one source can be oriented, and those that
\* can be oriented join every entity, or fragment, once.
THEOREM JoinsRight == TreeSpec => []JoinsEverythingOnce
<1>1. TreeInit => OrientInv
  BY DEF TreeInit, OrientInv
<1>2. TreeInv /\ OrientInv => JoinsEverythingOnce
  <2> SUFFICES ASSUME TreeInv, OrientInv PROVE JoinsEverythingOnce
    OBVIOUS
  <2>1. position = "stuck" => across
    BY DEF OrientInv, InOrder, TreeInv, TreeTypeOK
  <2>2. ASSUME position = "joined"
        PROVE  /\ {joins[i].target : i \in DOMAIN joins} = {Joinable(e) : e \in Nodes} \ {Joinable(root)}
               /\ \A i, j \in DOMAIN joins : joins[i].target = joins[j].target => i = j
               /\ \A i \in DOMAIN joins : \/ joins[i].from = Joinable(root)
                                          \/ \E j \in 1..i - 1 : joins[i].from = joins[j].target
    <3>1. Placed /\ pending = {}
      BY <2>2 DEF OrientInv
    <3>2. joined = {Joinable(e) : e \in Nodes}
      BY <3>1, AllJoined
    <3> QED
      BY <3>1, <3>2 DEF Placed
  <2> QED
    BY <2>1, <2>2 DEF JoinsEverythingOnce
<1> QED
  BY <1>1, <1>2, OrientStep, Invariance, PTL DEF TreeSpec

-----------------------------------------------------------------------------
(* The fragments of a task that reads several sources                       *)

\* The relations between sources, and those that bring in the first entity of
\* a source.
Cross == DOMAIN tree \ UNION {Local(s) : s \in Sources}
First(i) == \A j \in 1..i : source[ordered[j]] # source[ordered[i + 1]]
Joined(i) == \E k \in DOMAIN joins : joins[k].relation = i

FragInv ==
  across /\ position \in {"orient", "joined", "stuck"} =>
    /\ local = LocalJoins
    /\ pending \subseteq Cross
    /\ \A i \in Cross \ pending : Joined(i)

\* The tree, as the proofs below use it.
LEMMA TreeShape ==
  ASSUME TreeInv
  PROVE  /\ ordered \in Seq(Entities) /\ Len(ordered) = Len(tree) + 1 /\ Len(tree) \in Nat
         /\ DOMAIN tree = 1..Len(tree) /\ DOMAIN ordered = 1..Len(ordered)
         /\ ordered[1] = root /\ source \in [Entities -> Sources]
         /\ \A i \in DOMAIN ordered : ordered[i] \in Entities /\ source[ordered[i]] \in Sources
         /\ \A i, j \in DOMAIN ordered : ordered[i] = ordered[j] => i = j
<1>1. /\ ordered \in Seq(Entities) /\ Len(ordered) = Len(tree) + 1 /\ Len(tree) \in Nat
      /\ DOMAIN tree = 1..Len(tree) /\ DOMAIN ordered = 1..Len(ordered)
      /\ ordered[1] = root /\ source \in [Entities -> Sources]
  BY DEF TreeInv, TreeTypeOK
<1>2. \A i, j \in DOMAIN ordered : ordered[i] = ordered[j] => i = j
  BY DEF TreeInv, TreeConnects, Distinct
<1> QED
  BY <1>1, <1>2

LEMMA FragKept ==
  ASSUME FragInv, UNCHANGED <<edges, source, ordered, tree, across, local, pending, joins>>,
         position \in {"orient", "joined", "stuck"}
  PROVE  FragInv'
<1>1. LocalJoins' = LocalJoins /\ Cross' = Cross
  BY DEF LocalJoins, LocalTarget, IsLocalRoot, Local, Ends, Cross
<1>2. \A i : Joined(i)' = Joined(i)
  BY DEF Joined
<1> QED
  BY <1>1, <1>2 DEF FragInv

LEMMA FragStep == TreeInv /\ FragInv /\ [TreeNext]_treeVars => FragInv'
<1> SUFFICES ASSUME TreeInv, FragInv, [TreeNext]_treeVars PROVE FragInv'
  OBVIOUS
<1>1. CASE Seed \/ Visit \/ NotConnected \/ Walk \/ WalkEnd
  <2>1. position' \in {"tree", "search", "walk", "unconnected"}
    BY <1>1, VisitCases DEF Seed, Finds, NotConnected, Walk, WalkEnd
  <2> QED
    BY <2>1 DEF FragInv
<1>2. CASE Bind
  <2>1. UNCHANGED <<edges, source, ordered, tree>>
    BY <1>2 DEF Bind, input
  <2>2. LocalJoins' = LocalJoins /\ Cross' = Cross
    BY <2>1 DEF LocalJoins, LocalTarget, IsLocalRoot, Local, Ends, Cross
  <2>3. across' => local' = LocalJoins /\ pending' = Cross
    BY <1>2 DEF Bind, Cross
  <2> QED
    BY <2>2, <2>3 DEF FragInv
<1>3. CASE Orient
  <2>1. /\ position = "orient" /\ pending' = pending \ {turn}
        /\ UNCHANGED <<edges, source, ordered, tree, across, local>>
    BY <1>3 DEF Orient, input
  <2>2. LocalJoins' = LocalJoins /\ Cross' = Cross
    BY <2>1 DEF LocalJoins, LocalTarget, IsLocalRoot, Local, Ends, Cross
  <2>3. PICK p, q : joins' = Append(joins, [relation |-> turn, from |-> p, target |-> q])
    BY <1>3 DEF Orient
  <2>4. /\ Len(joins) \in Nat /\ DOMAIN joins = 1..Len(joins) /\ DOMAIN joins' = 1..Len(joins) + 1
        /\ \A k \in DOMAIN joins : joins'[k] = joins[k]
        /\ joins'[Len(joins) + 1] = [relation |-> turn, from |-> p, target |-> q]
    BY <2>3 DEF TreeInv, TreeTypeOK
  <2>5. \A i : Joined(i) => Joined(i)'
    BY <2>4 DEF Joined
  <2>6. \A i : i = turn => Joined(i)'
    <3>1. Len(joins) + 1 \in DOMAIN joins' /\ joins'[Len(joins) + 1].relation = turn
      BY <2>4
    <3> QED
      BY <3>1 DEF Joined
  <2>7. ASSUME across
        PROVE  /\ local' = LocalJoins' /\ pending' \subseteq Cross'
               /\ \A i \in Cross' \ pending' : Joined(i)'
    <3>1. /\ local = LocalJoins /\ pending \subseteq Cross
          /\ \A i \in Cross \ pending : Joined(i)
      BY <2>1, <2>7 DEF FragInv
    <3>2. ASSUME NEW i \in Cross \ pending'
          PROVE  Joined(i)'
      <4>1. i \in Cross \ pending \/ i = turn
        BY <2>1, <3>2
      <4> QED
        BY <2>5, <2>6, <3>1, <4>1
    <3> QED
      BY <2>1, <2>2, <3>1, <3>2
  <2> QED
    BY <2>1, <2>7 DEF FragInv
<1>4. CASE PassOver
  BY <1>4, FragKept DEF PassOver, input
<1>5. CASE PassEnd
  BY <1>5, FragKept DEF PassEnd, input
<1>6. CASE UNCHANGED treeVars
  <2>1. UNCHANGED <<position, edges, source, ordered, tree, across, local, pending, joins>>
    BY <1>6 DEF treeVars, input, orientation
  <2> QED
    BY <2>1, FragKept DEF FragInv
<1> QED
  BY <1>1, <1>2, <1>3, <1>4, <1>5, <1>6 DEF TreeNext

\* Every source a fragment is joined for has a first entity, and that entity
\* was brought in by a relation between sources.
LEMMA FirstOf ==
  ASSUME TreeInv, NEW e \in Nodes
  PROVE  \E m \in DOMAIN ordered :
           /\ source[ordered[m]] = source[e]
           /\ \A j \in 1..m - 1 : source[ordered[j]] # source[e]
           /\ m # 1 => m - 1 \in Cross /\ First(m - 1)
<1> DEFINE T == {i \in DOMAIN ordered : source[ordered[i]] = source[e]}
<1>1. T # {} /\ T \subseteq Nat
  BY TreeShape DEF Nodes
<1>2. PICK m \in T : \A y \in T : m <= y
  <2> HIDE DEF T
  <2> QED
    BY <1>1, Least
<1>3. m \in DOMAIN ordered /\ m \in Nat /\ source[ordered[m]] = source[e]
  BY <1>1, <1>2
<1>4. \A j \in 1..m - 1 : source[ordered[j]] # source[e]
  <2> SUFFICES ASSUME NEW j \in 1..m - 1, source[ordered[j]] = source[e] PROVE FALSE
    OBVIOUS
  <2>1. j \in T
    BY <1>3, TreeShape
  <2> QED
    BY <1>2, <1>3, <2>1
<1>5. ASSUME m # 1
      PROVE  m - 1 \in Cross /\ First(m - 1)
  <2>1. m - 1 \in DOMAIN tree /\ (m - 1) + 1 = m
    BY <1>3, <1>5, TreeShape
  <2>2. First(m - 1)
    BY <1>3, <1>4, <2>1 DEF First
  <2>3. PICK j \in 1..m - 1 : Ends(tree[m - 1]) = {ordered[j], ordered[m]}
    BY <2>1 DEF TreeInv, TreeConnects
  <2>4. \A s : m - 1 \notin Local(s)
    BY <1>3, <1>4, <2>3 DEF Local
  <2> QED
    BY <2>1, <2>2, <2>4 DEF Cross
<1> QED
  BY <1>3, <1>4, <1>5

\* Two first entities of a source are one.
LEMMA OneFirst ==
  ASSUME TreeInv, NEW m \in DOMAIN ordered, NEW n \in DOMAIN ordered,
         source[ordered[m]] = source[ordered[n]],
         \A j \in 1..m - 1 : source[ordered[j]] # source[ordered[m]],
         \A j \in 1..n - 1 : source[ordered[j]] # source[ordered[n]]
  PROVE  m = n
<1>1. m \in Nat /\ n \in Nat /\ m >= 1 /\ n >= 1
  BY TreeShape
<1>2. ~ (m < n) /\ ~ (n < m)
  BY <1>1
<1> QED
  BY <1>1, <1>2

LEMMA LocalRoots ==
  ASSUME TreeInv, NEW m \in DOMAIN ordered
  PROVE  IsLocalRoot(ordered[m]) <=> \A j \in 1..m - 1 : source[ordered[j]] # source[ordered[m]]
BY TreeShape DEF IsLocalRoot

\* There is a join for each relation between sources, and it joins a source of
\* its own; there is one such relation for each source but the first.  So none
\* of them connects two sources that were both there.
LEMMA CrossFirst ==
  ASSUME TreeInv, OrientInv, FragInv, position = "joined", across
  PROVE  \A i \in Cross : First(i)
<1> DEFINE Brings(i, m) ==
      First(m) /\ \E k \in DOMAIN joins :
                     joins[k].relation = i /\ joins[k].target = source[ordered[m + 1]]
           h == [i \in Cross |-> CHOOSE m \in Cross : Brings(i, m)]
<1>1. Placed /\ (\A i \in Cross : Joined(i)) /\ \A e : Joinable(e) = source[e]
  BY DEF OrientInv, FragInv, Joinable
<1>2. ASSUME NEW i \in Cross
      PROVE  \E m \in Cross : Brings(i, m)
  <2>1. PICK k \in DOMAIN joins : joins[k].relation = i
    BY <1>1 DEF Joined
  <2>2. /\ joins[k].target \in {source[e] : e \in Nodes}
        /\ joins[k].target # source[root]
    BY <1>1 DEF Placed
  <2>3. PICK e \in Nodes : joins[k].target = source[e]
    BY <2>2
  <2>4. PICK m \in DOMAIN ordered :
           /\ source[ordered[m]] = source[e]
           /\ m # 1 => m - 1 \in Cross /\ First(m - 1)
    BY FirstOf
  <2>5. m # 1 /\ (m - 1) + 1 = m
    BY <2>2, <2>3, <2>4, TreeShape
  <2>6. joins[k].target = source[ordered[(m - 1) + 1]]
    BY <2>3, <2>4, <2>5
  <2> QED
    BY <2>1, <2>4, <2>5, <2>6
<1>3. \A i \in Cross : h[i] \in Cross /\ Brings(i, h[i])
  <2> HIDE DEF Brings
  <2> QED
    BY <1>2
<1>4. ASSUME NEW a \in Cross, NEW b \in Cross, h[a] = h[b]
      PROVE  a = b
  <2> HIDE DEF h
  <2>1. PICK k \in DOMAIN joins : joins[k].relation = a /\ joins[k].target = source[ordered[h[a] + 1]]
    BY <1>3
  <2>2. PICK l \in DOMAIN joins : joins[l].relation = b /\ joins[l].target = source[ordered[h[b] + 1]]
    BY <1>3
  <2>3. k = l
    BY <1>1, <1>4, <2>1, <2>2 DEF Placed
  <2> QED
    BY <2>1, <2>2, <2>3
<1>5. h \in Injection(Cross, Cross)
  <2>1. h \in [Cross -> Cross] /\ DOMAIN h = Cross
    <3> HIDE DEF Brings
    <3> QED
      BY <1>3
  <2> HIDE DEF h
  <2> QED
    BY <1>4, <2>1 DEF Injection, IsInjective
<1>6. IsFiniteSet(Cross)
  <2>1. Len(tree) \in Int /\ 1 \in Int /\ DOMAIN tree = 1..Len(tree)
    BY TreeShape
  <2>2. IsFiniteSet(DOMAIN tree)
    BY <2>1, FS_Interval
  <2>3. Cross \in SUBSET DOMAIN tree
    BY DEF Cross
  <2> QED
    BY <2>2, <2>3, FS_Subset
<1>7. h \in Surjection(Cross, Cross)
  <2> HIDE DEF h
  <2> QED
    BY <1>5, <1>6, FS_Injection
<1> QED
  <2> SUFFICES ASSUME NEW i \in Cross PROVE First(i)
    OBVIOUS
  <2>1. PICK a \in Cross : h[a] = i
    <3> HIDE DEF h
    <3> QED
      BY <1>7 DEF Surjection
  <2> HIDE DEF h
  <2> QED
    BY <1>3, <2>1

\* The relations inside a source bring in, one by one, every entity of it but
\* the first.
LEMMA LocalBrings ==
  ASSUME TreeInv, OrientInv, FragInv, position = "joined", across, NEW s \in Sources
  PROVE  {e \in Nodes : source[e] = s /\ ~ IsLocalRoot(e)} = {ordered[i + 1] : i \in Local(s)}
<1>1. ASSUME NEW i \in Local(s)
      PROVE  ordered[i + 1] \in Nodes /\ source[ordered[i + 1]] = s /\ ~ IsLocalRoot(ordered[i + 1])
  <2>1. i \in DOMAIN tree /\ i + 1 \in DOMAIN ordered /\ (i + 1) - 1 = i
    BY TreeShape DEF Local
  <2>2. PICK j \in 1..i : Ends(tree[i]) = {ordered[j], ordered[i + 1]}
    BY <2>1 DEF TreeInv, TreeConnects
  <2>3. source[ordered[j]] = s /\ source[ordered[i + 1]] = s
    BY <2>2 DEF Local
  <2>4. ~ IsLocalRoot(ordered[i + 1])
    BY <2>1, <2>3, LocalRoots
  <2> QED
    BY <2>1, <2>3, <2>4 DEF Nodes
<1>2. ASSUME NEW e \in Nodes, source[e] = s, ~ IsLocalRoot(e)
      PROVE  \E i \in Local(s) : e = ordered[i + 1]
  <2>1. PICK m \in DOMAIN ordered : e = ordered[m]
    BY DEF Nodes
  <2>2. \E j \in 1..m - 1 : source[ordered[j]] = source[ordered[m]]
    BY <1>2, <2>1, LocalRoots
  <2>3. m - 1 \in DOMAIN tree /\ (m - 1) + 1 = m
    BY <2>1, <2>2, TreeShape
  <2>4. ~ First(m - 1)
    BY <2>2, <2>3 DEF First
  <2>5. PICK t \in Sources : m - 1 \in Local(t)
    BY <2>3, <2>4, CrossFirst DEF Cross
  <2>6. ordered[m] \in Ends(tree[m - 1])
    BY <2>3 DEF TreeInv, TreeConnects
  <2>7. t = s
    BY <1>2, <2>1, <2>5, <2>6 DEF Local
  <2> QED
    BY <2>1, <2>3, <2>5, <2>7
<1> QED
  BY <1>1, <1>2

\* A relation that starts at the root of its fragment, or leads towards it,
\* joins the entity it brought in.
LEMMA LocalTargets ==
  ASSUME TreeInv, NEW s \in Sources, LeadToRoot(s), NEW i \in Local(s)
  PROVE  LocalTarget(tree[i]) = ordered[i + 1]
<1>1. i \in DOMAIN tree /\ i + 1 \in DOMAIN ordered /\ (i + 1) - 1 = i /\ i # i + 1
  BY TreeShape DEF Local
<1>2. PICK j \in 1..i : Ends(tree[i]) = {ordered[j], ordered[i + 1]}
  BY <1>1 DEF TreeInv, TreeConnects
<1>3. ~ IsLocalRoot(ordered[i + 1])
  <2>1. source[ordered[j]] = s /\ source[ordered[i + 1]] = s
    BY <1>2 DEF Local
  <2> QED
    BY <1>1, <2>1, LocalRoots
<1>4. {edges[tree[i]].from, edges[tree[i]].to} = {ordered[j], ordered[i + 1]}
  BY <1>2 DEF Ends
<1>5. \/ IsLocalRoot(edges[tree[i]].from) \/ IsLocalRoot(edges[tree[i]].to)
      \/ edges[tree[i]].from = ordered[i + 1]
  BY DEF LeadToRoot, Ends
<1>6. CASE IsLocalRoot(edges[tree[i]].from)
  <2>1. edges[tree[i]].from # ordered[i + 1]
    BY <1>3, <1>6
  <2>2. edges[tree[i]].to = ordered[i + 1]
    BY <1>4, <2>1
  <2> QED
    BY <1>6, <2>2 DEF LocalTarget
<1>7. CASE ~ IsLocalRoot(edges[tree[i]].from)
  <2>1. edges[tree[i]].from = ordered[i + 1]
    <3>1. IsLocalRoot(edges[tree[i]].to) => edges[tree[i]].to # ordered[i + 1]
      BY <1>3
    <3> QED
      BY <1>4, <1>5, <1>7, <3>1
  <2> QED
    BY <1>7, <2>1 DEF LocalTarget
<1> QED
  BY <1>6, <1>7

LEMMA FragmentSize ==
  ASSUME TreeInv, OrientInv, FragInv, position = "joined", across, NEW s \in Sources,
         {e \in Nodes : source[e] = s} # {}
  PROVE  Cardinality({e \in Nodes : source[e] = s}) = Cardinality(Local(s)) + 1
<1> DEFINE here == {e \in Nodes : source[e] = s}
           rest == {e \in Nodes : source[e] = s /\ ~ IsLocalRoot(e)}
           f == [i \in Local(s) |-> ordered[i + 1]]
<1>1. PICK e \in Nodes : source[e] = s
  OBVIOUS
<1>2. PICK m \in DOMAIN ordered :
         source[ordered[m]] = s /\ \A j \in 1..m - 1 : source[ordered[j]] # s
  BY <1>1, FirstOf
<1>3. IsLocalRoot(ordered[m]) /\ ordered[m] \in here
  BY <1>2, LocalRoots DEF Nodes
<1>4. \A x \in here : IsLocalRoot(x) => x = ordered[m]
  <2> SUFFICES ASSUME NEW x \in here, IsLocalRoot(x) PROVE x = ordered[m]
    OBVIOUS
  <2>1. PICK n \in DOMAIN ordered : x = ordered[n]
    BY DEF Nodes
  <2>2. source[ordered[n]] = s /\ \A j \in 1..n - 1 : source[ordered[j]] # source[ordered[n]]
    BY <2>1, LocalRoots
  <2>3. source[ordered[m]] = source[ordered[n]]
    BY <1>2, <2>2
  <2> QED
    BY <1>2, <2>1, <2>2, <2>3, OneFirst
<1>5. here = rest \cup {ordered[m]} /\ ordered[m] \notin rest
  BY <1>3, <1>4
<1>6. rest = {ordered[i + 1] : i \in Local(s)}
  BY LocalBrings
<1>7. f \in Bijection(Local(s), rest)
  <2>1. \A a, b \in Local(s) : ordered[a + 1] = ordered[b + 1] => a = b
    <3>1. \A a \in Local(s) : a \in Nat /\ a + 1 \in DOMAIN ordered
      BY TreeShape DEF Local
    <3> QED
      BY <3>1, TreeShape
  <2> HIDE DEF rest
  <2>2. f \in [Local(s) -> rest] /\ DOMAIN f = Local(s)
    BY <1>6
  <2>3. IsInjective(f)
    BY <2>1, <2>2 DEF IsInjective
  <2>4. \A t \in rest : \E i \in Local(s) : f[i] = t
    BY <1>6
  <2> HIDE DEF f
  <2> QED
    BY <2>2, <2>3, <2>4 DEF Bijection, Injection, Surjection
<1>8. IsFiniteSet(Local(s))
  <2>1. Len(tree) \in Int /\ 1 \in Int /\ DOMAIN tree = 1..Len(tree)
    BY TreeShape
  <2>2. IsFiniteSet(DOMAIN tree)
    BY <2>1, FS_Interval
  <2>3. Local(s) \in SUBSET DOMAIN tree
    BY DEF Local
  <2> QED
    BY <2>2, <2>3, FS_Subset
<1>9. ExistsBijection(Local(s), rest)
  <2> HIDE DEF rest, f
  <2> QED
    BY <1>7 DEF ExistsBijection
<1>10. IsFiniteSet(rest) /\ Cardinality(rest) = Cardinality(Local(s))
  <2> HIDE DEF rest
  <2> QED
    BY <1>8, <1>9, FS_Bijection
<1>11. Cardinality(rest \cup {ordered[m]}) = Cardinality(rest) + 1
  <2> HIDE DEF rest
  <2> QED
    BY <1>5, <1>10, FS_AddElement
<1> QED
  BY <1>5, <1>10, <1>11

\* No fragment holds two entities that only another source connects, and its
\* joins bring in every entity but the first where they lead to its root.
THEOREM FragmentsWhole == TreeSpec => []WholeFragments
<1>1. TreeInit => OrientInv /\ FragInv
  BY DEF TreeInit, OrientInv, FragInv
<1>2. TreeInv /\ OrientInv /\ FragInv => WholeFragments
  <2> SUFFICES ASSUME TreeInv, OrientInv, FragInv, position = "joined", across, NEW s \in Sources
               PROVE  /\ {e \in Nodes : source[e] = s} # {} =>
                           Cardinality({e \in Nodes : source[e] = s}) = Cardinality(Local(s)) + 1
                      /\ LeadToRoot(s) =>
                           {j.target : j \in {j \in local : j.relation \in Local(s)}}
                             = {e \in {e \in Nodes : source[e] = s} : ~ IsLocalRoot(e)}
    BY DEF WholeFragments
  <2>1. ASSUME LeadToRoot(s)
        PROVE  {j.target : j \in {j \in local : j.relation \in Local(s)}}
                 = {e \in {e \in Nodes : source[e] = s} : ~ IsLocalRoot(e)}
    <3>1. local = LocalJoins
      BY DEF FragInv
    <3>2. {j.target : j \in {j \in local : j.relation \in Local(s)}}
            = {LocalTarget(tree[i]) : i \in Local(s)}
      <4>1. \A j \in local : j.target = LocalTarget(tree[j.relation])
        BY <3>1 DEF LocalJoins
      <4>2. \A i \in Local(s) : [relation |-> i, target |-> LocalTarget(tree[i])] \in local
        BY <3>1 DEF LocalJoins
      <4> QED
        BY <4>1, <4>2
    <3>3. \A i \in Local(s) : LocalTarget(tree[i]) = ordered[i + 1]
      BY <2>1, LocalTargets
    <3>4. {LocalTarget(tree[i]) : i \in Local(s)} = {ordered[i + 1] : i \in Local(s)}
      BY <3>3
    <3>5. {e \in Nodes : source[e] = s /\ ~ IsLocalRoot(e)} = {ordered[i + 1] : i \in Local(s)}
      BY LocalBrings
    <3> QED
      BY <3>2, <3>4, <3>5
  <2> QED
    BY <2>1, FragmentSize
<1> QED
  BY <1>1, <1>2, OrientStep, FragStep, Invariance, PTL DEF TreeSpec
=============================================================================
