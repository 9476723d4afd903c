---------------------------- MODULE MCCompilation ----------------------------
(* Two asks of one question by one user, over two ontologies: one needs a   *)
(* resolver, the other two. A graph of a just created ontology needs none.  *)
EXTENDS Compilation, TLC

CONSTANTS o1, o2, u1, q1, g1, g2, r1, r2, m1, m2

MCInitial ==
  LET first(v, g) == [visibility |-> v, graph |-> g]
  IN {(o1 :> first("shared", g1)) @@ (o2 :> first("public", g2)),
      (o1 :> first("shared", g2)) @@ (o2 :> Absent)}
MCUser == [a \in Asks |-> u1]
MCQuestion == [a \in Asks |-> q1]
MCModelName == [a \in Asks |-> NoModel]
(* The asks have the same user, question and model. *)
AsksAlike == Permutations(Asks)
MCUses == (NewGraph :> {}) @@ (g1 :> {r1}) @@ (g2 :> {r1, r2})
MCConcepts == (NewGraph :> {}) @@ (g1 :> {"c1"}) @@ (g2 :> {"c1", "c2"})
MCOperatorsOf == (r1 :> {"SELECT"}) @@ (r2 :> {"ASK"})
=============================================================================
