----------------------------- MODULE MCJoinTrees -----------------------------
(* Four entities in three sources, a task about any of them, and every      *)
(* ontology that has, of each of four pairs, no relation, one, or one the   *)
(* other way; of the first pair it may have both.                           *)
EXTENDS JoinTrees, TLC

CONSTANTS e1, e2, e3, e4

Relation(x, y) == [from |-> x, to |-> y]
Related(x, y) == {<<>>, <<Relation(x, y)>>, <<Relation(y, x)>>}

MCRelationLists ==
    {a \o b \o c \o d : a \in Related(e1, e2) \cup {<<Relation(e1, e2), Relation(e2, e1)>>},
                        b \in Related(e1, e3), c \in Related(e2, e3), d \in Related(e3, e4)}

SourcesAlike == Permutations(Sources)
=============================================================================
