--------------------------- MODULE MCAggregatePlans ---------------------------
(* Instances of AggregatePlans for TLC.                                      *)
EXTENDS AggregatePlans, TLC

\* Up to two rows of the given contents, which may be equal.
TablesOf(contents) ==
    {{[n |-> 1] @@ x : x \in X} : X \in {S \in SUBSET contents : Cardinality(S) <= 2}}
        \cup {{[n |-> i] @@ x : i \in {1, 2}} : x \in contents}

FactTables == TablesOf([k : {1, 2}, v : {Null, 1, 2}, c : Categories])
DimTables == TablesOf([k : {1, 2}, g : Categories])
DimSample == {{}, {[n |-> 1, k |-> 1, g |-> "in"]},
              {[n |-> 1, k |-> 1, g |-> "out"], [n |-> 1, k |-> 2, g |-> "in"]}}

Trusted == [max |-> "1", min |-> 1, trusted |-> TRUE]
Optional == [max |-> "1", min |-> 0, trusted |-> TRUE]
Unknown == [max |-> "unknown", min |-> 0, trusted |-> FALSE]

TaskWith(fns, bys, scopes, aboves, policies) ==
    [fn : fns, distinct : {FALSE}, by : bys, scope : scopes, above : aboves, unmatched : policies]
Distinct(tasks) == {[s EXCEPT !.distinct = TRUE] : s \in tasks}
Joined == {"EXCLUDE_UNMATCHED", "KEEP_AS_UNKNOWN"}

CasesOf(facts, dims, relations, splits, kinds, tasks) ==
    [facts : facts, dims : dims, relation : relations, split : splits, kind : kinds, tasks : tasks]

\* One task over two sources.
DistinctTasks == Distinct(TaskWith({"SUM", "COUNT", "MAX"}, {{"g"}}, {{"fact"}}, {FALSE}, Joined))
CrossTasks ==
    [{"n1"} -> TaskWith({"SUM", "COUNT", "MAX"}, {{}, {"g"}}, {{}, {"fact", "dim"}, {"either"}}, {FALSE}, Joined)
        \cup TaskWith({"SUM", "COUNT"}, {{"g"}}, {{"fact"}, {"dim"}}, {TRUE}, Joined)
        \cup TaskWith({"COUNT", "MIN"}, {{"c", "g"}}, {{"fact"}}, {FALSE}, {"ERROR_ON_UNMATCHED"})
        \cup DistinctTasks]
CrossCases ==
    CasesOf(FactTables, DimTables, {Trusted}, {TRUE}, {"csv"}, CrossTasks)
        \cup CasesOf(FactTables, DimTables, {Unknown}, {TRUE}, {"sql"}, CrossTasks)

\* One task that an SQL source cannot aggregate.
LiftedCases ==
    CasesOf(FactTables, DimSample, {Optional}, BOOLEAN, {"csv", "sql"},
             [{"n1"} -> TaskWith({"MEDIAN"}, {{}, {"c"}, {"g"}}, {{}, {"fact", "dim"}}, {FALSE}, Joined)
                            \cup Distinct(TaskWith({"MEDIAN"}, {{"g"}}, {{"fact"}}, {FALSE}, Joined))])

\* Two tasks that may share a query.
FusedTasks ==
    {[n1 |-> x, n2 |-> y] :
        x \in TaskWith({"SUM", "MIN"}, {{}, {"c"}, {"g"}}, {{}, {"fact"}, {"fact", "dim"}}, BOOLEAN, Joined)
            \cup Distinct(TaskWith({"SUM"}, {{}, {"c"}, {"g"}}, {{"fact"}}, {FALSE}, Joined)),
        y \in TaskWith({"COUNT"}, {{}, {"c"}, {"g"}}, {{"dim"}, {"fact"}, {"either"}}, {FALSE}, Joined)}
FusedCases ==
    CasesOf(FactTables, DimSample, {Optional}, {FALSE}, {"csv"},
            {q \in FusedTasks : q.n1.by = q.n2.by /\ q.n1.unmatched = q.n2.unmatched})

AllCases == CrossCases \cup LiftedCases \cup FusedCases
DistinctCases ==
    CasesOf(FactTables, DimSample, {Trusted}, {TRUE}, {"csv"}, [{"n1"} -> DistinctTasks])
OverTwoSources ==
    CasesOf(FactTables, DimSample, {Unknown}, {TRUE}, {"csv"},
            {q \in CrossTasks : q.n1.unmatched = "EXCLUDE_UNMATCHED"})
=============================================================================
