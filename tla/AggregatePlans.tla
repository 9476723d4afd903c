---------------------------- MODULE AggregatePlans ----------------------------
(***************************************************************************)
(* What the plans of aggregate tasks compute: the rewrites of the          *)
(* optimizer (engine/optimizer.py: fusion, fragments over two sources,     *)
(* pre-aggregation) over the contents of the tables, and the queries of    *)
(* the fragments with the meaning their SQL has (the query renderers).     *)
(*                                                                         *)
(* A task counts or combines the column v of its subject, the facts, which *)
(* a relation connects to the dimension table: the row of a fact names one *)
(* in column k.  Column c of a fact and column g of a dimension row are    *)
(* what tasks filter and group by.                                         *)
(***************************************************************************)
EXTENDS Integers, FiniteSets, FiniteSetsExt

CONSTANTS
    Cases,  \* the questions, over their tables: see WellFormed
    Null,   \* the value of no value
    NoRow   \* stands for the dimension row of a fact that has none

Categories == {"in", "out"}
Functions == {"SUM", "COUNT", "MIN", "MAX", "MEDIAN"}
Conjuncts == {"fact", "dim", "either"}
Columns == {"c", "g"}

\* A fact carries its number, so that equal facts are two; so does a
\* dimension row.
Fact(f) == f.k # NoRow /\ f.v \in Int \cup {Null} /\ f.c \in Categories
Dimension(d) == d # NoRow /\ d.g \in Categories

Task == [fn : Functions, distinct : BOOLEAN,
         by : SUBSET Columns, scope : SUBSET Conjuncts,
         above : BOOLEAN,  \* result_filter: only values above 1
         unmatched : {"EXCLUDE_UNMATCHED", "KEEP_AS_UNKNOWN", "ERROR_ON_UNMATCHED"}]

\* The tables, what the ontology says of the relation, whether the dimension
\* table is in another source, the type of the sources, and the tasks.
WellFormed(case) ==
    /\ IsFiniteSet(case.facts) /\ IsFiniteSet(case.dims)
    /\ \A f \in case.facts : Fact(f)
    /\ \A d \in case.dims : Dimension(d)
    /\ case.relation \in [max : {"1", "many", "unknown"}, min : {0, 1}, trusted : BOOLEAN]
    /\ case.split \in BOOLEAN
    /\ case.kind \in {"csv", "sql"}
    /\ case.tasks \in [DOMAIN case.tasks -> Task]

ASSUME ConstantsOK ==
    /\ NoRow # Null /\ Null \notin Int
    /\ "in" # Null /\ "out" # Null
    /\ \A case \in Cases : WellFormed(case)

-----------------------------------------------------------------------------
(* Queries.  A row of a join is a fact with a dimension row, or NoRow.       *)

C(r) == r[1].c
G(r) == IF r[2] = NoRow THEN Null ELSE r[2].g

\* The tables whose columns a conjunct reads, and when a row satisfies it:
\* the last is the disjunction of the others, and no comparison holds of Null.
Reads(p) == CASE p = "fact" -> {"facts"}
              [] p = "dim" -> {"dims"}
              [] OTHER -> {"facts", "dims"}
Holds(p, r) == CASE p = "fact" -> C(r) = "in"
                 [] p = "dim" -> G(r) = "in"
                 [] OTHER -> C(r) = "in" \/ G(r) = "in"
Filter(scope, rows) == {r \in rows : \A p \in scope : Holds(p, r)}

Matches(f, d) == f.k # Null /\ f.k = d.k
Alone(facts) == {<<f, NoRow>> : f \in facts}
Join(facts, dims, type) ==
    {r \in facts \X dims : Matches(r[1], r[2])}
        \cup IF type = "LEFT" THEN Alone({f \in facts : \A d \in dims : ~Matches(f, d)}) ELSE {}

\* Two medians are equal when they are taken of the same values.
Aggregate(fn, rows) ==
    LET known == {r \in rows : r[1].v # Null}
        value == [r \in known |-> r[1].v]
        values == {value[r] : r \in known}
    IN  IF fn # "COUNT" /\ known = {} THEN Null
        ELSE CASE fn = "COUNT" -> Cardinality(known)
               [] fn = "SUM" -> SumFunction(value)
               [] fn = "MIN" -> Min(values)
               [] fn = "MAX" -> Max(values)
               [] OTHER -> [x \in values |-> Cardinality({r \in known : value[r] = x})]

\* DISTINCT keeps one row of every value.
OneOfEach(rows) == {CHOOSE r \in rows : r[1].v = x : x \in {r[1].v : r \in rows}}
\* The renderers write it for every function but the percentiles.
AggregateOf(fn, distinct, rows) ==
    Aggregate(fn, IF distinct /\ fn # "MEDIAN" THEN OneOfEach(rows) ELSE rows)

Key(r, by) == [column \in by |-> IF column = "c" THEN C(r) ELSE G(r)]
\* Without dimensions a query returns one row, even over no rows.
Keys(rows, by) == IF by = {} THEN {[column \in {} |-> Null]} ELSE {Key(r, by) : r \in rows}
Group(rows, by, key) == {r \in rows : Key(r, by) = key}
GroupBy(rows, by, fn, distinct) ==
    {[key |-> key, value |-> AggregateOf(fn, distinct, Group(rows, by, key))] : key \in Keys(rows, by)}
ResultFilter(t, output) == {o \in output : t.above => o.value # Null /\ o.value > 1}

-----------------------------------------------------------------------------
VARIABLES
    asked,    \* the case
    phase,    \* where the ask is
    plan,     \* what the optimizer decided for every task
    fetched,  \* the results of the source fragments of every task
    answer    \* the result of every task: its rows, unless it failed

vars == <<asked, phase, plan, fetched, answer>>

Tasks == DOMAIN asked.tasks
TaskOf(t) == asked.tasks[t]

\* The entities of a task are its subject and those its attributes belong to.
NeedsDims(s) == "g" \in s.by \/ \E p \in s.scope : "dims" \in Reads(p)

JoinType(s) == IF s.unmatched = "KEEP_AS_UNKNOWN" THEN "LEFT" ELSE "INNER"
\* _join_type raises: the policy requires a mandatory and trusted relation.
Unbindable(s) ==
    /\ NeedsDims(s)
    /\ s.unmatched = "ERROR_ON_UNMATCHED"
    /\ ~(asked.relation.min = 1 /\ asked.relation.trusted)

Scan(s) == IF NeedsDims(s) THEN Join(asked.facts, asked.dims, JoinType(s)) ELSE Alone(asked.facts)
\* The rows a task asks about, and what it asks of them: one query over one
\* source, as _single_source builds it.
RowsOf(s) == Filter(s.scope, Scan(s))
SingleQuery(s) == ResultFilter(s, GroupBy(RowsOf(s), s.by, s.fn, s.distinct))

-----------------------------------------------------------------------------
(* Optimizer._physical                                                      *)

Sources(s) == IF asked.split /\ NeedsDims(s) THEN {"facts", "dims"} ELSE {"facts"}
RequiresCompute(s) == asked.kind = "sql" /\ s.fn = "MEDIAN"
FusionKey(s) == <<NeedsDims(s), s.by, s.unmatched>>
Local(s) == Cardinality(Sources(s)) = 1 /\ ~RequiresCompute(s)
GroupOf(t) == {u \in Tasks : Local(TaskOf(u)) /\ FusionKey(TaskOf(u)) = FusionKey(TaskOf(t))}

\* _preaggregate_candidate: whatever the task says of distinct.
Preaggregated(s) ==
    /\ Cardinality(Sources(s)) = 2
    /\ s.fn \in {"SUM", "COUNT", "MIN", "MAX"}
    /\ asked.relation.max = "1" /\ asked.relation.trusted

\* The conjuncts that the source fragments of a task filter by: the common ones
\* of a group, and over two sources those that read one source alone.
Pushed(t, form) ==
    CASE form = "fused" -> {p \in Conjuncts : \A u \in GroupOf(t) : p \in TaskOf(u).scope}
      [] form = "cross" -> {p \in TaskOf(t).scope : Cardinality(Reads(p)) = 1}
      [] OTHER -> TaskOf(t).scope
\* Mutation: the conjuncts of one task alone are forgotten.
BranchNone(t, form) == {}

\* The conjuncts that the aggregate of a fused task filters by itself.
Branch(t, form) == IF form = "fused" THEN TaskOf(t).scope \ Pushed(t, form) ELSE {}

Form(t) ==
    IF Local(TaskOf(t))
    THEN IF Cardinality(GroupOf(t)) > 1 THEN "fused" ELSE "single"
    ELSE IF Cardinality(Sources(TaskOf(t))) = 2 THEN "cross" ELSE "lifted"

Decide(t) ==
    [form |-> Form(t), pushed |-> Pushed(t, Form(t)), branch |-> Branch(t, Form(t)),
     partial |-> Form(t) = "cross" /\ Preaggregated(TaskOf(t))]

Init ==
    /\ asked \in Cases
    /\ phase = "bound"
    /\ plan = <<>> /\ fetched = <<>> /\ answer = <<>>

Plan ==
    /\ phase = "bound"
    /\ IF \E t \in Tasks : Unbindable(TaskOf(t))
       THEN phase' = "rejected" /\ UNCHANGED plan
       ELSE phase' = "planned" /\ plan' = [t \in Tasks |-> Decide(t)]
    /\ UNCHANGED <<asked, fetched, answer>>

-----------------------------------------------------------------------------
(* Source fragments                                                         *)

OnFacts(scope) == {f \in asked.facts : \A p \in scope : Reads(p) = {"facts"} => Holds(p, <<f, NoRow>>)}
OnDims(scope, d) == \A p \in scope : Reads(p) = {"dims"} => d.g = "in"

\* The facts grouped by the key of the relation; nothing else is kept.
Partials(s, facts) ==
    {[k |-> k, v |-> AggregateOf(s.fn, s.distinct, Alone({f \in facts : f.k = k}))] :
        k \in {f.k : f \in facts}}

Tables(t) ==
    LET facts == OnFacts(plan[t].pushed)
    IN  [facts |-> IF plan[t].partial THEN Partials(TaskOf(t), facts) ELSE facts,
         dims |-> {d \in asked.dims : OnDims(plan[t].pushed, d)}]

\* The column of a task in the query it shares with its group.
FusedColumn(t) ==
    LET rows == Filter(plan[t].pushed, Scan(TaskOf(t)))
    IN  {[key |-> key,
          value |-> AggregateOf(TaskOf(t).fn, TaskOf(t).distinct,
                                Filter(plan[t].branch, Group(rows, TaskOf(t).by, key)))] :
            key \in Keys(rows, TaskOf(t).by)}

FetchOf(t) ==
    CASE plan[t].form = "cross" -> Tables(t)
      [] plan[t].form = "lifted" -> Filter(plan[t].pushed, Scan(TaskOf(t)))
      [] plan[t].form = "fused" -> FusedColumn(t)
      [] OTHER -> SingleQuery(TaskOf(t))

Fetch ==
    /\ phase = "planned"
    /\ phase' = "fetched"
    /\ fetched' = [t \in Tasks |-> FetchOf(t)]
    /\ UNCHANGED <<asked, plan, answer>>

-----------------------------------------------------------------------------
(* Compute fragments                                                        *)

\* A query of the compute engine refers to a column that its tables have not:
\* a table loaded from no rows of an SQL source has no columns, and a partial
\* aggregate has only the key.
ColumnMissing(t) ==
    LET empty(table) == asked.kind = "sql" /\ table = {}
    IN  CASE plan[t].form = "cross" -> \/ empty(fetched[t].facts) \/ empty(fetched[t].dims)
                                       \/ plan[t].partial /\ "c" \in TaskOf(t).by
          [] plan[t].form = "lifted" -> empty(fetched[t])
          [] plan[t].form = "fused" -> TaskOf(t).above /\ empty(fetched[t])
          [] OTHER -> FALSE

\* What remains to be aggregated, and by what: partial counts are summed.
Combined(t) == Join(fetched[t].facts, fetched[t].dims, JoinType(TaskOf(t)))

\* Mutation: partial counts are counted.
FinalSame(t) == TaskOf(t).fn

FinalFunction(t) ==
    IF plan[t].partial /\ TaskOf(t).fn = "COUNT" THEN "SUM" ELSE TaskOf(t).fn
\* The aggregate over partials is written anew, without DISTINCT.
FinalDistinct(t) == TaskOf(t).distinct /\ ~plan[t].partial

AnswerOf(t) ==
    CASE plan[t].form = "cross" ->
            ResultFilter(TaskOf(t), GroupBy(Combined(t), TaskOf(t).by, FinalFunction(t), FinalDistinct(t)))
      [] plan[t].form = "lifted" ->
            ResultFilter(TaskOf(t), GroupBy(fetched[t], TaskOf(t).by, TaskOf(t).fn, TaskOf(t).distinct))
      [] plan[t].form = "fused" -> ResultFilter(TaskOf(t), fetched[t])
      [] OTHER -> fetched[t]

\* Any fragment may fail, and with it the result of its task.
Compute ==
    /\ phase = "fetched"
    /\ phase' = "answered"
    /\ \E failed \in SUBSET Tasks :
        /\ \A t \in Tasks : ColumnMissing(t) => t \in failed
        /\ answer' = [t \in Tasks |-> [failed |-> t \in failed,
                                    rows |-> IF t \in failed THEN {} ELSE AnswerOf(t)]]
    /\ UNCHANGED <<asked, plan, fetched>>

Next == Plan \/ Fetch \/ Compute
Spec == Init /\ [][Next]_vars

-----------------------------------------------------------------------------
(* Properties                                                               *)

\* The type of the state: a plan filters by conjuncts of its task only, each
\* in one place, and only a task over two sources is pre-aggregated.
TypeOK ==
    /\ WellFormed(asked)
    /\ phase \in {"bound", "rejected", "planned", "fetched", "answered"}
    /\ phase \in {"planned", "fetched", "answered"} =>
        /\ DOMAIN plan = Tasks
        /\ \A t \in Tasks :
            /\ plan[t].form \in {"single", "fused", "lifted", "cross"}
            /\ plan[t].pushed \subseteq TaskOf(t).scope
            /\ plan[t].branch \subseteq TaskOf(t).scope \ plan[t].pushed
            /\ plan[t].partial \in BOOLEAN
            /\ plan[t].partial => plan[t].form = "cross"

\* The scope of a task can be applied by the fragments: over two sources every
\* conjunct reads one table, and none reads the dimensions of a LEFT join.
Separable(s) ==
    Cardinality(Sources(s)) = 2 =>
        \A p \in s.scope : \/ Reads(p) = {"facts"}
                           \/ Reads(p) = {"dims"} /\ JoinType(s) = "INNER"

\* The rows that the aggregate of a task is taken over, where it is taken once.
Contributing(t) ==
    CASE plan[t].form = "cross" -> Combined(t)
      [] plan[t].form = "fused" -> Filter(plan[t].branch, Filter(plan[t].pushed, Scan(TaskOf(t))))
      [] OTHER -> Filter(plan[t].pushed, Scan(TaskOf(t)))

\* Splitting the scope of a task among the fragments (split_conjuncts, the
\* common conjuncts of a fused query, the filters of the sources) loses no row
\* and lets in no other: what is aggregated are the rows the task is about.
SameRows ==
    phase = "fetched" =>
        \A t \in Tasks : Separable(TaskOf(t)) /\ ~plan[t].partial => Contributing(t) = RowsOf(TaskOf(t))

\* A sum of no partial counts is Null where the count is 0.
Known(s, o) == IF s.fn = "COUNT" /\ o.value = Null THEN [o EXCEPT !.value = 0] ELSE o

\* For the groups of a task, its answer has the values of one query over one
\* source.
AsOneQuery(t) ==
    {Known(TaskOf(t), o) : o \in {x \in answer[t].rows : x.key \in Keys(RowsOf(TaskOf(t)), TaskOf(t).by)}}
        = SingleQuery(TaskOf(t))

\* The partials of a task determine its aggregate: those of the distinct
\* values do for an extreme, not for a sum or a count (see DistinctFirst).
Decomposes(t) == plan[t].partial /\ TaskOf(t).distinct => TaskOf(t).fn \in {"MIN", "MAX"}

\* Whatever the plan, a task that is answered gets for its groups what one
\* query over one source would have returned: pre-aggregation, exchange,
\* fusion and a result filter applied afterwards change no value.  Set aside
\* are the sums and counts of distinct values that are pre-aggregated, which
\* do go wrong.
SameAnswer ==
    phase = "answered" =>
        \A t \in Tasks : Separable(TaskOf(t)) /\ Decomposes(t) /\ ~answer[t].failed => AsOneQuery(t)

\* Only fusion adds groups, and what it adds are groups without a value: no
\* task is told a value of rows that it did not ask about.
NothingInvented ==
    phase = "answered" =>
        \A t \in Tasks : Separable(TaskOf(t)) /\ ~answer[t].failed =>
            \A o \in answer[t].rows : o.key \notin Keys(RowsOf(TaskOf(t)), TaskOf(t).by) =>
                plan[t].form = "fused" /\ o.value = Aggregate(TaskOf(t).fn, {})

\* src/doc/sqg_pep_operator_manual.md:287 says of distinct that values are
\* deduplicated before they are aggregated, of whatever sources they come.
DistinctFirst ==
    phase = "answered" =>
        \A t \in Tasks : Separable(TaskOf(t)) /\ TaskOf(t).distinct /\ ~answer[t].failed => AsOneQuery(t)

\* src/doc/sqg_pep_operator_manual.md:428 says of the scope of a task that it
\* filters rows before they are aggregated.
ScopeApplied ==
    phase = "fetched" =>
        \A t \in Tasks : ~plan[t].partial =>
            \A r \in Contributing(t) : \A p \in TaskOf(t).scope : Holds(p, r)

=============================================================================
