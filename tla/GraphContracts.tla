--------------------------- MODULE GraphContracts ---------------------------
(***************************************************************************)
(* What the compiler accepts of the task graph a language model wrote, and *)
(* what becomes of it: the checks of SQG and of Compiler (core/logical.py, *)
(* engine/compiler.py), the inputs a task is given, the calculations over  *)
(* earlier results and the texts that are formatted with them              *)
(* (engine/coordinator.py).  The checks speak of declared contracts, the   *)
(* coordinator works on the rows that arrive.                              *)
(*                                                                         *)
(* A row is a function from field names to values.  PlanExecution has the  *)
(* threads, AggregatePlans the queries behind an AGGREGATE: here the tasks *)
(* of a wave run in any order, and a query gives any rows of its columns.  *)
(***************************************************************************)
EXTENDS Integers, Sequences, FiniteSets

CONSTANTS
    TaskGraphs, \* what the language model may write: sequences of tasks
    Available,  \* the operators the ontologies offer
    KeyValues,  \* the values of a dimension
    Amounts,    \* the values of a measure, besides None
    MaxRows,    \* bound: the rows of a SELECT, and the pages of a SEARCH
    None,
    Links,      \* stands for a list, the value of the links of a page
    Raised      \* stands for a value that is not there because Python raised

Values == Int \cup {None}

Queries == {"SELECT", "AGGREGATE"}
Webs == {"SEARCH", "BROWSE"}

\* A node of an expression at position k, of which those before it are the
\* operands.
ParsedNode(n, k) ==
    \/ n.kind = "literal" /\ n.value \in Values
    \/ n.kind \in {"node_output", "output"}
    \/ n.kind \in {"attribute", "column", "time_bucket", "aggregate", "case"}
    \/ n.kind = "unary" /\ n.operand \in 1..k - 1
    \/ /\ n.kind = "binary" /\ n.left \in 1..k - 1 /\ n.right \in 1..k - 1
       /\ n.op \in {"ADD", "SUBTRACT", "MULTIPLY", "DIVIDE", "SAFE_DIVIDE"}
    \/ /\ n.kind = "function" /\ n.args \in Seq(1..k - 1)
       /\ n.name \in {"COALESCE", "ABS", "ROUND", "LOWER", "UPPER"}

IsSeq(s) == s \in Seq({s[k] : k \in DOMAIN s})

\* What the types of the nodes let through, as far as a run depends on it.  An
\* expression is the sequence of its nodes, and the last one is its value.
ParsedSpec(t) ==
    /\ t.keys \in Seq(STRING) /\ t.domain \in {"INNER", "LEFT", "OUTER"}
    /\ IsSeq(t.outputs)
    /\ \A k \in DOMAIN t.outputs : LET e == t.outputs[k].expression IN
          /\ IsSeq(e) /\ e # <<>>
          /\ \A j \in DOMAIN e : ParsedNode(e[j], j)
    /\ t.selection # None => t.selection.take \in Nat \ {0}

Parsed(t) ==
    /\ IsSeq(t.inputs)
    /\ \A k \in DOMAIN t.inputs :
          /\ t.inputs[k].row \in Nat \cup {None}
          /\ \A j \in DOMAIN t.inputs : t.inputs[j].alias = t.inputs[k].alias => j = k
    /\ t.op = "CALCULATE" => ParsedSpec(t)

ASSUME ValuesOK ==
    /\ KeyValues \cup Amounts \subseteq Int /\ None \notin Int /\ Raised \notin Values
    /\ MaxRows \in Nat
ASSUME GraphsParsed == \A g \in TaskGraphs : \A i \in DOMAIN g : Parsed(g[i])

VARIABLES
    graph,      \* its nodes, in order
    stage,      \* the check that comes next, or "run"
    wave,       \* the tasks of the wave that have not run
    results     \* ctx.results, by position in the graph

graphVars == <<graph, stage, wave, results>>

GraphInit == graph \in TaskGraphs /\ stage = "graph" /\ wave = {} /\ results = <<>>

-----------------------------------------------------------------------------
(* The graph                                                                *)

Tasks == DOMAIN graph
Ids == {graph[i].id : i \in Tasks}
Of(op) == {i \in Tasks : graph[i].op = op}
Place(id) == CHOOSE i \in Tasks : graph[i].id = id

\* The inputs of a task are a sequence: the order of its dictionary.
Inputs(t) == {t.inputs[k] : k \in DOMAIN t.inputs}
Aliases(t) == {r.alias : r \in Inputs(t)}
InputOf(t, a) == CHOOSE r \in Inputs(t) : r.alias = a
InputNodes(t) == {r.node : r \in Inputs(t)}

Structured == {i \in Tasks : graph[i].op \in Queries \cup Webs \cup {"CALCULATE"}}

\* The result contract, as AggregateSpec completes it.
Contracted == {i \in Tasks : graph[i].op \in Queries \cup {"CALCULATE"}}
Grain(t) == IF t.op = "AGGREGATE" /\ t.grain = {} THEN t.dims ELSE t.grain
Fields(t) == IF t.op = "AGGREGATE" THEN t.fields \cup t.dims \cup {t.measure} ELSE t.fields

\* Two of the fields that are declared of a page found, or browsed.
PageFields(op) == IF op = "SEARCH" THEN {"content", "language"} ELSE {"content", "webLinks"}

OutputFields(t) ==
    CASE t.op \in Queries \cup {"CALCULATE"} -> Fields(t)
      [] t.op \in Webs -> PageFields(t.op)
      [] t.op \in {"ASK", "ACT"} -> {"value"}

GraphValid ==
    /\ \A i, j \in Tasks : graph[i].id = graph[j].id => i = j
    /\ \A i \in Tasks :
         /\ graph[i].id \notin graph[i].depends
         /\ graph[i].depends \subseteq Ids
         /\ InputNodes(graph[i]) \subseteq Ids
         /\ InputNodes(graph[i]) \subseteq graph[i].depends

OperatorsMounted == \A i \in Tasks : graph[i].op \in Available

\* What can be reached from S: it is in every set that S leads into and that
\* no edge leaves.
Closure(edges, S) ==
    {n \in Ids : \A T \in SUBSET Ids : S \subseteq T /\ (\A m \in T : edges[m] \subseteq T) => n \in T}

Ancestors(i) ==
    LET before == [n \in Ids |-> graph[Place(n)].depends] IN Closure(before, graph[i].depends)

\* Mutation: what a task waits for counts as its data.
DataAncestorsByOrder(i) == Ancestors(i)

DataAncestors(i) ==
    LET read == [n \in Ids |-> InputNodes(graph[Place(n)])] IN Closure(read, InputNodes(graph[i]))

Named(S) == {graph[i].id : i \in S}

DataReachesTexts ==
    Structured # {} => \A i \in Of("ASK") : DataAncestors(i) \cap Named(Structured) # {}

\* EMAIL.SEND takes the text of a report and depends on the ASK that wrote it.
MailTakesReport(i) ==
    LET asks == Named(Of("ASK")) IN
    /\ Structured # {} => Ancestors(i) \cap asks # {}
    /\ Ancestors(i) \cap asks # {} => DataAncestors(i) \cap Ancestors(i) \cap asks # {}
    /\ \A r \in Inputs(graph[i]) : r.node \in asks => r.output = "value" /\ r.row # None

BusinessValid ==
    /\ DataReachesTexts
    /\ \A i \in Of("AGGREGATE") : ~graph[i].members
    /\ \A i \in Of("ACT") : graph[i].mail => MailTakesReport(i)

\* The placeholders anywhere in the spec of a task, whatever it is.
Texts(t) == t.text

\* Mutation: one of output and row makes a scalar.
ScalarLoosely(r) == r.output # None \/ r.row # None

Scalar(r) == r.output # None /\ r.row # None

RuntimeInputsValid ==
    \A i \in Tasks : LET t == graph[i] IN
        /\ \A r \in Inputs(t) : r.output # None => r.output \in OutputFields(graph[Place(r.node)])
        /\ Texts(t) \subseteq Aliases(t)
        /\ \A a \in Texts(t) : Scalar(InputOf(t, a))

-----------------------------------------------------------------------------
(* Expressions                                                              *)

Refs(e) == {n \in {e[k] : k \in DOMAIN e} : n.kind = "node_output"}

\* Quotients are rounded.
Divided(left, right, zero) ==
    CASE right > 0 -> left \div right
      [] right < 0 -> (-left) \div (-right)
      [] right = 0 -> IF zero = "ZERO" THEN 0 ELSE IF zero = "ERROR" THEN Raised ELSE None

Combined(e, left, right) ==
    IF Raised \in {left, right} THEN Raised
    ELSE IF None \in {left, right} THEN None
    ELSE CASE e.op = "ADD"      -> left + right
           [] e.op = "SUBTRACT" -> left - right
           [] e.op = "MULTIPLY" -> left * right
           [] e.op \in {"DIVIDE", "SAFE_DIVIDE"} -> Divided(left, right, e.zero)

FirstGiven(values) ==
    LET given == {k \in DOMAIN values : values[k] # None} IN
    IF given = {} THEN None ELSE values[CHOOSE k \in given : \A j \in given : k <= j]

\* ABS and ROUND of None raise, unlike arithmetic.
Absolute(values) ==
    IF values = <<>> \/ values[1] = None THEN Raised
    ELSE IF values[1] < 0 THEN -values[1] ELSE values[1]

\* Whole numbers are round; digits left of the point are not modelled.
Rounded(values) ==
    IF values = <<>> \/ None \in {values[k] : k \in DOMAIN values \cap {1, 2}} THEN Raised ELSE values[1]

\* The types let LOWER and UPPER through, and _eval knows neither.
Applied(name, values) ==
    IF \E k \in DOMAIN values : values[k] = Raised THEN Raised
    ELSE CASE name = "COALESCE" -> FirstGiven(values)
           [] name = "ABS"      -> Absolute(values)
           [] name = "ROUND"    -> Rounded(values)
           [] name \in {"LOWER", "UPPER"} -> Raised

At(row, f) == IF f \in DOMAIN row THEN row[f] ELSE None

\* What a node gives, of the values of those before it.  inputs: the row of
\* every alias.  outputs: the outputs before this one.  The kinds that belong
\* in a query raise.
NodeValue(n, value, inputs, outputs) ==
    CASE n.kind = "literal" -> n.value
      [] n.kind = "node_output" -> At(inputs[n.input], n.field)
      [] n.kind = "output" -> At(outputs, n.name)
      [] n.kind = "unary" -> IF value[n.operand] \in {None, Raised} THEN value[n.operand] ELSE -value[n.operand]
      [] n.kind = "binary" -> Combined(n, value[n.left], value[n.right])
      [] n.kind = "function" -> Applied(n.name, [k \in DOMAIN n.args |-> value[n.args[k]]])
      [] OTHER -> Raised

Eval(e, inputs, outputs) ==
    LET value[k \in DOMAIN e] == NodeValue(e[k], value, inputs, outputs) IN value[Len(e)]

Names(t) == {t.outputs[k].name : k \in DOMAIN t.outputs}

Selects(t) ==
    t.selection # None => t.selection.field \in Names(t) /\ t.selection.ties \subseteq Names(t)

CalculateValid ==
    \A i \in Of("CALCULATE") :
        LET t == graph[i]
            contract == [r \in Inputs(t) |-> graph[Place(r.node)]]
        IN
        /\ Inputs(t) # {}
        /\ \A r \in Inputs(t) : r.output = None /\ r.row = None
        /\ \A r \in Inputs(t) : Place(r.node) \in Contracted
        /\ \A k \in DOMAIN t.keys : \A r \in Inputs(t) : t.keys[k] \in Grain(contract[r])
        /\ \/ Cardinality(Inputs(t)) = 1 \/ t.keys # <<>> \/ t.broadcast
           \/ \A r \in Inputs(t) : Grain(contract[r]) = {}
        /\ \A k \in DOMAIN t.outputs : \A e \in Refs(t.outputs[k].expression) :
              \E r \in Inputs(t) : r.alias = e.input /\ e.field \in Fields(contract[r])
        /\ Names(t) \subseteq t.fields
        /\ Selects(t)

-----------------------------------------------------------------------------
(* The checks, in the order _compile_llm makes them                         *)

Check(first, holds, next) ==
    /\ stage = first
    /\ stage' = IF holds THEN next ELSE "refused"
    /\ UNCHANGED <<graph, wave, results>>

CheckGraph == Check("graph", GraphValid, "operators")
CheckOperators == Check("operators", OperatorsMounted, "business")
CheckBusiness == Check("business", BusinessValid, "inputs")
CheckInputs == Check("inputs", RuntimeInputsValid, "calculate")
CheckCalculate == Check("calculate", CalculateValid, "run")

-----------------------------------------------------------------------------
(* The run                                                                  *)

Done == DOMAIN results

\* The plan has the queries first: the others depend on those and on what
\* comes before them in the graph.
PlanDeps(i) ==
    IF graph[i].op \in Queries THEN {}
    ELSE {j \in Tasks : graph[j].id \in graph[i].depends /\ (graph[j].op \in Queries \/ j < i)}

NextWave ==
    /\ stage = "run" /\ wave = {} /\ Done # Tasks
    /\ wave' = {i \in Tasks \ Done : PlanDeps(i) \subseteq Done}
    /\ UNCHANGED <<graph, stage, results>>

\* told: the structured tasks whose data the result is made of.
Success(rows, told) == [rows |-> rows, error |-> "none", told |-> told]
Failure(why) == [rows |-> <<>>, error |-> why, told |-> {}]

Deliver(i, result) ==
    /\ stage = "run" /\ i \in wave
    /\ wave' = wave \ {i}
    /\ results' = [j \in Done \cup {i} |-> IF j = i THEN result ELSE results[j]]
    /\ UNCHANGED <<graph, stage>>

UpstreamFailed(i) == \E j \in PlanDeps(i) : results[j].error # "none"

Skip(i) == UpstreamFailed(i) /\ Deliver(i, Failure("skipped"))

\* The rows of an AGGREGATE have its dimensions and its measure, one row a
\* group.
GroupRows(t) ==
    LET Groups == [t.dims -> KeyValues]
        Row(g, v) == [f \in t.dims \cup {t.measure} |-> IF f = t.measure THEN v ELSE g[f]]
        Orders(G) == {o \in [1..Cardinality(G) -> G] : \A i, j \in DOMAIN o : o[i] = o[j] => i = j}
    IN  UNION {UNION {{[k \in DOMAIN o |-> Row(o[k], v[k])] : v \in [DOMAIN o -> Amounts \cup {None}]} :
                         o \in Orders(G)} :
               G \in {G \in SUBSET Groups : IsFiniteSet(G) /\ (t.dims = {} => G # {})}}

\* Those of a SELECT have what it selects.
SelectedRows(t) ==
    UNION {[1..n -> [t.select -> KeyValues \cup Amounts \cup {None}]] : n \in 0..MaxRows}

QueryRows(t) == IF t.op = "SELECT" THEN SelectedRows(t) ELSE GroupRows(t)

Query(i) ==
    /\ graph[i].op \in Queries
    /\ \E rows \in QueryRows(graph[i]) : Deliver(i, Success(rows, {i}))

\* A resolver, or the query, may fail.
ServiceFails(i) ==
    /\ graph[i].op # "CALCULATE" /\ ~UpstreamFailed(i)
    /\ Deliver(i, Failure("service"))

\* What a reference gives: a problem, or whether it is a scalar and which.
Problem(r) ==
    LET j == Place(r.node)
        row == results[j].rows[r.row + 1]
    IN
    IF j \notin Done THEN "no source"
    ELSE IF r.row = None
      THEN IF \E k \in DOMAIN results[j].rows : r.output \notin {None} \cup DOMAIN results[j].rows[k]
             THEN "no output" ELSE "none"
    ELSE IF r.row >= Len(results[j].rows) THEN "no row"
    ELSE IF r.output \notin {None} \cup DOMAIN row THEN "no output" ELSE "none"

\* A text is formatted only if it names one of the inputs.
TextProblem(t) ==
    LET scalar(a) == InputOf(t, a).output # None /\ InputOf(t, a).row # None
        value(a) == LET r == InputOf(t, a) IN results[Place(r.node)].rows[r.row + 1][r.output]
    IN
    IF Texts(t) \cap Aliases(t) = {} THEN "none"
    ELSE IF ~(Texts(t) \subseteq Aliases(t)) THEN "unknown input"
    ELSE IF \E a \in Texts(t) : ~scalar(a) THEN "not a scalar"
    ELSE IF \E a \in Texts(t) : value(a) \in {None, Links} THEN "null"
    ELSE "none"

InputProblems(t) == {Problem(r) : r \in Inputs(t)} \ {"none"}
Told(t) == UNION {results[j].told : j \in {Place(r.node) : r \in Inputs(t)} \cap Done}

\* _search_row and _browse leave out what a page has no value for.
Page(S) == [f \in S |-> IF f = "webLinks" THEN Links ELSE "text"]
PageRows(op) ==
    UNION {[1..n -> {Page(S) : S \in SUBSET PageFields(op)}] :
               n \in IF op = "SEARCH" THEN 0..MaxRows ELSE {1}}

\* _capability_call and the resolver after it: the web, a text, an action.
\* All inputs are resolved before a text is formatted.
Capability(i) ==
    LET t == graph[i] IN
    /\ t.op \in Webs \cup {"ASK", "ACT"} /\ ~UpstreamFailed(i)
    /\ IF InputProblems(t) # {}
         THEN \E why \in InputProblems(t) : Deliver(i, Failure(why))
         ELSE IF TextProblem(t) # "none" THEN Deliver(i, Failure(TextProblem(t)))
         ELSE IF t.op \in Webs
           THEN \E rows \in PageRows(t.op) : Deliver(i, Success(rows, {i}))
           ELSE Deliver(i, Success(<<[value |-> "text"]>>, Told(t)))

\* The rows of an input: none if it has no result.
Dataset(r) == IF Place(r.node) \in Done THEN results[Place(r.node)].rows ELSE <<>>

KeyOf(row, keys) == [k \in DOMAIN keys |-> At(row, keys[k])]

\* The last row of an input with a key, or no fields at all.
Indexed(r, key, keys) ==
    LET rows == Dataset(r)
        hits == {k \in DOMAIN rows : KeyOf(rows[k], keys) = key}
    IN  IF hits = {} THEN <<>> ELSE rows[CHOOSE k \in hits : \A j \in hits : j <= k]

KeysOf(r, keys) == {KeyOf(Dataset(r)[k], keys) : k \in DOMAIN Dataset(r)}

\* Mutation: LEFT keeps the keys of the last input.
DomainOfLast(t) ==
    CASE t.domain = "INNER" ->
           {key \in KeysOf(t.inputs[1], t.keys) : \A r \in Inputs(t) : key \in KeysOf(r, t.keys)}
      [] t.domain = "LEFT"  -> KeysOf(t.inputs[Len(t.inputs)], t.keys)
      [] t.domain = "OUTER" -> UNION {KeysOf(r, t.keys) : r \in Inputs(t)}

Domain(t) ==
    CASE t.domain = "INNER" ->
           {key \in KeysOf(t.inputs[1], t.keys) : \A r \in Inputs(t) : key \in KeysOf(r, t.keys)}
      [] t.domain = "LEFT"  -> KeysOf(t.inputs[1], t.keys)
      [] t.domain = "OUTER" -> UNION {KeysOf(r, t.keys) : r \in Inputs(t)}

\* The elements of S in an order, which is a set of pairs.
Sorted(S, order) ==
    [p \in 1..Cardinality(S) |->
        CHOOSE x \in S : Cardinality({y \in S : <<y, x>> \in order}) = p - 1]

\* None goes last as text: "None" is greater than a number.
TextBefore(v, w) == v # None /\ (w = None \/ v < w)
KeyBefore(x, y) ==
    \E k \in DOMAIN x : TextBefore(x[k], y[k]) /\ \A j \in 1..k - 1 : x[j] = y[j]
KeyOrder(keys) == {e \in keys \X keys : KeyBefore(e[1], e[2])}

\* _align: the row of every input, by alias, for every key of the domain.
\* Without keys it is the first row of each.
InputRows(t, key) ==
    [a \in Aliases(t) |->
        LET r == InputOf(t, a) IN
        IF t.keys # <<>> THEN Indexed(r, key, t.keys)
        ELSE IF Dataset(r) = <<>> THEN <<>> ELSE Dataset(r)[1]]
Align(t) == IF t.keys = <<>> THEN << <<>> >> ELSE Sorted(Domain(t), KeyOrder(Domain(t)))

\* The last of the first n outputs that has a name, and what the names of the
\* first n stand for, of the values of the outputs.
LastNamed(t, f, n) ==
    CHOOSE k \in 1..n : t.outputs[k].name = f /\ \A j \in k + 1..n : t.outputs[j].name # f
NamedValues(t, value, n) ==
    [f \in {t.outputs[k].name : k \in 1..n} |-> value[LastNamed(t, f, n)]]

\* The outputs of a row, each with the ones before it.
OutputValues(t, inputs) ==
    LET value[k \in DOMAIN t.outputs] ==
            Eval(t.outputs[k].expression, inputs, NamedValues(t, value, k - 1))
    IN  value
Outputs(t, inputs) == NamedValues(t, OutputValues(t, inputs), Len(t.outputs))

\* An output takes the place of a key that has its name.
Calculated(t, key) ==
    LET outputs == Outputs(t, InputRows(t, key)) IN
    [f \in {t.keys[k] : k \in DOMAIN t.keys} \cup Names(t) |->
        IF f \in Names(t) THEN outputs[f] ELSE key[CHOOSE k \in DOMAIN t.keys : t.keys[k] = f]]

CalculatedRows(t) == [p \in DOMAIN Align(t) |-> Calculated(t, Align(t)[p])]

\* Some expression raises, and with it the task.
Raises(t) ==
    \E p \in DOMAIN Align(t) : \E k \in DOMAIN t.outputs :
        OutputValues(t, InputRows(t, Align(t)[p]))[k] = Raised

Reverse(t) == t.selection.kind \in {"MAX_BY", "TOP_N"}

\* Mutation: None goes to the end of the ascending order, whatever the order.
SortValueAscending(v, reverse) == IF v = None THEN <<1, 0>> ELSE <<0, v>>

\* _sort_value: None is infinite, and last.
SortValue(v, reverse) ==
    IF v = None THEN IF reverse THEN <<-1, 0>> ELSE <<1, 0>> ELSE <<0, v>>
Smaller(x, y) == x[1] < y[1] \/ (x[1] = y[1] /\ x[2] < y[2])

\* list.sort is stable, in both directions.
RowBefore(t, rows, p, q) ==
    LET v == SortValue(rows[p][t.selection.field], Reverse(t))
        w == SortValue(rows[q][t.selection.field], Reverse(t))
    IN  (IF Reverse(t) THEN Smaller(w, v) ELSE Smaller(v, w)) \/ (v = w /\ p < q)
RowOrder(t, rows) == {e \in (DOMAIN rows) \X (DOMAIN rows) : RowBefore(t, rows, e[1], e[2])}

SelectRows(t, rows) ==
    LET order == Sorted(DOMAIN rows, RowOrder(t, rows)) IN
    [p \in 1..IF t.selection.take < Len(rows) THEN t.selection.take ELSE Len(rows) |->
        rows[order[p]]]

RunCalculate(i) ==
    LET t == graph[i]
        rows == CalculatedRows(t)
    IN
    /\ t.op = "CALCULATE" /\ ~UpstreamFailed(i)
    /\ IF Raises(t)
         THEN Deliver(i, Failure("raised"))
         ELSE Deliver(i, Success(IF t.selection = None THEN rows ELSE SelectRows(t, rows), Told(t)))

RunTask == \E i \in wave : Skip(i) \/ Query(i) \/ ServiceFails(i) \/ Capability(i) \/ RunCalculate(i)

GraphNext ==
    \/ CheckGraph \/ CheckOperators \/ CheckBusiness \/ CheckInputs \/ CheckCalculate
    \/ NextWave \/ RunTask

GraphSpec == GraphInit /\ [][GraphNext]_graphVars

-----------------------------------------------------------------------------
(* Properties                                                               *)

\* Every task comes after what it depends on.
Listed == \A i \in Tasks : \A j \in Tasks : graph[j].id \in graph[i].depends => j < i

\* A contract declares the fields that arrive.
Honest ==
    \A i \in Contracted : LET t == graph[i] IN
        IF t.op = "AGGREGATE" THEN Fields(t) = t.dims \cup {t.measure}
        ELSE IF t.op = "SELECT" THEN Fields(t) \subseteq t.select
        ELSE Fields(t) \subseteq Names(t) \cup {t.keys[k] : k \in DOMAIN t.keys}

Sent == {i \in Of("ACT") \cap Done : graph[i].mail /\ results[i].error = "none"}

\* A mail that goes out of a graph with structured tasks tells their data: the
\* checks of the tasks one by one add up, along every chain of inputs.
MailTellsData == Listed /\ Structured # {} => \A i \in Sent : results[i].told # {}

\* A page that an input reads lacks the field it names.
PageLacks(r) == graph[Place(r.node)].op \in Webs /\ Problem(r) = "no output"

MayFailOf(i, why) ==
    \/ why \in {"none", "service", "skipped", "no row", "null", "raised"}
    \/ why = "no output" /\ \E r \in Inputs(graph[i]) : PageLacks(r)

\* Where the tasks are listed in order and contracts declare what arrives,
\* what the compiler accepted fails for want of a service, of a row, of a
\* value, of a function _eval has not or of a field that a page came without,
\* never of an input, a scalar or a field of a query, a calculation or a text.
AcceptedGraphsRun == Listed /\ Honest => \A i \in Done : MayFailOf(i, results[i].error)

KeyedBy(r, keys) ==
    \A p, q \in DOMAIN Dataset(r) :
        KeyOf(Dataset(r)[p], keys) = KeyOf(Dataset(r)[q], keys) => p = q

Plain(i) ==
    LET t == graph[i] IN
    /\ i \in Of("CALCULATE") \cap Done /\ results[i].error = "none" /\ Listed
    /\ t.selection = None /\ t.keys # <<>> /\ \A r \in Inputs(t) : KeyedBy(r, t.keys)

RowAt(r, p) == IF p = 0 THEN <<>> ELSE Dataset(r)[p]
Chosen(t, c) == [a \in Aliases(t) |-> RowAt(InputOf(t, a), c[a])]

\* A combination of a row of every input, by its position, or of none (0)
\* where the domain allows an input to be absent.
Combines(t, c) ==
    LET present == {a \in Aliases(t) : c[a] # 0}
        key == [a \in present |-> KeyOf(Chosen(t, c)[a], t.keys)]
    IN
    /\ present # {}
    /\ \A a, b \in present : key[a] = key[b]
    /\ \A a \in Aliases(t) \ present : \A b \in present :
           \A p \in DOMAIN Dataset(InputOf(t, a)) :
               KeyOf(Dataset(InputOf(t, a))[p], t.keys) # key[b]
    /\ t.domain = "INNER" => present = Aliases(t)
    /\ t.domain = "LEFT" => t.inputs[1].alias \in present

Positions(r) == 0..Len(Dataset(r))

Combinations(t) ==
    {c \in [Aliases(t) -> UNION {Positions(r) : r \in Inputs(t)}] :
        (\A a \in Aliases(t) : c[a] \in Positions(InputOf(t, a))) /\ Combines(t, c)}

\* A calculation over inputs that keep to its keys is the join its domain
\* names: every combination of rows gives one row with its outputs, and
\* nothing else does.
CalculatesTheJoin ==
    \A i \in Done : Plain(i) =>
        LET t == graph[i]
            rows == results[i].rows
            outputs == [c \in Combinations(t) |-> Outputs(t, Chosen(t, c))]
            agree(p, c) == \A f \in Names(t) : rows[p][f] = outputs[c][f]
        IN
        /\ Len(rows) = Cardinality(Combinations(t))
        /\ \A c \in Combinations(t) : \E p \in DOMAIN rows :
              /\ agree(p, c)
              /\ \A k \in DOMAIN t.keys : \A a \in Aliases(t) :
                    c[a] # 0 /\ t.keys[k] \notin Names(t) =>
                      rows[p][t.keys[k]] = At(Chosen(t, c)[a], t.keys[k])

Better(t, v, w) == v # None /\ (w = None \/ IF Reverse(t) THEN v > w ELSE v < w)

\* A selection keeps the best rows: fewer than it takes are better than one it
\* keeps, and none is left out while there is room.  A row without a value is
\* worse than any other.
SelectionKeepsBest ==
    \A i \in Of("CALCULATE") \cap Done :
        LET t == graph[i]
            all == CalculatedRows(t)
            kept == results[i].rows
        IN  Listed /\ t.selection # None /\ results[i].error = "none" =>
              /\ Len(kept) = IF Len(all) < t.selection.take THEN Len(all) ELSE t.selection.take
              /\ \A p \in DOMAIN kept :
                    Cardinality({q \in DOMAIN all : Better(t, all[q][t.selection.field],
                                                           kept[p][t.selection.field])})
                      < t.selection.take
=============================================================================
