-------------------------- MODULE MCGraphContracts --------------------------
(***************************************************************************)
(* Three kinds of graphs for GraphContracts: a calculation over queries, a *)
(* report that is written and mailed, and a text about pages of the web,   *)
(* each in sound and unsound forms.                                        *)
(***************************************************************************)
EXTENDS GraphContracts

MCAvailable == {"SELECT", "AGGREGATE", "CALCULATE", "SEARCH", "BROWSE", "ASK", "ACT"}

AnInput(alias, node, output, row) ==
    [alias |-> alias, node |-> node, output |-> output, row |-> row]
Whole(alias, node) == AnInput(alias, node, None, None)

Aggregate(id, dims, measure, fields, grain, members) ==
    [id |-> id, op |-> "AGGREGATE", depends |-> {}, inputs |-> <<>>, text |-> {}, dims |-> dims,
     measure |-> measure, fields |-> fields, grain |-> grain, members |-> members]

Select(id, columns, fields, grain) ==
    [id |-> id, op |-> "SELECT", depends |-> {}, inputs |-> <<>>, text |-> {},
     select |-> columns, fields |-> fields, grain |-> grain]

Web(op, depends, inputs, text) ==
    [id |-> "web", op |-> op, depends |-> depends, inputs |-> inputs, text |-> text]

Ask(id, depends, inputs, text) ==
    [id |-> id, op |-> "ASK", depends |-> depends, inputs |-> inputs, text |-> text]

Act(id, depends, inputs, text, mail) ==
    [id |-> id, op |-> "ACT", depends |-> depends, inputs |-> inputs, text |-> text, mail |-> mail]

-----------------------------------------------------------------------------
(* A calculation over sales and costs by month                              *)

Ref(a, f) == [kind |-> "node_output", input |-> a, field |-> f]
Binary(op, left, right, zero) ==
    [kind |-> "binary", op |-> op, left |-> left, right |-> right, zero |-> zero]
Function(name, args) == [kind |-> "function", name |-> name, args |-> args]
Output(name) == [kind |-> "output", name |-> name]
Sum == Ref("s", "sum")
Cost == Ref("c", "cost")
As(name, expression) == [name |-> name, expression |-> expression]

Margin == <<Sum, Cost, Binary("SUBTRACT", 1, 2, "NULL")>>
Ratio(zero) == <<Sum, Cost, Binary("SAFE_DIVIDE", 1, 2, zero)>>

Calculation(inputs, keys, domain, broadcast, outputs, selection, fields) ==
    [id |-> "calc", op |-> "CALCULATE", depends |-> {"sales", "costs"}, inputs |-> inputs,
     text |-> {}, keys |-> keys, domain |-> domain, broadcast |-> broadcast, outputs |-> outputs,
     selection |-> selection, fields |-> fields, grain |-> {"month"}]

Both == <<Whole("s", "sales"), Whole("c", "costs")>>
Keyed(outputs, domain, selection) ==
    Calculation(Both, <<"month">>, domain, FALSE, outputs, selection, {"month", "v"})

Best(kind) == [kind |-> kind, field |-> "v", take |-> 1, ties |-> {}]

Calculations ==
    {Keyed(<<As("v", Margin)>>, d, None) : d \in {"INNER", "LEFT", "OUTER"}}
    \cup {Keyed(<<As("v", e)>>, "OUTER", Best(k)) :
            e \in {Margin, <<Sum>>}, k \in {"MAX_BY", "BOTTOM_N"}}
    \cup {Keyed(<<As("month", <<Ref("s", "month")>>), As("v", <<Output("month")>>)>>, "OUTER", None),
          Keyed(<<As("v", Ratio("ERROR"))>>, "INNER", None),
          Keyed(<<As("v", Ratio("ZERO"))>>, "INNER", None),
          Keyed(<<As("v", <<Sum, Cost, Function("COALESCE", <<1, 2>>)>>)>>, "OUTER", None),
          Keyed(<<As("v", Append(Margin, Function("ABS", <<3>>)))>>, "LEFT", None),
          Keyed(<<As("v", <<Sum, Cost, Function("ROUND", <<1, 2>>)>>)>>, "LEFT", None),
          Keyed(<<As("v", <<Sum, Function("LOWER", <<1>>)>>)>>, "INNER", None),
          Keyed(<<As("v", << [kind |-> "case"] >>)>>, "INNER", None)}
    \cup {Calculation(Both, <<>>, "INNER", b, <<As("v", Margin)>>, None, {"v"}) : b \in BOOLEAN}
    \* refused: no input, a row of an input, an unknown field, an undeclared
    \* output, a selection by something else, an input in a text
    \cup {Calculation(<<>>, <<>>, "INNER", TRUE, <<>>, None, {}),
          Calculation(<<AnInput("s", "sales", None, 0)>>, <<>>, "INNER", TRUE,
                      <<As("v", <<Sum>>)>>, None, {"v"}),
          Keyed(<<As("v", <<Ref("s", "cost")>>)>>, "INNER", None),
          Keyed(<<As("w", Margin)>>, "INNER", None),
          Keyed(<<As("v", Margin)>>, "INNER", [Best("TOP_N") EXCEPT !.field = "w"]),
          [Keyed(<<As("v", Margin)>>, "INNER", None) EXCEPT !.text = {"s"}]}

Query2(dims) ==
    <<Aggregate("sales", dims, "sum", {}, {}, FALSE), Aggregate("costs", dims, "cost", {}, {}, FALSE)>>

CalculationGraphs ==
    {Append(Query2({"month"}), c) : c \in Calculations}
    \cup {<<Aggregate("sales", {"month"}, "sum", {"profit"}, {}, FALSE),
            Aggregate("costs", {"month"}, "cost", {}, {}, m),
            Keyed(<<As("v", <<Ref("s", "profit")>>)>>, "LEFT", None)>> : m \in BOOLEAN}
    \* a list beside a query: its contract declares what it selects, or more
    \cup {<<Select("sales", {"month"}, fields, {"month"}), Query2({"month"})[2],
            Keyed(<<As("v", <<Ref("s", f)>>)>>, "LEFT", None)>> :
            fields \in {{"month"}, {"month", "sum"}}, f \in {"month", "sum"}}

-----------------------------------------------------------------------------
(* A report on one figure that is mailed                                    *)

Figure == AnInput("x", "data", "n", 0)
Report == AnInput("x", "report", "value", 0)

Data == Aggregate("data", {"month"}, "n", {}, {}, FALSE)

Reports ==
    {Ask("report", {"data"}, inputs, text) :
        inputs \in {<<>>, <<Figure>>, <<Whole("x", "data")>>, <<AnInput("x", "data", "n", None)>>,
                    <<AnInput("x", "data", "m", 0)>>},
        text \in {{}, {"x"}}}

Mails ==
    {Act("mail", depends, inputs, text, mail) :
        depends \in {{"report"}, {"data", "report"}, {"data"}},
        inputs \in {<<>>, <<Report>>, <<AnInput("x", "report", "value", None)>>, <<Figure>>},
        text \in {{}, {"x"}}, mail \in BOOLEAN}

\* A note that is written from a report, and the other way round.
Note(from) == Ask("note", {from}, <<AnInput("x", from, "value", 0)>>, {"x"})
FromNote == Ask("report", {"note"}, <<AnInput("x", "note", "value", 0)>>, {})

ReportGraphs ==
    {<<Data, r, m>> : r \in Reports, m \in Mails}
    \cup {<<m, r, Data>> : r \in Reports, m \in {m \in Mails : m.inputs = <<Report>>}}
    \cup {<<Data, r, Note("report"), m>> : r \in Reports, m \in {m \in Mails : m.inputs = <<Report>>}}
    \cup {<<Data, FromNote, Note("report"), m>> : m \in {m \in Mails : m.inputs = <<Report>>}}
    \cup {<<r, m>> : r \in {FromNote, Ask("report", {}, <<>>, {})}, m \in Mails}
    \cup {<<Data, Data>>}

-----------------------------------------------------------------------------
(* A text about pages, which may be searched for by a figure                *)

Found == {AnInput("x", "web", f, k) : f \in {"content", "language", "webLinks", None}, k \in {None, 0}}

WebGraphs ==
    {<<Web(op, {}, <<>>, {}), Ask("report", {"web"}, <<x>>, text)>> :
        op \in Webs, x \in Found, text \in {{}, {"x"}}}
    \cup {<<Data, Web("SEARCH", {"data"}, <<Figure>>, {"x"}), Note("web")>>,
          <<Select("data", {"n"}, {"n"}, {}), Web("BROWSE", {"data"}, <<Figure>>, {"x"})>>,
          <<Select("data", {"n"}, {"n", "m"}, {}),
            Ask("report", {"data"}, <<AnInput("x", "data", "m", None)>>, {})>>}

MCGraphs == CalculationGraphs \cup ReportGraphs \cup WebGraphs
=============================================================================
