----------------------------- MODULE MCPlanning -----------------------------
(***************************************************************************)
(* From a question to its joins: an ask is compiled (Compilation), the     *)
(* graph a model answers is checked and run (GraphContracts), the entities *)
(* of a task are joined (JoinTrees).  The three share no state: one of     *)
(* them takes all the steps of a behaviour, the others rest.               *)
(***************************************************************************)
EXTENDS MCCompilation, MCGraphContracts, MCJoinTrees

VARIABLE part

AskRests ==
    /\ RegistryInit
    /\ onto = (CHOOSE rows \in Initial : TRUE) /\ grants = [o \in Ontologies |-> {}]
    /\ edit = NoEdit /\ edits = 0 /\ routes = {} /\ sqgs = {}
    /\ at = [a \in Asks |-> "start"] /\ attempts = [a \in Asks |-> 0]
    /\ row = [a \in Asks |-> NoRow] /\ sqg = [a \in Asks |-> NoSqg]
    /\ candidates = [a \in Asks |-> {}] /\ picked = candidates /\ scope = candidates
    /\ operators = candidates /\ seen = candidates

GraphRests == graph = <<>> /\ stage = "graph" /\ wave = {} /\ results = <<>>

TreeRests ==
    /\ edges = <<>> /\ source = [e \in Entities |-> CHOOSE s \in Sources : TRUE]
    /\ root = (CHOOSE e \in Entities : TRUE) /\ required = {root}
    /\ position = "tree" /\ ordered = <<root>> /\ tree = <<>>
    /\ queue = <<>> /\ paths = <<>> /\ walk = <<>>
    /\ across = FALSE /\ local = {} /\ pending = {} /\ turn = 1 /\ progressed = FALSE
    /\ joined = {} /\ joins = <<>>

PlanningInit ==
    \/ part = "ask" /\ Init /\ GraphRests /\ TreeRests
    \/ part = "graph" /\ GraphInit /\ AskRests /\ TreeRests
    \/ part = "tree" /\ TreeInit /\ AskRests /\ GraphRests

PlanningNext ==
    /\ UNCHANGED part
    /\ \/ part = "ask" /\ Next /\ UNCHANGED <<graphVars, treeVars>>
       \/ part = "graph" /\ GraphNext /\ UNCHANGED <<vars, treeVars>>
       \/ part = "tree" /\ TreeNext /\ UNCHANGED <<vars, graphVars>>

PlanningSpec == PlanningInit /\ [][PlanningNext]_<<part, vars, graphVars, treeVars>>

Alike == AsksAlike \cup SourcesAlike
=============================================================================
