SPECIFICATION PlanningSpec
CONSTANTS
    o1 = o1
    o2 = o2
    u1 = u1
    q1 = q1
    g1 = g1
    g2 = g2
    r1 = r1
    r2 = r2
    m1 = m1
    m2 = m2
    NewGraph = NewGraph
    NoOntology = NoOntology
    NoModel = NoModel
    Asks = {a1, a2}
    Users = {u1}
    Ontologies = {o1, o2}
    Graphs = {g1, g2}
    Sound = {g1, g2}
    Resolvers = {r1, r2}
    Models = {m1, m2}
    Preferred = {m1}
    Calculate = "CALCULATE"
    Initial <- MCInitial
    User <- MCUser
    Question <- MCQuestion
    ModelName <- MCModelName
    Uses <- MCUses
    Concepts <- MCConcepts
    OperatorsOf <- MCOperatorsOf
    MaxOntologies = 2
    MaxAttempts = 2
    MaxChanges = 1
    MaxReloads = 1
    MaxEdits = 2
    Mixed = FALSE
    TaskGraphs <- MCGraphs
    Available <- MCAvailable
    KeyValues = {1, 2}
    Amounts = {0, 1}
    MaxRows = 2
    None = None
    Links = Links
    Raised = Raised
    e1 = e1
    e2 = e2
    e3 = e3
    e4 = e4
    Entities = {e1, e2, e3, e4}
    Sources = {s1, s2, s3}
    RelationLists <- MCRelationLists
INVARIANTS
    ScopeWasReadable
    PlansWithinScope
    DefaultAnswers
    MailTellsData
    AcceptedGraphsRun
    CalculatesTheJoin
    SelectionKeepsBest
    TreeConnects
    RefusedOnlyIfApart
    JoinsEverythingOnce
    WholeFragments
SYMMETRY Alike
CHECK_DEADLOCK FALSE
