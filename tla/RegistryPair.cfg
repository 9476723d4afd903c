CONSTANTS
    Procs = {p1, p2}
    Engines = {e1, e2}
    Users = {u1}
    Foreign = {}
    Runs = {r1}
    NoEngine = NoEngine
    NoUser = NoUser
    Faults <- NoFaults
SPECIFICATION FairSpec
INVARIANTS DefaultRestored DeletedEngineUnleased
PROPERTIES RunsEnd
