CONSTANTS
    Procs = {p1}
    Engines = {e1, e2, e3}
    Users = {u1, u2}
    Foreign = {u2}
    Runs = {r1, r2}
    NoEngine = NoEngine
    NoUser = NoUser
    Faults <- AllFaults
SPECIFICATION Spec
SYMMETRY Symmetry
INVARIANTS
    LeaseAccounting
    KeepsOneReady
    ForeignUsersKept
PROPERTY ImplementsLeases
