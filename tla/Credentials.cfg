CONSTANTS
    Procs = {p1, p2}
    Threads = {t1}
    Names = {c1}
    Secrets = {s1, s2, s3}
    Inputs <- Requests
    NoSecret = NoSecret
    Faults <- AllFaults
SPECIFICATION Spec
SYMMETRY Symmetry
INVARIANTS LoadedIsComplete OneSecretPerCredential EngineHasCredential
PROPERTIES OnlyDeleteStrands
CHECK_DEADLOCK FALSE
