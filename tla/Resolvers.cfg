CONSTANTS
    Threads = {t1, t2}
    Clients = {t1, t2}
    Conns = {k1, k2, k3}
    NoConn = NoConn
    MaxPool = 1
    Attempts = 3
    root = root
    child = child
    Tokens = {root, child}
    Parent <- ParentOf
    NoToken = NoToken
    Callbacks = {f1}
    CallTokens = {child}
    SearchTime = 1
    BrowseTime = 3
    PostTime = 2
    MaxRetries = 1
    Delays = {0, 2}
SPECIFICATION Spec
INVARIANTS OneHolderEach EffectsExplained NoCallbackMissed OverrunsByOnePost CancelStopsPosting
PROPERTIES CallsEnd
CHECK_DEADLOCK FALSE
