CONSTANTS
    r1 = r1
    r2 = r2
    r3 = r3
    c1 = c1
    c2 = c2
    None = None
    CallbackRpcs = {"a", "b", "c"}
    NumCqs = 2
    Requests <- ThreeRequests
    Queue <- ThreeQueues
    Rpcs <- TwoRpcs
    Start <- TwoStarts
SPECIFICATION AllSpec
SYMMETRY Symm
INVARIANTS
    InOnePlace
    NoLostMatch
    PublishedIsOver
    ShutdownIsPublished
CHECK_DEADLOCK FALSE
