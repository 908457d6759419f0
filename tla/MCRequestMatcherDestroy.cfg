CONSTANTS
    r1 = r1
    r2 = r2
    r3 = r3
    c1 = c1
    c2 = c2
    None = None
    CallbackRpcs = {"a", "b", "c"}
    NumCqs = 2
    Requests <- OneRequest
    Queue <- OneQueue
    Rpcs <- OneRpc
    Start <- OneStart
SPECIFICATION AllSpec
INVARIANTS DestroyedEmpty
CHECK_DEADLOCK FALSE
