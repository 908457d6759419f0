CONSTANTS
    o1 = o1  o2 = o2  t1 = t1
    Null = Null
    Ops = {o1, o2}
    Callers = {c1, c2}
    Cachers = {c1, c2}
    Deadlines <- MCDeadlines
    Tags = {t1, t2, t3}  Tag <- OneTag
    Pluckers = {c1, c2, c3}
    MaxPluckers = 2
    CallbackOps = {o1, o2, o3}
SPECIFICATION AllSpec
SYMMETRY Symm
INVARIANTS TypesOK ShutdownIsLast FinishedOnce FreedWhenLeft NoSleeperForgotten NothingAfterShutdown
CHECK_DEADLOCK FALSE
