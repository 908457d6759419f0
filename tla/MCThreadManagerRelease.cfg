SPECIFICATION Spec
CONSTANTS
    w1 = w1
    w2 = w2
    Threads = {w1, w2}
    min_pollers_ = 1
    max_pollers_ = 1
    max_threads = 3
    MaxBacklog = 1
INVARIANTS NeverReleasesTooMany
CHECK_DEADLOCK FALSE
