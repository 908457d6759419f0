SPECIFICATION AllSpec
CONSTANTS
    Null = Null
    Threads = {t1, t2, t3}
    Callbacks = {a, b, c}
    RefHolders = {a, b, c}
    CombinerThreads = {t1, t2}
    Executors = {t2}
    Workers = {w1, w2, w3, w4}
    min_pollers_ = 1
    max_pollers_ = 1
    max_threads = 3
    MaxBacklog = 2
    Closer = Closer
    Callers = {t1, t2}
    max_threads_ = 2
    MAX_DEPTH = 2
    MaxClosures = 4
    LongJobs = {2}
INVARIANTS
    TypesOK
    Serial
    SomeoneDrains
    NoUseAfterDelete
    HandedOver
    NobodySleepsOnWork
    CountersExact
    QuotaCovers
    DestroyedClean
PROPERTIES
    SerializersSpec
    FinalIsLast
    ClosuresRun
    PollingGoesOn
    ShutdownCompletes
CHECK_DEADLOCK FALSE
