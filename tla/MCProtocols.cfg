SPECIFICATION AllSpec
CONSTANTS
    RaceThreads = {t1, t2, t3}  RaceClosures = {w1, w2}
    CancelErrors = {e1, e2}  ShutdownErrors = {e1}
    o1 = o1  o2 = o2  t1 = t1  t2 = t2  k1 = k1  k2 = k2
    Objects = {o1, o2}  Key <- TwoKeys  Callers = {t1, t2}  Object <- TwoObjects
    Server = Server  KillKey = KillKey
    Signals = {"other"}  MaxRequests = 2  MaxCrashes = 2
    StubProcesses = {t1, t2}  StubValues = {1, 2}  StubKeys = {1, 2}
    StubSize = 2  QueryLimit = 3
    Null = Null
    Calls = {c1, c2, c3, c4}
INVARIANTS
    TypesOK
    OneTimer
    ScheduledOnce
    NotifiedOnce
    NoLostEvent
    PulledIsProcessed
    NoOverlap
    
PROPERTIES
    IdleForOneCycle
    QuietGoesIdle
    PushPullReturns
    SignalStopsServer
CHECK_DEADLOCK FALSE
