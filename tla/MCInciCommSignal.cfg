CONSTANTS
    o1 = o1
    o2 = o2
    t1 = t1
    t2 = t2
    k1 = k1
    k2 = k2
    Server = Server
    KillKey = KillKey
    None = None
    Objects <- MCObjects
    Callers <- MCCallers
    Key <- OwnKeys
    Object <- OwnObjects
    Signals <- ServingThread
    MaxRequests = 1
    MaxCrashes = 0
SPECIFICATION FairSpec
PROPERTIES SignalStopsServer
CHECK_DEADLOCK FALSE
