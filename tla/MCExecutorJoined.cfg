SPECIFICATION Spec
CONSTANTS
    app = app
    app2 = app2
    Owner = Owner
    None = None
    Callers = {app}
    max_threads_ = 2
    MAX_DEPTH = 2
    MaxClosures = 3
    LongJobs = {}
INVARIANTS AllJoined
CHECK_DEADLOCK FALSE
