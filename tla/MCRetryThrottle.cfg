CONSTANTS
    Channels = {ch1}
    Calls = {c1, c2}
    Params <- MCParams
    MaxEntries = 3
SPECIFICATION Spec
PROPERTY ThrottlingCarriesOver
CHECK_DEADLOCK FALSE
