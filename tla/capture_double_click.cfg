SPECIFICATION Spec
CONSTANTS
    Requests = {r1, r2}
    Keys = {k1}
    Payloads = {warm}
    Valid = {warm}
    Hot = {}
    None = None
INVARIANTS
    DoubleClickShowsNoError
CHECK_DEADLOCK FALSE
