SPECIFICATION SiteSpec
CONSTANTS
    Requests = {r1, r2, r3}
    Keys = {k1, k2}
    Payloads = {ok}
    Valid = {ok}
    Hot = {}
    Fits = {ok}
    Sent = {k1}
    None = None
INVARIANTS
    ThankedMeansStored
PROPERTIES
    ImpatientClickCannotFire
    EveryClickIsAnswered
CHECK_DEADLOCK FALSE
