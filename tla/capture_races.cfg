SPECIFICATION ListSpec
CONSTANTS
    Requests = {r1, r2, r3}
    Keys = {k1, k2}
    Payloads <- MCPayloads
    Valid <- MCValid
    Hot <- MCHot
    Refused = Refused
    Filters = {None, "hot"}
    PageSize = 1
    MaxLoads = 2
    None = None
SYMMETRY Symmetry
INVARIANTS
    TypeOK
    OneLeadPerKey
    EventsOfLeads
    RetryIsRecognised
    PagingMissesNothing
    QuietPageAgrees
PROPERTIES
    KeepsPromise
CHECK_DEADLOCK FALSE
