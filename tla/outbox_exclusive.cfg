SPECIFICATION Spec
CONSTANTS
    Events = {1, 2}
    OccurredAt <- MCOccurredAt
    Handled <- MCHandled
    Workers = {w1, w2}
    BatchSize = 2
    MaxAttempts = 2
    StalledAfter = 2
    Delays = {1}
    Replayable = {"dead"}
    MaxLag = 1
    PassLimit = 2
    AttemptCap = 4
    MaxAbandons = 2
    MaxReplays = 1
    None = None
SYMMETRY Symmetry
INVARIANTS
    TypeOK
    ExclusiveDelivery
    DeadWasExhausted
PROPERTIES
    SettledStays
    KeepsPromise
