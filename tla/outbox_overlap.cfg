SPECIFICATION FairSpec
CONSTANTS
    Events = {1, 2}
    OccurredAt <- MCOccurredAt
    Handled <- MCHandled
    Workers = {w1, w2}
    BatchSize = 1
    MaxAttempts = 2
    StalledAfter = 1
    Delays = {1}
    Replayable = {"dead"}
    MaxLag = 1
    PassLimit = 2
    AttemptCap = 2
    MaxAbandons = 1
    MaxReplays = 0
    None = None
INVARIANTS
    ProcessedWasDelivered
PROPERTIES
    EventuallySettled
