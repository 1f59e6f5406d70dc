SPECIFICATION Spec
CONSTANTS
    Events = {1}
    OccurredAt <- MCOccurredAt
    Handled <- MCHandled
    Workers = {w1, w2}
    BatchSize = 1
    MaxAttempts = 2
    StalledAfter = 1
    Delays = {1}
    Replayable = {"dead"}
    MaxLag = 1
    PassLimit = 3
    AttemptCap = 3
    MaxAbandons = 0
    MaxReplays = 0
    None = None
PROPERTIES
    SettledStays
