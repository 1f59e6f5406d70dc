SPECIFICATION MCSpec
CONSTANTS
    Attempts = 2
    Retries = 1
    Clients = {c1, c2, c3}
    Limit = 2
    WindowSeconds = 2
    TicksPerSecond = 2
    MaxTracked = 2
    Calls = {b1, b2, b3}
    Batches = {d1}
    Counts = {0, 1, 3, 4}
    MaxBatchSize = 3
    Industries = {"DENTAL", "RESTAURANT"}
    MaxBackoff = 20
    MaxAttempts = 6
    Codes <- MCCodes
    Headers <- MCHeaders
    Texts <- MCTexts
    Forms <- MCForms
    Campaigns = {"spring", "autumn"}
    Referrers = {0, 1024, 1025}
INVARIANTS
    CrashIsReported
    ClosedWhenQuiet
    SlidingBound
    WaitingSuffices
    RunsTellTheTruth
    BatchIsWholeOrAPrefix
    DrawsLandInBand
    NeverTheOppositeBand
    RetryAfterIsHonoured
    MoreIsNeverColder
    EnquiryIsKept
    WaitsAreBounded
PROPERTIES
    HalfAServiceEnds
    WaitsNeverShrink
CHECK_DEADLOCK FALSE
