SPECIFICATION Spec
CONSTANTS
    Desks = {d1}
    Rescorers = {r1}
    Syncs = {s1, s2}
    RuleVersions = {1}
    ContactIds = {known}
    SkipAnswers = {TRUE, FALSE}
    MaxMoves = 2
    AttemptsCap = 1
    None = None
SYMMETRY Symmetry
INVARIANTS
    TypeOK
    HistoryIsAPath
    CrmStatusIsHonest
PROPERTIES
    FollowsLifecycle
    ContactKept
