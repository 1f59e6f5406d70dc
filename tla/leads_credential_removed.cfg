SPECIFICATION Spec
CONSTANTS
    Desks = {}
    Rescorers = {}
    Syncs = {s1}
    RuleVersions = {1}
    ContactIds = {known}
    SkipAnswers = {TRUE, FALSE}
    MaxMoves = 0
    AttemptsCap = 1
    None = None
PROPERTIES
    NothingToDoOnceSynced
