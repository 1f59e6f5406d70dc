SPECIFICATION Spec
CONSTANTS
    Desks = {d1, d2}
    Rescorers = {}
    Syncs = {}
    RuleVersions = {1}
    ContactIds = {known}
    SkipAnswers = {FALSE}
    MaxMoves = 3
    AttemptsCap = 0
    None = None
PROPERTIES
    TerminalStays
