SPECIFICATION DeskSpec
CONSTANTS
    Desks = {d1, d2}
    Rescorers = {}
    Syncs = {}
    RuleVersions = {1}
    ContactIds = {known}
    SkipAnswers = {FALSE}
    MaxMoves = 2
    AttemptsCap = 0
    None = None
INVARIANTS
    RefusedOnlyIfMoved
    PageIsExplained
    OwnMoveIsShown
PROPERTIES
    ButtonsComeBack
CHECK_DEADLOCK FALSE
