SPECIFICATION Spec
CONSTANTS
    default = default
    shared = shared
    strict = strict
    open = open
    Policies = {default, shared}
    Reserved = {default}
    Contents = {strict, open}
    Builtin <- MCBuiltin
    Texts <- MCTables
    Malformed = Malformed
    NotATable = NotATable
    NoPolicy = NoPolicy
    MaxFiles = 2
    MaxTime = 4
CHECK_DEADLOCK FALSE
INVARIANTS
    MonitorSurvives
