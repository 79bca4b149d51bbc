SPECIFICATION FairSpec
CONSTANTS
    default = default
    shared = shared
    strict = strict
    open = open
    Policies = {default, shared}
    Reserved = {default}
    Contents = {strict, open}
    Builtin <- MCBuiltin
    Texts <- MCTexts
    Malformed = Malformed
    NotATable = NotATable
    NoPolicy = NoPolicy
    MaxFiles = 3
    MaxTime = 4
CHECK_DEADLOCK FALSE
INVARIANTS
    TypeOK
    ReservedFixed
    MapStoreAgree
    SourcesTracked
    DefinedPolicyServed
PROPERTY
    CatchesUp
