\* Two calls over one connection, with timeouts at both ends.
CONSTANTS
    MaxCalls = 2
    HeaderLength = 2
    RequestLength = 1
    ErrorLength = 1
    AnswerLengths = {0, 2}
    MaxResponse = 1
    Certificates <- MCCertificates
    Chains <- MCChains
    GroupLists = {"members"}
    NoGroups = "no groups"
SPECIFICATION FairSpec
INVARIANT TypeOK
INVARIANT AnswersInTurn
INVARIANT ProcessedOnce
INVARIANT AnswersTellOutcome
INVARIANT IdentityVouched
PROPERTY CallsEnd
PROPERTY SessionEnds
CHECK_DEADLOCK FALSE
