\* Two objects, two attributes that are lists and one that is a column, and a client that
\* pages through the objects one by one.
CONSTANTS
    Names <- MCNames
    Lists = {"Name", "Object Group"}
    Singles = {"Sensitive"}
    Values <- MCValues
    Unset = "unset"
    Types = {"SymmetricKey"}
    Versions = {10, 14, 20}
    Indexes <- MCIndexes
    Filters <- MCFilters
    PageSize = 1
    MaxUid = 2
    MaxLength = 2
    MaxDate = 2
SPECIFICATION Spec
INVARIANT TypeOK
INVARIANT DeletesWhatItShows
INVARIANT PagesMissNothing
PROPERTY OnlyWhatIsAnswered
PROPERTY ImplementsAttributeTable
CHECK_DEADLOCK FALSE
