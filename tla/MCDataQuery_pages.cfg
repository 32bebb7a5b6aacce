SPECIFICATION FairSpec
CONSTANTS
    YearLength = 4
    Buffer = 1
    DefaultLimit = 3
    MaxResults = 100
    Rows <- SomeRows
    Published <- SomeTimes
    Values <- SomeValues
    Limit = 2
    FirstNow = 5
    MaxTime = 6
    MaxFilters = 2
    MaxChanges = 1
    MaxFaults = 1
INVARIANT PagesFit
INVARIANT Complete
INVARIANT PageIsSlice
PROPERTY Terminates
