SPECIFICATION FairSpec
CONSTANTS
    RowOrder <- TwoObjects
    PolicyLists <- CleanPolicies
    Histories <- CleanHistories
    Starts <- CleanStarts
    TimeChunk = 2
    MaxMisses = 2
    FirstNow = 9
    MaxNow = 10
    MaxWrites = 1
    MaxFaults = 1
INVARIANT PolicyIsMostSpecific
INVARIANT OnlyIdleIsRemoved
INVARIANT NothingLeftBehind
PROPERTY OnlyExpiredIsDeleted
PROPERTY Terminates
