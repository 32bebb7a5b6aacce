SPECIFICATION Spec
CONSTANTS
    RowOrder <- OneObject
    PolicyLists <- NeverPolicies
    Histories <- OldHistory
    Starts <- NoStart
    TimeChunk = 2
    MaxMisses = 2
    FirstNow = 5
    MaxNow = 6
    MaxWrites = 0
    MaxFaults = 0
INVARIANT NeverMeansKept
