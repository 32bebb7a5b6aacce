SPECIFICATION FairSpec
CONSTANTS
    YearLength = 4
    Buffer = 1
    DefaultLimit = 2
    MaxResults = 100
    Catalog <- SomeCatalog
    Tables <- SomeTables
    Dns <- SomeDns
    MetadataValues <- SomeMetadataValues
    TimeValues <- SomeTimeValues
    FirstNow = 2
    MaxTime = 3
    MaxFilters = 2
    MaxChanges = 2
    MaxFaults = 1
INVARIANT DriftIsBounded
INVARIANT FoundIsUsable
PROPERTY Ends
