SPECIFICATION FairSpec
CONSTANTS
    MaxRows = 3
    MaxFaults = 2
INVARIANT NotAhead
INVARIANT NothingTwice
PROPERTY Drained
CHECK_DEADLOCK FALSE
