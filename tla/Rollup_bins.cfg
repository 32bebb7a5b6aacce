SPECIFICATION Spec
CONSTANTS
    Times = {0, 1, 3, 4, 5}
    Values = {1, 2}
    Freq = 2
    YearLength = 4
    SeekBack = 2
    MaxValues = 3
    MaxCrashes = 1
    MaxFaults = 2
INVARIANT StatIsMeasured
INVARIANT BinIsExact
INVARIANT PreviousIsFound
CHECK_DEADLOCK FALSE
