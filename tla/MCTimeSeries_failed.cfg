SPECIFICATION Spec
CONSTANTS
    Request = {r1, r2}
    Process = {p1, p2}
    Series <- MixedSeries
    DataType <- MixedType
    Rows <- MixedRows
    Window <- MCWindow
    Time <- MCTime
    Payloads <- IntegerPayloads
    MaxItems = 2
    MaxRows = 4
    QueueSize = 200
    MaxFaults = 0
SYMMETRY Symmetry
INVARIANT FailedIsNotStored
