SPECIFICATION Spec
CONSTANTS
    Request = {r1, r2}
    Process = {p1, p2}
    Series <- MixedSeries
    DataType <- MixedType
    Rows <- MixedRows
    Window <- MCWindow
    Time <- MCTime
    Payloads <- MixedPayloads
    MaxItems = 2
    MaxRows = 4
    QueueSize = 3
    MaxFaults = 1
SYMMETRY Symmetry
INVARIANT TypeOK
INVARIANT AckedIsStored
INVARIANT AppliedAtMostOnce
INVARIANT SummariesMatchBase
INVARIANT AggregationReadable
INVARIANT NoRewrite
INVARIANT HistogramCountedOnce
INVARIANT StatisticsMatchAggregation
