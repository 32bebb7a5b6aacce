----------------------------- MODULE MCTimeSeries -----------------------------
(* Small instances of TimeSeries. *)
EXTENDS TimeSeries, TLC

It(s, t, v) == [series |-> s, ts |-> t, val |-> v]
Rw(type, window) == [type |-> type, window |-> window]

MCTime == 1..3
MCWindow == {0, 2}

\* One series of each kind.  integer: base and aggregation in base_rates, average
\* in rate_aggregations, and a statistics row, which the type does not allow.
\* percentage and float: all in rate_aggregations.  histogram: raw columns; the
\* aggregation of a bin is read, added to and written back, and its statistics
\* follow.
MixedType ==
    [throughput |-> "integer", loss |-> "percentage", offset |-> "float",
     owdelay |-> "histogram"]
MixedSeries == DOMAIN MixedType
MixedRows ==
    [throughput |-> <<Rw("aggregation", 2), Rw("average", 2), Rw("base", 0), Rw("statistics", 2)>>,
     loss |-> <<Rw("aggregation", 2), Rw("base", 0)>>,
     offset |-> <<Rw("aggregation", 2), Rw("average", 2), Rw("base", 0)>>,
     owdelay |-> <<Rw("aggregation", 2), Rw("base", 0), Rw("statistics", 2)>>]
MixedPayloads ==
    {<<It("throughput", 2, "good"), It("throughput", 3, "good")>>,
     <<It("throughput", 1, "good"), It("loss", 2, "malformed")>>,
     <<It("loss", 3, "good"), It("throughput", 2, "invalid")>>,
     <<It("loss", 3, "good"), It("offset", 2, "good")>>,
     <<It("offset", 2, "good"), It("offset", 3, "good")>>,
     <<It("owdelay", 2, "good"), It("owdelay", 3, "good")>>,
     <<It("owdelay", 2, "empty")>>,
     <<It("owdelay", 3, "good")>>,
     <<>>}

\* For the single questions: a bulk request that is refused at its second item.
IntegerPayloads ==
    {<<It("throughput", 2, "good"), It("throughput", 3, "invalid")>>,
     <<It("throughput", 2, "good")>>}

Symmetry == Permutations(Process) \cup Permutations(Request)
===============================================================================
