----------------------------- MODULE MCDataQuery -----------------------------
(* Small instances of DataQuery: a page has two values, a year four seconds. *)
EXTENDS DataQuery

Row(type, summary, window) == [type |-> type, summary |-> summary, window |-> window]

\* A base series, a summary by bins of two seconds, one without bins.
SomeRows ==
    {Row("throughput", "base", 0), Row("throughput", "aggregation", 2),
     Row("throughput", "average", 0)}

\* Dense data over two years, data with a gap.
SomeTimes == {{1, 2, 3, 4, 5}, {0, 3, 4, 5}}

SomeValues ==
    [k \in {"time", "time-start", "time-end", "time-range"} |->
        IF k = "time" THEN {3}
        ELSE IF k = "time-start" THEN {1, 3, None}
        ELSE IF k = "time-end" THEN {0, 5, None}
        ELSE {2, None}]
===============================================================================
