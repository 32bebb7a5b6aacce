--------------------------- MODULE MCMetadataSearch ---------------------------
(* A small archive: four measurements, two of them a page. *)
EXTENDS MetadataSearch

Row(type, summary, window) == [type |-> type, summary |-> summary, window |-> window]

Pair(source, rows) ==
    [subject_type |-> "point-to-point", rows |-> rows,
     subject |-> [x \in {"source", "destination", "tool-name"} |->
                     IF x = "source" THEN source ELSE IF x = "destination" THEN "b4" ELSE "iperf"],
     params |-> [x \in {"ip-transport-protocol"} |-> "tcp"]]

\* One has the summary of another event type only, one is a network element.
SomeCatalog ==
    <<Pair("a4", <<Row("loss", "aggregation", "60"), Row("loss", "base", "0"),
                   Row("throughput", "base", "0")>>),
      Pair("a6", <<Row("throughput", "aggregation", "60"), Row("throughput", "base", "0")>>),
      [Pair("a4", <<Row("throughput", "base", "0")>>) EXCEPT
          !.subject_type = "network-element", !.subject = [x \in {"source"} |-> "a4"],
          !.params = [x \in {} |-> ""]],
      Pair("a4", <<Row("throughput", "aggregation", "60"), Row("throughput", "base", "0")>>)>>

Complete(k, t) ==
    [i \in 1..Len(SomeCatalog[k].rows) |-> Set(SomeCatalog[k].rows[i], "updated", t)]

SomeTables == {[k \in {1, 2, 4} |-> Complete(k, 1)]}

\* Host a has both addresses, b one, and c none.
SomeDns ==
    [h \in {"a", "b", "c"} |->
        [v4 |-> IF h = "c" THEN {} ELSE IF h = "a" THEN {"a4"} ELSE {"b4"},
         v6 |-> IF h = "a" THEN {"a6"} ELSE {}]]

SomeMetadataValues ==
    [k \in {"event-type", "summary-type", "source",
             "dns-match-rule", "ip-transport-protocol", "subject-type"} |->
        CASE k = "event-type" -> {"throughput"}
          [] k = "summary-type" -> {"aggregation"}
          [] k = "source" -> {"a", "c"}
          [] k = "dns-match-rule" -> {"only-v4"}
          [] k = "ip-transport-protocol" -> {"tcp"}
          [] k = "subject-type" -> {"point-to-point"}]

SomeTimeValues == [k \in {"time-range"} |-> {1}]
===============================================================================
