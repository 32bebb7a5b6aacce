----------------------------- MODULE MCPostClient -----------------------------
(* A small instance of PostClient. *)
EXTENDS PostClient

\* 1: histogram-owdelay, 2: throughput
MCEventType == <<"histogram", "integer">>
NoBody == {}

\* Averages are not allowed for a histogram.
SomeSummaries ==
    {<<"aggregation", <<60>>>>, <<"aggregation", <<300, 60>>>>, <<"aggregation", <<>>>>,
     <<"average", <<60>>>>}
===============================================================================
