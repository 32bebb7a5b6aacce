----------------------------- MODULE MCRemoveData -----------------------------
(* Small instances of RemoveData: a day is 1. *)
EXTENDS RemoveData

Et(m, type, summary, window) == [md |-> m, type |-> type, summary |-> summary, window |-> window]
Pol(type, summary, window, expire) ==
    [type |-> type, summary |-> summary, window |-> window, expire |-> expire]

\* Two objects, one with a summary; the order of the table is by object.
TwoObjects ==
    <<Et("m1", "throughput", "aggregation", 2), Et("m1", "throughput", "base", 0),
      Et("m2", "throughput", "base", 0)>>
OneObject == <<Et("m1", "throughput", "aggregation", 2), Et("m1", "throughput", "base", 0)>>

H(rows, base, upd) ==
    [data |-> [et \in ToSet(rows) |-> {IF et.window > 0 THEN t - (t % et.window) ELSE t : t \in base}],
     updated |-> [et \in ToSet(rows) |-> upd]]

\* Dense data, data with gaps of which one is longer than max_misses chunks, data at
\* time 0, and an object never written.
CleanHistories ==
    {H(TwoObjects, {0, 1, 2, 3}, {3}), H(TwoObjects, {1, 4, 5, 6}, {6}),
     H(TwoObjects, {0, 1, 2, 8}, {8}), H(TwoObjects, {0, 4, 5, 8}, {8}), H(TwoObjects, {}, {})}

\* A catch-all; everything expired; a summary kept for longer; an exact event type that only matches
\* another summary; one policy given twice; nothing for base rows.
CleanPolicies ==
    {<<Pol("*", "*", "*", 2), Pol("*", "*", "2", 5)>>,
     <<Pol("*", "*", "*", 0)>>,
     <<Pol("throughput", "statistics", "*", 0), Pol("*", "*", "*", 1)>>,
     <<Pol("throughput", "base", "0", 4), Pol("*", "base", "*", 1), Pol("throughput", "base", "0", 0)>>,
     <<Pol("*", "aggregation", "*", Never), Pol("throughput", "*", "0", 3)>>}
CleanStarts == {{}, {6}}

NoStart == {{}}

NeverPolicies == {<<Pol("*", "base", "*", Never), Pol("*", "aggregation", "*", 1)>>}
OldHistory == {H(OneObject, {2}, {2})}
===============================================================================
