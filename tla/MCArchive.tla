------------------------------ MODULE MCArchive ------------------------------
(* Small instances of Archive. *)
EXTENDS Archive

\* 1: histogram-owdelay, 2: throughput
MCEventType == <<"histogram", "integer">>

Txt(t) == [text |-> t, upper |-> FALSE]
Upper(t) == [text |-> t, upper |-> TRUE]
Sum(type, window) == [type |-> type, window |-> window]
Entry(et, sums) == [type |-> et, summaries |-> sums]
MkBody(subject, entries, ps) == [subject |-> subject, entries |-> entries, params |-> ps]

Full == <<Entry(2, <<Sum("base", 0), Sum("average", 60)>>)>>
Reordered == <<Entry(2, <<>>), Entry(1, <<>>)>>
Sorted == <<Entry(1, <<>>), Entry(2, <<>>)>>
Ps == 1 :> Txt("a")

\* A description, another one posted in two orders and two spellings, one that is
\* refused, one without its addresses, and one with a null parameter.
RaceBodies ==
    {MkBody("p2p", Full, Ps),
     MkBody("p2p", Reordered, Ps),
     MkBody("p2p", Sorted, 1 :> Upper("a")),
     MkBody("p2p", <<Entry(2, <<Sum("statistics", 0)>>)>>, Ps),
     MkBody("incomplete", Full, Ps),
     MkBody("p2p", Full, 1 :> Txt("a") @@ 2 :> Null)}

Symmetry == Permutations(Request)
===============================================================================
