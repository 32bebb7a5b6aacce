----------------------------- MODULE Description -----------------------------
(***************************************************************************)
(* What a POST to /archive/ describes: the event types and parameters that *)
(* ArchiveSerializer.to_internal_value makes of the posted body, in the    *)
(* order they are stored, and the checksum that says whether two bodies    *)
(* describe the same measurement.                                          *)
(*                                                                         *)
(* Event types and parameter keys are numbered in alphabetical order.      *)
(***************************************************************************)
EXTENDS Naturals, Sequences, SequencesExt

CONSTANTS
    EventType,  \* EVENT_TYPE_CONFIG: the type of the data of each event type
    Body        \* the posted bodies

\* The summaries each type of data allows.
AllowedSummaries ==
    [float |-> {"aggregation", "average"},
     histogram |-> {"aggregation", "statistics"},
     integer |-> {"aggregation", "average"},
     json |-> {}, percentage |-> {"aggregation"}, subinterval |-> {}]

\* Alphabetical order of the summary types.
SummaryRank == [aggregation |-> 1, average |-> 2, base |-> 3, statistics |-> 4]

\* A row of ps_event_types.
EventRow == [type : DOMAIN EventType, summary : DOMAIN SummaryRank, window : Nat]

\* The text of a parameter: what it says, and whether it is in upper case.
\* Null is JSON's null, which the table does not take.
Lower(v) == [v EXCEPT !.upper = FALSE]
Null == [text |-> "null", upper |-> FALSE]

-------------------------------------------------------------------------------
(* deserialize_event_types *)

ValidSummary(et, sm) ==
    \/ sm.type = "base"
    \/ /\ sm.type \in DOMAIN SummaryRank
       /\ sm.type \in AllowedSummaries[EventType[et]]

ValidEntry(e) ==
    /\ e.type \in DOMAIN EventType
    /\ \A i \in 1..Len(e.summaries) : ValidSummary(e.type, e.summaries[i])

\* Anything else is a ParseError.  So is a body without event types, with an unknown
\* subject type or with a metadata-key, which to_internal_value refuses before; the
\* bodies here have none of these faults.
Valid(b) == \A i \in 1..Len(b.entries) : ValidEntry(b.entries[i])

\* One base row for each entry, then its summaries; a base summary is skipped.
EntryRows(e) ==
    LET asked == SelectSeq(e.summaries, LAMBDA sm : sm.type # "base")
    IN  <<[type |-> e.type, summary |-> "base", window |-> 0]>> \o
        [i \in 1..Len(asked) |->
            [type |-> e.type, summary |-> asked[i].type, window |-> asked[i].window]]

Posted(b) == FlattenSeq([i \in 1..Len(b.entries) |-> EntryRows(b.entries[i])])

-------------------------------------------------------------------------------
(* calculate_checksum *)

\* The code sorts the windows as text.  Any total order gives equal checksums to the
\* same rows, and no property depends on the order of the windows of one summary.
RowBefore(x, y) ==
    \/ x.type < y.type
    \/ x.type = y.type /\ SummaryRank[x.summary] < SummaryRank[y.summary]
    \/ x.type = y.type /\ x.summary = y.summary /\ x.window < y.window

\* The checksum sorts the event types and the parameters in place, so this is
\* also the order in which they are stored.
EventRows(b) == SortSeq(Posted(b), RowBefore)

Parameters(b) ==
    LET keys == SetToSortSeq(DOMAIN b.params, <)
    IN  [i \in 1..Len(keys) |-> <<keys[i], b.params[keys[i]]>>]

\* SHA-256 over the lower-cased subject, parameters and event types.
Checksum(b) ==
    [subject |-> b.subject,
     params  |-> [k \in DOMAIN b.params |-> Lower(b.params[k])],
     events  |-> EventRows(b)]
===============================================================================
