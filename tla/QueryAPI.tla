------------------------------ MODULE QueryAPI ------------------------------
(***************************************************************************)
(* GET of a time series, TimeSeriesViewset.retrieve: how the URI that the  *)
(* archive shows for a row of ps_event_types leads to rows of Cassandra,   *)
(* how the time filters of a request become a range of columns, and what   *)
(* is left of the columns after the query and the paginator.               *)
(*                                                                         *)
(* A value is known by its time.  Requests count in seconds, Cassandra in  *)
(* milliseconds, and a series has one Cassandra row for each year.         *)
(***************************************************************************)
EXTENDS Integers, Sequences, FiniteSets

CONSTANTS
    YearLength,   \* seconds in a year: years of equal length
    Buffer,       \* 3600: how far an open end reaches beyond now
    DefaultLimit, \* 1500: default_limit of PSPaginator
    MaxResults    \* 1000000: what is read when no limit is asked for

ASSUME QueryAssumption ==
    /\ YearLength \in Nat \ {0} /\ Buffer \in Nat
    /\ DefaultLimit \in Nat \ {0} /\ MaxResults \in Nat \ {0}

None == -1
Milli == 1000
Has(f, k) == k \in DOMAIN f /\ f[k] # None

-------------------------------------------------------------------------------
(* The series behind a URI *)

\* What the URL says for each summary of the JSON, and back.
SummaryTypes ==
    [base |-> "base", aggregations |-> "aggregation", statistics |-> "statistics",
     averages |-> "average"]
InverseSummaryTypes ==
    [base |-> "base", aggregation |-> "aggregations", statistics |-> "statistics",
     average |-> "averages"]

\* A row key without its year: path and frequency, 0 when there is none.
RowKey(et, summary, freq) ==
    [path |-> IF summary = "base" THEN <<et>> ELSE <<et, summary>>, freq |-> freq]

\* Where database_write puts the values of a row: datapath, freq and time.
WriteKey(row) ==
    RowKey(row.type, row.summary, IF row.window > 0 THEN row.window ELSE 0)
BinOf(row, t) ==
    IF row.summary # "base" /\ row.window > 0 THEN (t \div row.window) * row.window ELSE t
Cell(row, t) == [key |-> WriteKey(row), col |-> BinOf(row, t) * Milli]

\* The URI that build_event_type_list shows for a row, and what retrieve and
\* query_database make of its parts.
Uri(row) ==
    IF row.summary = "base" THEN <<row.type, "base">>
    ELSE <<row.type, InverseSummaryTypes[row.summary], row.window>>
ReadKey(uri) ==
    RowKey(uri[1], SummaryTypes[uri[2]], IF Len(uri) = 3 THEN uri[3] ELSE 0)

-------------------------------------------------------------------------------
(* The times asked for *)

\* handle_time_filters: "time" before "time-start", "time-end" and "time-range",
\* of which the last is counted from the first that is given.
TimeFilters(f, now) ==
    [begin |-> IF Has(f, "time") THEN f["time"]
               ELSE IF Has(f, "time-start") THEN f["time-start"]
               ELSE IF ~Has(f, "time-range") THEN 0
               ELSE (IF Has(f, "time-end") THEN f["time-end"] ELSE now) - f["time-range"],
     end   |-> IF Has(f, "time") THEN f["time"]
               ELSE IF Has(f, "time-end") THEN f["time-end"]
               ELSE IF Has(f, "time-start") /\ Has(f, "time-range")
                    THEN f["time-start"] + f["time-range"]
               ELSE IF Has(f, "time-start") \/ Has(f, "time-range") THEN None
               ELSE now]
ValidRange(w) == w.end = None \/ w.end >= w.begin

-------------------------------------------------------------------------------
(* The query *)

Year(ms) == ms \div (YearLength * Milli)

\* Columns come in the order of their names, so that a result is a set of columns.
Rank(S, x) == Cardinality({y \in S : y <= x})
Ascending(S) == [i \in 1..Cardinality(S) |-> CHOOSE x \in S : Rank(S, x) = i]

\* multiget over the row keys of _get_row_keys, one for each year: of each row the
\* first n columns that are in range.
Multiget(store, key, lo, hi, n) ==
    LET cols == {d.col : d \in {c \in store : c.key = key /\ lo <= c.col /\ c.col <= hi}}
    IN  {c \in cols : Cardinality({d \in cols : Year(d) = Year(c) /\ d <= c}) <= n}

\* query_database: seconds to milliseconds, an open end reaches past now.
QueryDatabase(store, uri, w, n, now) ==
    Multiget(store, ReadKey(uri), w.begin * Milli,
             (IF w.end = None THEN now + Buffer ELSE w.end) * Milli, n)

\* TimeSeriesSerializer: back to seconds.
Serialize(cols) == {c \div Milli : c \in cols}

\* LimitOffsetPagination: a limit of 0 is the default one.
Paginate(S, f) ==
    LET limit == IF Has(f, "limit") /\ f["limit"] > 0 THEN f["limit"] ELSE DefaultLimit
        offset == IF Has(f, "offset") THEN f["offset"] ELSE 0
    IN  {x \in S : Rank(S, x) \in (offset + 1)..(offset + limit)}

\* Mutant of Wanted: the offset is forgotten.
WantedOfLimit(f) == IF ~Has(f, "limit") THEN MaxResults ELSE f["limit"]

\* With a limit, only as much is read of each row as the page can need.
Wanted(f) ==
    IF ~Has(f, "limit") THEN MaxResults
    ELSE f["limit"] + (IF Has(f, "offset") THEN f["offset"] ELSE 0)

\* GET: the page, or a ParseError.
Retrieve(store, uri, f, now) ==
    LET w == TimeFilters(f, now)
    IN  IF ValidRange(w)
        THEN [status |-> 200,
              data |-> Paginate(Serialize(QueryDatabase(store, uri, w, Wanted(f), now)), f)]
        ELSE [status |-> 400, data |-> {}]
===============================================================================
