------------------------------ MODULE DataQuery ------------------------------
(***************************************************************************)
(* A client of esmond/api/client/perfsonar/query.py that reads a series:   *)
(* it finds the URI of an event type or a summary in the metadata it was   *)
(* shown, sets its filters, and EventType.get_data or Summary.get_data     *)
(* asks for page after page (_query_with_limit), while values are          *)
(* published and the cleaner deletes columns.                              *)
(***************************************************************************)
EXTENDS QueryAPI, FiniteSetsExt

CONSTANTS
    Rows,         \* the rows of ps_event_types of the metadata object
    Published,    \* the possible sets of times published before the client starts
    Values,       \* the values the user may give to each time filter
    Limit,        \* LIMIT, 1000
    FirstNow, MaxTime, MaxFilters, MaxChanges, MaxFaults

\* A row of ps_event_types is as deserialize_event_types makes it: a base row has no
\* window.  A filter that cannot be read is None.
ASSUME ClientAssumption ==
    /\ Limit \in Nat /\ Limit >= 2
    /\ MaxTime \in Nat /\ FirstNow \in 0..MaxTime
    /\ MaxFilters \in Nat /\ MaxChanges \in Nat /\ MaxFaults \in Nat
    /\ Rows # {} /\ \A row \in Rows :
         /\ row.summary \in DOMAIN InverseSummaryTypes /\ row.window \in Nat
         /\ row.summary = "base" => row.window = 0
    /\ \A times \in Published : times \subseteq 0..MaxTime
    /\ DOMAIN Values \subseteq {"time", "time-start", "time-end", "time-range"}
    /\ \A k \in DOMAIN Values : Values[k] \subseteq Nat \cup {None}

VARIABLES
    store,        \* the columns in Cassandra
    now,          \* the archive's clock
    filters,      \* time_filters of the ApiFilters object, shared by all it is given to
    pc,           \* "idle", "ask", "done", "failed"
    series,       \* the row of the metadata whose data is read
    q_params,     \* the copy of the filters that the loop works on
    payload,      \* data_payload
    changes, faults,
    asked,        \* the first request: its range and the time of the archive
    steady        \* the columns that have been there since then

client == <<pc, series, q_params, payload, asked>>
vars == <<store, now, filters, client, changes, faults, steady>>

NoFilter == [k \in {} |-> None]
With(f, k, v) == [x \in DOMAIN f \cup {k} |-> IF x = k THEN v ELSE f[x]]

NotYet == [begin |-> 0, end |-> None, at |-> None]

\* The range of a request, where its filters and not the clock alone say so.
AskedBy(q) ==
    LET w == TimeFilters(q, now)
    IN  [begin |-> w.begin, at |-> now,
         end |-> IF \A k \in {"time", "time-start", "time-end", "time-range"} : ~Has(q, k)
                 THEN None ELSE w.end]

Init ==
    /\ \E times \in Published : store = {Cell(row, t) : row \in Rows, t \in times}
    /\ now = FirstNow
    /\ filters = NoFilter
    /\ pc = "idle" /\ series = (CHOOSE row \in Rows : TRUE) /\ q_params = NoFilter /\ payload = <<>>
    /\ asked = NotYet
    /\ changes = 0 /\ faults = 0 /\ steady = {}

-------------------------------------------------------------------------------
(* The user's program, between two calls of get_data *)

\* The setters of ApiFilters; what _check_time cannot read becomes None, but
\* stays in the dictionary.
SetFilter ==
    /\ pc = "idle"
    /\ \E k \in DOMAIN Values : \E v \in Values[k] : filters' = With(filters, k, v)
    /\ Cardinality(DOMAIN filters') <= MaxFilters
    /\ UNCHANGED <<store, now, client, changes, faults, steady>>

\* The deleters.
DelFilter ==
    /\ pc = "idle"
    /\ \E k \in DOMAIN filters : filters' = [x \in DOMAIN filters \ {k} |-> filters[x]]
    /\ UNCHANGED <<store, now, client, changes, faults, steady>>

\* get_data of the event type or the summary that get_event_type or get_summary
\* found in the metadata; its query_uri is the one shown there.
GetData ==
    /\ pc = "idle"
    /\ pc' = "ask" /\ series' \in Rows
    /\ q_params' = With(filters, "limit", Limit)
    /\ UNCHANGED <<store, now, filters, payload, asked, changes, faults, steady>>

\* The program is done with the values, or with the exception, and goes on.
Continue ==
    /\ pc \in {"done", "failed"}
    /\ pc' = "idle" /\ q_params' = NoFilter /\ payload' = <<>> /\ asked' = NotYet /\ steady' = {}
    /\ series' = (CHOOSE row \in Rows : TRUE)
    /\ UNCHANGED <<store, now, filters, changes, faults>>

-------------------------------------------------------------------------------
(* _query_with_limit *)

\* Mutant of Resume: go on with the last value.
ResumeAt(data) == Max(data)

Resume(data) == Max(data) + 1

\* Mutant of LastPage: a full page ends the loop.
LastPageFull(data) == Cardinality(data) <= Limit

LastPage(data) == Cardinality(data) < Limit

\* A full page: go on one second after the last value.  A time-end that is in the
\* dictionary is compared with; None cannot be.
Advance(q, data) ==
    LET next == With(q, "time-start", Resume(data))
    IN  /\ q_params' = next
        /\ pc' = IF "time-end" \notin DOMAIN next THEN "ask"
                 ELSE IF next["time-end"] = None THEN "failed"
                 ELSE IF next["time-start"] >= next["time-end"] THEN "done"
                 ELSE "ask"

\* Mutant of GiveUp: ask again.
AskAgain == UNCHANGED <<pc, payload, q_params>>

\* QueryLimitException: whatever was read so far is dropped.
GiveUp == pc' = "failed" /\ payload' = <<>> /\ UNCHANGED q_params

Page ==
    /\ pc = "ask"
    /\ \E r \in {Retrieve(store, Uri(series), q_params, now)} :
           \/ r.status # 200 /\ GiveUp
           \/ /\ r.status = 200
              /\ payload' = payload \o Ascending(r.data)
              /\ IF LastPage(r.data) THEN pc' = "done" /\ UNCHANGED q_params
                 ELSE Advance(q_params, r.data)
    /\ asked' = IF asked = NotYet THEN AskedBy(q_params) ELSE asked
    /\ steady' = IF asked = NotYet THEN store ELSE steady
    /\ UNCHANGED <<store, now, filters, series, changes, faults>>

Unanswered ==
    /\ pc = "ask" /\ faults < MaxFaults
    /\ faults' = faults + 1
    /\ GiveUp
    /\ UNCHANGED <<store, now, filters, series, asked, changes, steady>>

-------------------------------------------------------------------------------
(* The rest of the world *)

\* A measurement of any time up to now reaches Cassandra.
Publish ==
    /\ changes < MaxChanges
    /\ \E t \in 0..now : store' = store \cup {Cell(row, t) : row \in Rows}
    /\ store' # store
    /\ changes' = changes + 1
    /\ UNCHANGED <<now, filters, client, faults, steady>>

\* The cleaner deletes a column.
Expire ==
    /\ changes < MaxChanges
    /\ \E c \in store : store' = store \ {c} /\ steady' = steady \ {c}
    /\ changes' = changes + 1
    /\ UNCHANGED <<now, filters, client, faults>>

Tick ==
    /\ now < MaxTime
    /\ now' = now + 1
    /\ UNCHANGED <<store, filters, client, changes, faults, steady>>

Next ==
    \/ SetFilter \/ DelFilter \/ GetData \/ Continue
    \/ Page \/ Unanswered
    \/ Publish \/ Expire \/ Tick

Spec == Init /\ [][Next]_vars

\* The loop runs; the archive answers, or the client's timeout ends the wait.
Fairness == WF_vars(Page)
FairSpec == Spec /\ Fairness

-------------------------------------------------------------------------------
(* Properties *)

\* The times of the columns in Cassandra that hold the series.
Times(cells) == {c.col \div Milli : c \in {d \in cells : d.key = WriteKey(series)}}

\* No value is returned twice, and none out of order.
InOrder == \A i, j \in DOMAIN payload : i < j => payload[i] < payload[j]

\* The end of the first request; where none is given, the archive reads up to Buffer
\* past its clock.
FirstEnd == IF asked.end = None THEN now + Buffer ELSE asked.end

\* A time-range that no other filter ends.
OpenRange == Has(q_params, "time-range") /\ ~Has(q_params, "time") /\ ~Has(q_params, "time-end")

\* The value i is of a page that was asked for behind the last value of another, at most
\* one page back, with the time-range counted anew from there.
RangeAnew(i) ==
    \E j \in Limit..(i - 1) : i - j <= Limit /\ payload[i] <= payload[j] + 1 + q_params["time-range"]

\* No value lies before the range of the first request, and none behind it, except one
\* of a later page under a time-range without an end.
Within ==
    \A i \in DOMAIN payload :
        /\ payload[i] >= asked.begin
        /\ payload[i] <= FirstEnd \/ (OpenRange /\ RangeAnew(i))

\* The pages that _query_with_limit puts together never overlap and never go back, and
\* whatever is published or deleted between two requests, and wherever a year begins,
\* they keep to the range of the first request, with one exception.  The loop puts the
\* new time-start beside the old time-range, so that without a time or a time-end every
\* page after the first may go time-range seconds past the last value of the page
\* before, and the result, as long as pages are full, past the range asked for.
PagesFit == InOrder /\ Within

\* The value at time-end is not asked for when a full page ended one second before:
\* the loop stops as soon as time-start reaches time-end.
AtTheEdge(t) ==
    /\ Has(q_params, "time-end") /\ t = q_params["time-end"]
    /\ \E i \in DOMAIN payload : payload[i] = t - 1

\* get_data returns every value that was there all the time, was asked for by the
\* filters as they were at the first request, and is not from the future: the moving
\* time-start never skips one, neither where the range of the filters is relative to
\* it or to the clock, nor at the turn of a year, nor in the rows of a summary.
Complete ==
    pc = "done" =>
        \A t \in Times(steady) :
            /\ asked.begin <= t
            /\ t <= IF asked.end = None THEN asked.at ELSE asked.end
            => \/ \E i \in DOMAIN payload : payload[i] = t
               \/ AtTheEdge(t)

\* limit and offset cut a page out of the whole result, although the columns are
\* read in as many rows as there are years, each with a limit of its own.
PageIsSlice ==
    pc = "idle" /\ filters = NoFilter =>
        \A n \in 1..Limit, k \in 0..Limit :
            LET f == With(With(With(NoFilter, "limit", n), "offset", k), "time-end", MaxTime)
            IN  Retrieve(store, Uri(series), f, now).data =
                    {t \in Times(store) : Rank(Times(store), t) \in (k + 1)..(k + n)}

\* The loop ends: each page moves time-start, and a failed request is not repeated.
Terminates == pc = "ask" ~> pc # "ask"
===============================================================================
