------------------------------ MODULE TimeSeries ------------------------------
(***************************************************************************)
(* The time-series write path of the perfSONAR archive: what a POST of one *)
(* data point (TimeSeriesViewset.create) or a bulk PUT of several          *)
(* (ArchiveViewset.update) does between its parsed body and its HTTP       *)
(* status.                                                                 *)
(*                                                                         *)
(* Requests run concurrently, on threads of several mod_wsgi processes.    *)
(* Every thread of a process shares the one global CASSANDRA_DB of that    *)
(* process, hence its batches: one buffer of unsent mutations per column   *)
(* family.  A request puts its mutations into those buffers, item by item  *)
(* and event-type row by row, and ends with db.flush(), which sends        *)
(* whatever the buffers hold, whoever put it there.                        *)
(*                                                                         *)
(* A posted value is known by its write <<request, item>>.  A Cassandra    *)
(* counter is the sum of the mutations applied to it, a raw column the     *)
(* applied mutation with the greatest client timestamp, so the store is    *)
(* kept as the set of applied mutations and how often each was applied.    *)
(***************************************************************************)
EXTENDS Integers, Sequences, FiniteSets

CONSTANTS
    Request,    \* the HTTP requests
    Process,    \* the server processes
    Series,     \* an event type of a metadata object
    DataType,   \* the type EVENT_TYPE_CONFIG gives each series
    Rows,       \* the ps_event_types rows of each series, ORDER BY summary_type
    Window,     \* the summary windows used in Rows
    Time,       \* the timestamps posted
    Payloads,   \* the bodies a request may carry: sequences of items
    MaxItems,   \* bound on the length of a payload
    MaxRows,    \* bound on the number of rows of a series
    QueueSize,  \* _queue_size: mutations a batch holds before it sends itself
    MaxFaults   \* bound on process crashes and failed sends

SummaryType == {"aggregation", "average", "base", "statistics"}
CF == {"raw", "rate", "agg"}

\* What matters of a posted value: "malformed" lacks a field or has an unknown
\* event type and is refused before it is looked up, "invalid" is refused by the type's validator, "empty" is a histogram
\* without samples.
Value == {"good", "empty", "invalid", "malformed"}

Row == [type : SummaryType, window : Window]
Item == [series : Series, ts : Time, val : Value]
Write == Request \X (1..MaxItems)
Id == Request \X (1..MaxItems) \X (1..MaxRows)

\* A histogram: how often the samples of each write are counted in it.
Hist == [Write -> Nat]
EmptyHist == [w \in Write |-> 0]

EVENT_TYPE_CF_MAP ==
    [histogram |-> "raw", integer |-> "rate", json |-> "raw",
     percentage |-> "agg", subinterval |-> "raw", float |-> "agg"]

ALLOWED_SUMMARIES ==
    [float |-> {"aggregation", "average"},
     histogram |-> {"aggregation", "statistics"},
     integer |-> {"aggregation", "average"},
     json |-> {}, percentage |-> {"aggregation"}, subinterval |-> {}]

ASSUME TimeSeriesAssumption ==
    /\ Time \subseteq Nat /\ Window \subseteq Nat
    /\ MaxItems \in Nat /\ MaxRows \in Nat
    /\ QueueSize \in Nat \ {0} /\ MaxFaults \in Nat
    /\ Process # {}
    /\ DataType \in [Series -> DOMAIN EVENT_TYPE_CF_MAP]
    /\ Rows \in [Series -> Seq(Row)]
    /\ \A s \in Series :
        /\ Len(Rows[s]) <= MaxRows
        \* deserialize_event_types gives every base row the window 0
        /\ \A k \in 1..Len(Rows[s]) :
            Rows[s][k].type = "base" => Rows[s][k].window = 0
    /\ Payloads \subseteq Seq(Item)
    /\ \A p \in Payloads : Len(p) <= MaxItems

\* "Ordering in model allows statistics to go last": save() reads the rows ORDER
\* BY summary_type, which puts the aggregations first.
ASSUME RowOrderAssumption ==
    \A s \in Series : \A j, k \in 1..Len(Rows[s]) :
        j < k /\ Rows[s][k].type = "aggregation" => Rows[s][j].type = "aggregation"

\* deserialize_event_types gives every event type it registers a base row.
ASSUME BaseRowAssumption ==
    \A s \in Series : Rows[s] # <<>> => \E k \in 1..Len(Rows[s]) : Rows[s][k].type = "base"

VARIABLES
    proc,      \* the process mod_wsgi hands each request to
    payload,   \* the items of each request
    pc,        \* where each request's thread is
    item, row, \* loop counters of update() and of save()
    got,       \* the summarised value database_write is about to insert
    cache,     \* local_cache of the running save()
    answer,    \* the HTTP status the client got
    buffer,    \* the unsent mutations of each process and column family
    stored,    \* the mutations applied in Cassandra
    times,     \* how often each mutation was applied
    touched,   \* the series whose time_updated was set
    clock,     \* client timestamps given to raw mutations so far
    faults,    \* crashes and failed sends so far
    before     \* history: the base cells stored when each request began

requestVars == <<proc, payload, pc, item, row, got, cache, answer>>
storeVars == <<buffer, stored, times, touched, clock, faults>>
vars == <<requestVars, storeVars, before>>

-------------------------------------------------------------------------------
(* Cells: a row key and a column of Cassandra. *)

Allowed(s, type) ==
    type = "base" \/ type \in ALLOWED_SUMMARIES[DataType[s]]

\* The column family of a row: the validator's summary_cf, else the type's.
SummaryCF(s, type) ==
    IF DataType[s] = "integer" /\ type = "average"
    THEN "agg" ELSE EVENT_TYPE_CF_MAP[DataType[s]]

\* Mutant of BinTime: the bin is rounded to the nearest one.
BinTimeRounds(rw, t) ==
    IF rw.type # "base" /\ rw.window > 0
    THEN ((t + rw.window \div 2) \div rw.window) * rw.window ELSE t

\* PSTimeSeriesObject.time: a summary goes into the bin its time falls in.
BinTime(rw, t) ==
    IF rw.type # "base" /\ rw.window > 0
    THEN (t \div rw.window) * rw.window ELSE t

\* datapath, freq and time; a frequency of 0 stands for None.
Cell(s, rw, t) ==
    [series |-> s, summary |-> rw.type, freq |-> rw.window, ts |-> BinTime(rw, t)]

BaseCell(s, t) == [series |-> s, summary |-> "base", freq |-> 0, ts |-> t]

-------------------------------------------------------------------------------
(* The request at hand. *)

CurItem(r) == payload[r][item[r]]
CurRows(r) == Rows[CurItem(r).series]
CurRow(r) == CurRows(r)[row[r]]
CurCell(r) == Cell(CurItem(r).series, CurRow(r), CurItem(r).ts)
CurType(r) == DataType[CurItem(r).series]

\* What the item itself adds to a histogram: nothing when it has no samples.
OwnHist(r) ==
    [EmptyHist EXCEPT ![<<r, item[r]>>] =
        IF CurItem(r).val = "empty" THEN 0 ELSE 1]

-------------------------------------------------------------------------------
(* Reading Cassandra: only applied mutations are visible, never a buffer. *)

InCell(c) == {m \in stored : m.cell = c}

\* The raw column: the mutation with the greatest client timestamp wins.
Latest(c) == CHOOSE m \in InCell(c) : \A n \in InCell(c) : n.stamp <= m.stamp

SumHist(g, h) == [w \in Write |-> g[w] + h[w]]

-------------------------------------------------------------------------------
(* Sending a batch: Mutator.send() of pycassa, under the batch's lock. *)

Apply(b) ==
    /\ stored' = stored \cup b
    /\ times' = [i \in Id |->
                    times[i] + IF \E m \in b : m.id = i THEN 1 ELSE 0]

SendOk(p, cf, b) ==
    /\ Apply(b)
    /\ buffer' = [buffer EXCEPT ![p][cf] = {}]
    /\ UNCHANGED faults

\* A failed send raises and leaves the batch as it was, to be sent again by the
\* next one; when it failed by a timeout, Cassandra may have applied it.
SendFails(p, cf, b) ==
    /\ faults < MaxFaults
    /\ faults' = faults + 1
    /\ buffer' = [buffer EXCEPT ![p][cf] = b]
    /\ \/ Apply(b)
       \/ UNCHANGED <<stored, times>>
-------------------------------------------------------------------------------
Init ==
    /\ proc \in [Request -> Process]
    /\ payload \in [Request -> Payloads]
    /\ pc = [r \in Request |-> "idle"]
    /\ item = [r \in Request |-> 1]
    /\ row = [r \in Request |-> 1]
    /\ got = [r \in Request |-> [den |-> 0, hist |-> EmptyHist]]
    /\ cache = [r \in Request |-> [w \in Window |-> {}]]
    /\ answer = [r \in Request |-> "none"]
    /\ buffer = [p \in Process |-> [cf \in CF |-> {}]]
    /\ stored = {}
    /\ times = [i \in Id |-> 0]
    /\ touched = {}
    /\ clock = 0
    /\ faults = 0
    /\ before = [r \in Request |-> {}]

\* The thread answers and is done with the request.
Finish(r, code) ==
    /\ pc' = [pc EXCEPT ![r] = "done"]
    /\ answer' = [answer EXCEPT ![r] = code]

\* The body is parsed; a body without items goes straight to flush().
Begin(r) ==
    /\ pc[r] = "idle"
    /\ pc' = [pc EXCEPT ![r] = IF payload[r] = <<>> THEN "raw" ELSE "check"]
    /\ before' = [before EXCEPT ![r] =
                    {c \in {m.cell : m \in stored} : c.summary = "base"}]
    /\ UNCHANGED <<proc, payload, item, row, got, cache, answer, storeVars>>

\* An item without its fields: 400, whatever earlier items left in the batches; an
\* event type that EVENT_TYPE_CONFIG does not have is a KeyError in save(): 500.
Malformed(r) ==
    /\ pc[r] = "check"
    /\ CurItem(r).val = "malformed"
    /\ \E status \in {"400", "500"} : Finish(r, status)
    /\ UNCHANGED <<proc, payload, item, row, got, cache, storeVars, before>>

\* Mutant of Exists: only values kept in base_rates are checked.
ExistsRate(r) ==
    /\ EVENT_TYPE_CF_MAP[CurType(r)] = "rate"
    /\ InCell(BaseCell(CurItem(r).series, CurItem(r).ts)) # {}

\* save(): a value that is not kept raw must not be stored yet.
Exists(r) ==
    /\ EVENT_TYPE_CF_MAP[CurType(r)] # "raw"
    /\ InCell(BaseCell(CurItem(r).series, CurItem(r).ts)) # {}

Conflict(r) ==
    /\ pc[r] = "check"
    /\ CurItem(r).val # "malformed"
    /\ Exists(r)
    /\ Finish(r, "409")
    /\ UNCHANGED <<proc, payload, item, row, got, cache, storeVars, before>>

Accept(r) ==
    /\ pc[r] = "check"
    /\ CurItem(r).val # "malformed"
    /\ ~ Exists(r)
    /\ pc' = [pc EXCEPT ![r] = "rows"]
    /\ row' = [row EXCEPT ![r] = 1]
    /\ cache' = [cache EXCEPT ![r] = [w \in Window |-> {}]]
    /\ UNCHANGED <<proc, payload, item, got, answer, storeVars, before>>

\* database_write: a summary the type does not allow is skipped.
Skip(r) ==
    /\ pc[r] = "rows" /\ row[r] <= Len(CurRows(r))
    /\ ~ Allowed(CurItem(r).series, CurRow(r).type)
    /\ row' = [row EXCEPT ![r] = @ + 1]
    /\ UNCHANGED <<proc, payload, pc, item, got, cache, answer, storeVars, before>>

Writing(r) ==
    /\ pc[r] = "rows" /\ row[r] <= Len(CurRows(r))
    /\ Allowed(CurItem(r).series, CurRow(r).type)

\* validate() raises.
Invalid(r) ==
    /\ Writing(r)
    /\ CurItem(r).val = "invalid"
    /\ Finish(r, "400")
    /\ UNCHANGED <<proc, payload, item, row, got, cache, storeVars, before>>

\* Mutant of Denominator: the test for stored values is inverted.
DenominatorInverted(r) ==
    IF /\ CurType(r) = "float" /\ CurRow(r).type = "aggregation"
       /\ InCell(CurCell(r)) = {}
    THEN 0 ELSE 1

\* FloatValidator.aggregation counts a bin once, for the first value stored in
\* it; every other value counts for itself.
Denominator(r) ==
    IF /\ CurType(r) = "float" /\ CurRow(r).type = "aggregation"
       /\ InCell(CurCell(r)) # {}
    THEN 0 ELSE 1

\* HistogramValidator.aggregation adds to the histogram stored for the bin, if
\* there is one ...
Adds(r) ==
    /\ CurType(r) = "histogram" /\ CurRow(r).type = "aggregation"
    /\ InCell(CurCell(r)) # {}

Union(r) == SumHist(OwnHist(r), Latest(CurCell(r)).hist)

\* Mutant of StatisticsInput: the stored aggregation is read again.
StatisticsInputStored(r) ==
    LET c == [CurCell(r) EXCEPT !.summary = "aggregation"]
    IN  IF CurRow(r).window # 0 /\ InCell(c) # {}
        THEN Latest(c).hist
        ELSE OwnHist(r)

\* Mutant of StatisticsInput: the item is added to the cached union once more.
StatisticsInputTwice(r) ==
    LET cached == cache[r][CurRow(r).window]
    IN  IF CurRow(r).window # 0 /\ cached # {}
        THEN SumHist(OwnHist(r), CHOOSE h \in cached : TRUE)
        ELSE OwnHist(r)

\* ... and remembers the union in local_cache, for statistics() of the same
\* window, which takes the item's own histogram when there is none.
StatisticsInput(r) ==
    LET cached == cache[r][CurRow(r).window]
    IN  IF CurRow(r).window # 0 /\ cached # {}
        THEN CHOOSE h \in cached : TRUE
        ELSE OwnHist(r)

Histogram(r) ==
    CASE Adds(r) -> Union(r)
      [] CurRow(r).type = "statistics" -> StatisticsInput(r)
      [] OTHER -> OwnHist(r)

\* validate() and then aggregation(), average() or statistics().
Summarise(r) ==
    /\ Writing(r)
    /\ CurItem(r).val # "invalid"
    /\ CurRow(r).type = "statistics" => StatisticsInput(r) # EmptyHist
    /\ pc' = [pc EXCEPT ![r] = "insert"]
    /\ got' = [got EXCEPT ![r] = [den |-> Denominator(r), hist |-> Histogram(r)]]
    /\ cache' = IF Adds(r)
                THEN [cache EXCEPT ![r][CurRow(r).window] = {Union(r)}]
                ELSE cache
    /\ UNCHANGED <<proc, payload, item, row, answer, storeVars, before>>

\* The mean of a histogram without samples divides by zero.
NoSamples(r) ==
    /\ Writing(r)
    /\ CurItem(r).val # "invalid"
    /\ CurRow(r).type = "statistics" /\ StatisticsInput(r) = EmptyHist
    /\ Finish(r, "500")
    /\ UNCHANGED <<proc, payload, item, row, got, cache, storeVars, before>>

Mutation(r) ==
    LET cf == SummaryCF(CurItem(r).series, CurRow(r).type)
    IN  [id |-> <<r, item[r], row[r]>>, cf |-> cf, cell |-> CurCell(r),
         den |-> got[r].den, hist |-> got[r].hist,
         stamp |-> IF cf = "raw" THEN clock + 1 ELSE 0]

\* The batch the mutation of r goes into, with that mutation.
Batch(r) == buffer[proc[r]][Mutation(r).cf] \cup {Mutation(r)}

NextRow(r) ==
    /\ pc' = [pc EXCEPT ![r] = "rows"]
    /\ UNCHANGED answer

\* Mutant of Insert: the mutation is also written at once.
InsertAtOnce(r) ==
    /\ pc[r] = "insert"
    /\ row' = [row EXCEPT ![r] = @ + 1]
    /\ clock' = IF Mutation(r).cf = "raw" THEN clock + 1 ELSE clock
    /\ Apply({Mutation(r)})
    /\ buffer' = [buffer EXCEPT ![proc[r]][Mutation(r).cf] = Batch(r)]
    /\ NextRow(r)
    /\ UNCHANGED <<proc, payload, item, got, cache, touched, faults, before>>

\* The mutation joins its batch, which sends itself once it is full.
Insert(r) ==
    /\ pc[r] = "insert"
    /\ row' = [row EXCEPT ![r] = @ + 1]
    /\ clock' = IF Mutation(r).cf = "raw" THEN clock + 1 ELSE clock
    /\ LET p == proc[r]
           cf == Mutation(r).cf
       IN  \/ /\ Cardinality(Batch(r)) < QueueSize
              /\ buffer' = [buffer EXCEPT ![p][cf] = Batch(r)]
              /\ NextRow(r)
              /\ UNCHANGED <<stored, times, faults>>
           \/ /\ Cardinality(Batch(r)) >= QueueSize
              /\ SendOk(p, cf, Batch(r))
              /\ NextRow(r)
           \* update_rate_bin swallows a MaximumRetryException.
           \/ /\ Cardinality(Batch(r)) >= QueueSize
              /\ SendFails(p, cf, Batch(r))
              /\ \/ cf = "rate" /\ NextRow(r)
                 \/ Finish(r, "500")
    /\ UNCHANGED <<proc, payload, item, got, cache, touched, before>>

\* Mutant of Commit: off by one at the last item.
CommitPastEnd(r) ==
    /\ pc[r] = "rows" /\ row[r] > Len(CurRows(r))
    /\ touched' = IF CurRows(r) = <<>> THEN touched
                                       ELSE touched \cup {CurItem(r).series}
    /\ IF item[r] <= Len(payload[r])
       THEN /\ item' = [item EXCEPT ![r] = @ + 1]
            /\ pc' = [pc EXCEPT ![r] = "check"]
       ELSE /\ pc' = [pc EXCEPT ![r] = "raw"]
            /\ UNCHANGED item
    /\ UNCHANGED <<proc, payload, row, got, cache, answer,
                   buffer, stored, times, clock, faults, before>>

\* All rows are written: the transaction sets time_updated, and the next item
\* is saved or the batches are flushed.
Commit(r) ==
    /\ pc[r] = "rows" /\ row[r] > Len(CurRows(r))
    /\ touched' = IF CurRows(r) = <<>> THEN touched
                                       ELSE touched \cup {CurItem(r).series}
    /\ IF item[r] < Len(payload[r])
       THEN /\ item' = [item EXCEPT ![r] = @ + 1]
            /\ pc' = [pc EXCEPT ![r] = "check"]
       ELSE /\ pc' = [pc EXCEPT ![r] = "raw"]
            /\ UNCHANGED item
    /\ UNCHANGED <<proc, payload, row, got, cache, answer,
                   buffer, stored, times, clock, faults, before>>

\* Mutant of Flush: rate_aggregations is left to send itself.
FlushTwo(r) ==
    /\ pc[r] \in {"raw", "rate"}
    /\ LET p == proc[r]
           b == buffer[p][pc[r]]
       IN  \/ /\ SendOk(p, pc[r], b)
              /\ IF pc[r] = "raw" THEN pc' = [pc EXCEPT ![r] = "rate"] /\ UNCHANGED answer
                                  ELSE Finish(r, "201")
           \/ /\ b # {}
              /\ SendFails(p, pc[r], b)
              /\ Finish(r, "500")
    /\ UNCHANGED <<proc, payload, item, row, got, cache, touched, clock, before>>

\* db.flush() sends the batches one after another and the request succeeds; a
\* batch that fails ends it.
Flush(r) ==
    /\ pc[r] \in CF
    /\ LET p == proc[r]
           b == buffer[p][pc[r]]
       IN  \/ /\ SendOk(p, pc[r], b)
              /\ CASE pc[r] = "raw"  -> /\ pc' = [pc EXCEPT ![r] = "rate"]
                                        /\ UNCHANGED answer
                   [] pc[r] = "rate" -> /\ pc' = [pc EXCEPT ![r] = "agg"]
                                        /\ UNCHANGED answer
                   [] pc[r] = "agg"  -> Finish(r, "201")
           \/ /\ b # {}
              /\ SendFails(p, pc[r], b)
              /\ Finish(r, "500")
    /\ UNCHANGED <<proc, payload, item, row, got, cache, touched, clock, before>>

\* A process dies with its batches and its requests, and is started again.
Crash(p) ==
    /\ faults < MaxFaults
    /\ faults' = faults + 1
    /\ buffer' = [buffer EXCEPT ![p] = [cf \in CF |-> {}]]
    /\ LET dead(r) == proc[r] = p /\ pc[r] \notin {"idle", "done"}
       IN  /\ pc' = [r \in Request |-> IF dead(r) THEN "done" ELSE pc[r]]
           /\ answer' = [r \in Request |->
                            IF dead(r) THEN "crashed" ELSE answer[r]]
    /\ UNCHANGED <<proc, payload, item, row, got, cache,
                   stored, times, touched, clock, before>>

Step(r) ==
    \/ Begin(r) \/ Malformed(r) \/ Conflict(r) \/ Accept(r)
    \/ Skip(r) \/ Invalid(r) \/ Summarise(r) \/ NoSamples(r)
    \/ Insert(r) \/ Commit(r) \/ Flush(r)

\* Every request was answered: nothing is left to do.
AllDone == (\A r \in Request : pc[r] = "done") /\ UNCHANGED vars

Next == (\E r \in Request : Step(r)) \/ (\E p \in Process : Crash(p)) \/ AllDone

Spec == Init /\ [][Next]_vars

-------------------------------------------------------------------------------
(* Properties. *)

CellSet == [series : Series, summary : SummaryType, freq : Window \cup {0}, ts : Int]
MutationSet == [id : Id, cf : CF, cell : CellSet, den : {0, 1}, hist : Hist,
                stamp : Nat]

\* Types of every variable, and the loop counters of update() and save() within
\* their loops.
TypeOK ==
    /\ proc \in [Request -> Process]
    /\ payload \in [Request -> Payloads]
    /\ pc \in [Request -> {"idle", "check", "rows", "insert", "done"} \cup CF]
    /\ item \in [Request -> 1..(MaxItems + 1)]
    /\ row \in [Request -> 1..(MaxRows + 1)]
    /\ \A r \in Request : pc[r] \in {"check", "rows", "insert"} =>
            item[r] <= Len(payload[r])
    /\ \A r \in Request : pc[r] = "idle" => item[r] = 1
    /\ \A r \in Request : pc[r] = "insert" => row[r] <= Len(CurRows(r))
    /\ got \in [Request -> [den : {0, 1}, hist : Hist]]
    /\ cache \in [Request -> [Window -> SUBSET Hist]]
    /\ answer \in [Request -> {"none", "201", "400", "409", "500", "crashed"}]
    /\ buffer \in [Process -> [CF -> SUBSET MutationSet]]
    /\ stored \subseteq MutationSet
    /\ times \in [Id -> Nat]
    /\ touched \subseteq Series
    /\ clock \in Nat
    /\ faults \in 0..MaxFaults
    /\ before \in [Request -> SUBSET CellSet]

\* Client timestamps come from the one clock of the host.
StampsBounded ==
    /\ \A m \in stored : m.stamp <= clock
    /\ \A p \in Process, cf \in CF : \A m \in buffer[p][cf] : m.stamp <= clock

\* A request answered 201 has every mutation of every item in Cassandra, in the
\* cell its row and its time name: none is left in a batch that a crash could
\* still lose, and none was lost by the failed send of another request.
AckedIsStored ==
    \A r \in Request : answer[r] = "201" =>
        \A i \in 1..Len(payload[r]) :
            LET s == payload[r][i].series
            IN  \A k \in 1..Len(Rows[s]) : Allowed(s, Rows[s][k].type) =>
                    \E m \in stored :
                        /\ m.id = <<r, i, k>>
                        /\ m.cell = Cell(s, Rows[s][k], payload[r][i].ts)

\* A counter mutation is applied once, however many requests flush the batch it
\* is in; only a send that failed after Cassandra applied it can repeat it.
AppliedAtMostOnce == \A i \in Id : times[i] <= 1 + faults

Quiescent ==
    /\ \A r \in Request : pc[r] \notin {"rows", "insert"}
    /\ \A p \in Process, cf \in CF : buffer[p][cf] = {}

Contributors(c) == {<<m.id[1], m.id[2]>> : m \in InCell(c)}

Numeric(s) == DataType[s] \in {"integer", "float", "percentage"}

\* With nothing in flight and nothing lost, a summary of a numeric series holds
\* exactly the values whose base points lie in its window: also those a
\* rejected or partly failed bulk request left behind.
SummariesMatchBase ==
    (faults = 0 /\ Quiescent) =>
        \A s \in Series : \A k \in 1..Len(Rows[s]) :
            LET rw == Rows[s][k]
                bin(b) == {t \in Time : b <= t /\ t < b + rw.window}
            IN  /\ Numeric(s) /\ rw.type # "base"
                /\ Allowed(s, rw.type) /\ rw.window > 0
                => \A b \in {t - (t % rw.window) : t \in Time} :
                      Contributors(Cell(s, rw, b)) =
                          UNION {Contributors(BaseCell(s, t)) : t \in bin(b)}

\* Reading a bin of rate_aggregations divides by its count: a bin that holds any
\* mutation has counted at least one.
AggregationReadable ==
    \A m \in stored : m.cf = "agg" =>
        \E n \in stored : n.cell = m.cell /\ n.den > 0

Written == stored \cup UNION {buffer[p][cf] : p \in Process, cf \in CF}

\* A request never writes a base point that was stored before the request began: a
\* client that posts a stored value again gets a conflict, not a second count.  A value
\* that still waits in a batch, or is stored while the request runs, is not seen.
NoRewrite ==
    \A m \in Written :
        m.cf # "raw" => m.cell \notin before[m.id[1]]

\* An aggregated histogram, and the statistics over it, count the samples of a
\* posted histogram at most once, whatever the order of reads and sends.
HistogramCountedOnce ==
    \A m \in Written : \A w \in Write : m.hist[w] <= 1

\* The statistics a write stores describe the aggregation the same write stored
\* for the same window, although other requests change the stored one between.
StatisticsMatchAggregation ==
    \A m, n \in Written :
        /\ m.cell.summary = "aggregation" /\ n.cell.summary = "statistics"
        /\ m.cell.series = n.cell.series
        /\ <<m.id[1], m.id[2]>> = <<n.id[1], n.id[2]>>
        /\ m.cell.freq = n.cell.freq /\ m.cell.freq # 0
        /\ m.cf = "raw"
        => m.hist = n.hist

-------------------------------------------------------------------------------
(* What a comment says, and the code does not do. *)

\* "everything succeeded so save to database": a request that failed has not
\* changed what is stored.
FailedIsNotStored ==
    \A r \in Request : answer[r] \in {"400", "409", "500"} =>
        \A m \in stored : m.id[1] # r
===============================================================================
