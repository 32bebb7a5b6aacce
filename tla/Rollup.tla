-------------------------------- MODULE Rollup --------------------------------
(***************************************************************************)
(* The rollups of CASSANDRA_DB: what a persister makes of a stream of      *)
(* measurements of one path with set_raw_data, get_metadata,               *)
(* update_metadata, update_rate_aggregation and update_stat_aggregation.   *)
(*                                                                         *)
(* Writes go to one batch for each column family; a batch sends itself     *)
(* when its queue is full.  The last value and the current bin live in     *)
(* caches of the process, which read Cassandra only after a restart.  The  *)
(* persister itself is not part of the repository: it gives one value      *)
(* after the other to these methods, and may be killed between two.        *)
(*                                                                         *)
(* A send may fail, also after Cassandra applied it.  The counters swallow *)
(* the MaximumRetryException and keep their batch for the next send; from  *)
(* the other two the exception goes up to the persister, which is taken to *)
(* end there.                                                              *)
(***************************************************************************)
EXTENDS Integers, FiniteSets, FiniteSetsExt

CONSTANTS
    Times, Values,  \* of the measurements
    Freq,           \* the length of an aggregation bin
    YearLength,     \* a row holds a year
    SeekBack,       \* SEEK_BACK_THRESHOLD, 30 days
    MaxValues, MaxCrashes, MaxFaults

ASSUME RollupAssumption ==
    /\ Times \subseteq Nat /\ Values \subseteq Nat
    /\ Freq \in Nat \ {0} /\ YearLength \in Nat \ {0} /\ SeekBack \in Nat
    /\ MaxValues \in Nat /\ MaxCrashes \in Nat /\ MaxFaults \in Nat

VARIABLES
    raw_data, aggs, stat_agg,  \* by time: what each batch still holds and what was sent
    metadata_cache,            \* the last value, or none
    aggregation_cache,         \* by row (a year): the one bin it holds
    given,                     \* what get_metadata gave for the last measurement
    log, last, before,         \* the measurements, the last one and the one before it
    late,                      \* bins that got a value after another bin of the row had taken their place
    lost, lostRaw,             \* bins, and times, of which a crash lost a write
    crashes, faults,
    again                      \* bins of which a failed send applied counters that are still to be sent

tables == <<raw_data, aggs, stat_agg>>
caches == <<metadata_cache, aggregation_cache>>
ghosts == <<given, log, last, before, late, lost, lostRaw>>
failures == <<faults, again>>
vars == <<tables, caches, ghosts, crashes, failures>>

Empty == [x \in {} |-> 0]
None == [last_update |-> -1, last_val |-> 0, min_ts |-> -1]
Never == [ts |-> -1, val |-> 0]

\* b written over a.
Over(a, b) == [x \in DOMAIN a \cup DOMAIN b |-> IF x \in DOMAIN b THEN b[x] ELSE a[x]]
At(f, x) == IF x \in DOMAIN f THEN f[x] ELSE Empty
Put(f, x, v) == Over(f, [y \in {x} |-> v])

\* The "compressed" agg_ts that the persister passes for a measurement.
Bin(t) == (t \div Freq) * Freq
Year(t) == t \div YearLength

Init ==
    /\ raw_data = [batch |-> Empty, sent |-> Empty]
    /\ aggs = [batch |-> Empty, sent |-> Empty]
    /\ stat_agg = [batch |-> Empty, sent |-> Empty]
    /\ metadata_cache = None
    /\ aggregation_cache = Empty
    /\ given = None /\ log = {} /\ last = Never /\ before = Never
    /\ late = {} /\ lost = {} /\ lostRaw = {}
    /\ crashes = 0 /\ faults = 0 /\ again = {}

-------------------------------------------------------------------------------
(* get_metadata, refresh_from_raw, update_metadata *)

\* Mutant of SeekRow: the first row of the answer.
SeekRowFirst(t) ==
    LET old == {u \in DOMAIN raw_data.sent : u < t /\ u >= t - SeekBack}
    IN  {u \in old : \A w \in old : Year(u) <= Year(w)}

\* The range query, newest first: of the rows that have a column in range, the last.
SeekRow(t) ==
    LET old == {u \in DOMAIN raw_data.sent : u < t /\ u >= t - SeekBack}
    IN  {u \in old : \A w \in old : Year(u) >= Year(w)}

GetMetadata(t, v) ==
    LET row == SeekRow(t)
        u == IF row = {} THEN t ELSE Max(row)
    IN  IF metadata_cache # None THEN metadata_cache
        ELSE [last_update |-> u, min_ts |-> u,
              last_val |-> IF row = {} THEN v ELSE raw_data.sent[u]]

RefreshFromRaw(m, t, v) ==
    [last_update |-> t, last_val |-> v, min_ts |-> IF m.min_ts > t THEN t ELSE m.min_ts]

-------------------------------------------------------------------------------
(* update_stat_aggregation *)

Fields(t, v) == [min |-> v, max |-> v, min_ts |-> t, max_ts |-> t]

\* Mutant of Lookup: after a restart the bin is taken to be new.
LookupNothing(b) == Empty

\* The row key is not in the cache: what Cassandra has of the bin, if it has it.
Lookup(b) == At(stat_agg.sent, b)

\* get_agg_from_cache: the bin of the cache, if that is the bin of the value.
Cached(b) ==
    LET y == Year(b)
    IN  IF y \notin DOMAIN aggregation_cache THEN Lookup(b)
        ELSE IF aggregation_cache[y].bin = b THEN aggregation_cache[y].val
        ELSE Empty

\* Mutant of Written: a new maximum is dated as a minimum.
WrittenMisdated(ret, t, v) ==
    IF ret = Empty THEN Fields(t, v)
    ELSE IF v > ret.max THEN [x \in {"max", "min_ts"} |-> Fields(t, v)[x]]
    ELSE IF v < ret.min THEN [x \in {"min", "min_ts"} |-> Fields(t, v)[x]]
    ELSE Empty

\* What is inserted: everything in a new bin, a new maximum or else a new minimum.
Written(ret, t, v) ==
    IF ret = Empty THEN Fields(t, v)
    ELSE IF v > ret.max THEN [x \in {"max", "max_ts"} |-> Fields(t, v)[x]]
    ELSE IF v < ret.min THEN [x \in {"min", "min_ts"} |-> Fields(t, v)[x]]
    ELSE Empty

UpdateStatAggregation(t, v) ==
    LET b == Bin(t)
        ret == Cached(b)
        new == Written(ret, t, v)
    IN  /\ aggregation_cache' = Put(aggregation_cache, Year(b), [bin |-> b, val |-> Over(ret, new)])
        /\ stat_agg' = IF new = Empty THEN stat_agg
                       ELSE [stat_agg EXCEPT !.batch = Put(@, b, Over(At(@, b), new))]

\* update_rate_aggregation: two counters, the sum and the number of values.
Plus(c, d) ==
    IF c = Empty THEN d
    ELSE IF d = Empty THEN c
    ELSE [val |-> c.val + d.val, count |-> c.count + d.count]

UpdateRateAggregation(t, v) ==
    aggs' = [aggs EXCEPT !.batch =
                Put(@, Bin(t), Plus(At(@, Bin(t)), [val |-> v, count |-> 1]))]

-------------------------------------------------------------------------------
(* A measurement reaches the persister. *)
Measure ==
    /\ Cardinality(log) < MaxValues
    /\ \E t \in Times, v \in Values :
        /\ \A e \in log : e.ts # t
        /\ raw_data' = [raw_data EXCEPT !.batch = Put(@, t, v)]
        /\ given' = GetMetadata(t, v)
        /\ metadata_cache' = RefreshFromRaw(given', t, v)
        /\ UpdateRateAggregation(t, v)
        /\ UpdateStatAggregation(t, v)
        /\ log' = log \cup {[ts |-> t, val |-> v]}
        /\ last' = [ts |-> t, val |-> v] /\ before' = last
        /\ late' = IF /\ \E e \in log : Bin(e.ts) = Bin(t)
                      /\ \E y \in DOMAIN aggregation_cache :
                             Year(Bin(t)) = y /\ aggregation_cache[y].bin # Bin(t)
                   THEN late \cup {Bin(t)} ELSE late
    /\ UNCHANGED <<lost, lostRaw, crashes, failures>>

\* A full queue, or flush().
SendRaw ==
    /\ raw_data' = [batch |-> Empty, sent |-> Over(raw_data.sent, raw_data.batch)]
    /\ raw_data' # raw_data
    /\ UNCHANGED <<aggs, stat_agg, caches, ghosts, crashes, failures>>

\* The table once the counters that wait for the bins S are applied.
Counted(S) ==
    [b \in S \cup DOMAIN aggs.sent |->
        IF b \notin S THEN aggs.sent[b] ELSE Plus(At(aggs.sent, b), aggs.batch[b])]

SendAggs ==
    /\ aggs' = [batch |-> Empty, sent |-> Counted(DOMAIN aggs.batch)]
    /\ aggs' # aggs
    /\ UNCHANGED <<raw_data, stat_agg, caches, ghosts, crashes, failures>>

\* Cassandra applies the batch, or some of it, and the send fails: the exception is
\* logged, and the batch is as it was.  A send of which nothing was applied changes
\* nothing.
SendAggsFails ==
    /\ faults < MaxFaults
    /\ faults' = faults + 1
    /\ \E S \in (SUBSET DOMAIN aggs.batch) \ {{}} :
        /\ aggs' = [aggs EXCEPT !.sent = Counted(S)]
        /\ again' = again \cup S
    /\ UNCHANGED <<raw_data, stat_agg, caches, ghosts, crashes>>

SendStat ==
    /\ stat_agg' = [batch |-> Empty,
                    sent |-> [b \in DOMAIN stat_agg.batch \cup DOMAIN stat_agg.sent |->
                                 Over(At(stat_agg.sent, b), At(stat_agg.batch, b))]]
    /\ stat_agg' # stat_agg
    /\ UNCHANGED <<raw_data, aggs, caches, ghosts, crashes, failures>>

\* The process ends and starts again: caches and batches are gone.
Restart ==
    /\ crashes < MaxCrashes
    /\ crashes' = crashes + 1
    /\ raw_data' = [raw_data EXCEPT !.batch = Empty]
    /\ aggs' = [aggs EXCEPT !.batch = Empty]
    /\ stat_agg' = [stat_agg EXCEPT !.batch = Empty]
    /\ metadata_cache' = None /\ aggregation_cache' = Empty
    /\ lost' = lost \cup DOMAIN aggs.batch \cup DOMAIN stat_agg.batch
    /\ lostRaw' = lostRaw \cup DOMAIN raw_data.batch
    /\ UNCHANGED <<given, log, last, before, late, failures>>

Next == Measure \/ SendRaw \/ SendAggs \/ SendAggsFails \/ SendStat \/ Restart

Spec == Init /\ [][Next]_vars

-------------------------------------------------------------------------------
(* Properties *)

Bins == {Bin(e.ts) : e \in log}
InBin(b) == {e \in log : Bin(e.ts) = b}
Whole == {b \in Bins : b \notin lost}
Stat(b) == Over(At(stat_agg.sent, b), At(stat_agg.batch, b))
Sum(b) == Plus(At(aggs.sent, b), At(aggs.batch, b))

\* Whatever order the values come in and whenever the process is killed, the extremes
\* kept for a bin are those of values measured in that bin, at the times kept with
\* them, and the minimum is not above the maximum: what is written to a bin in parts,
\* and over what an earlier process left there, never mixes two values.
StatIsMeasured ==
    \A b \in Bins :
        LET s == Stat(b)
        IN  s # Empty =>
                /\ DOMAIN s = {"min", "max", "min_ts", "max_ts"}
                /\ [ts |-> s.min_ts, val |-> s.min] \in InBin(b)
                /\ [ts |-> s.max_ts, val |-> s.max] \in InBin(b)
                /\ s.min <= s.max

\* If a process never comes back to a bin after another one of the year, and no write
\* of the bin was lost in a crash, its minimum and its maximum are exact and the
\* average that query_aggregation_timerange makes of the counters lies between the
\* two: through restarts and across the turn of the year, although only one bin of a
\* row is remembered and Cassandra is read only once.  Every value is counted; the
\* number of values is exact unless a send failed after it was applied, and then a
\* value is counted once more at most for every send that failed.
BinIsExact ==
    \A b \in Whole \ late :
        LET n == Cardinality(InBin(b))
        IN  /\ Stat(b) # Empty /\ Sum(b) # Empty
            /\ Stat(b).min = Min({e.val : e \in InBin(b)})
            /\ Stat(b).max = Max({e.val : e \in InBin(b)})
            /\ Sum(b).count \in n..((1 + faults) * n)
            /\ b \notin again => Sum(b).count = n
            /\ Stat(b).min * Sum(b).count <= Sum(b).val
            /\ Sum(b).val <= Stat(b).max * Sum(b).count

\* A value that is newer than all others is compared with the one before it: after a
\* restart get_metadata finds it in the raw data, also in the row of the year
\* before, unless its write was lost or it is older than SEEK_BACK_THRESHOLD.
PreviousIsFound ==
    /\ before # Never
    /\ last.ts > before.ts /\ \A e \in log \ {last} : e.ts <= before.ts
    => \/ given.last_update = before.ts /\ given.last_val = before.val
       \/ before.ts \in lostRaw
       \/ before.ts < last.ts - SeekBack
===============================================================================
