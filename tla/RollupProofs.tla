----------------------------- MODULE RollupProofs -----------------------------
(***************************************************************************)
(* Proofs about the rollups, for every set of times and values, length of  *)
(* a bin and of a year, number of measurements, crashes and failed sends.  *)
(***************************************************************************)
EXTENDS Rollup, FiniteSetTheorems, TLAPS

-------------------------------------------------------------------------------
(* The inductive invariants. *)

Table(T) == T = [batch |-> T.batch, sent |-> T.sent]

\* The measurements, each of a time of its own, the last of them among them.
LogInv ==
    /\ log \subseteq [ts : Times, val : Values] /\ IsFiniteSet(log)
    /\ \A e, f \in log : e.ts = f.ts => e = f
    /\ last # Never => last \in log

\* Raw data: what is written was measured, and what was measured is written or lost.
RawInv ==
    /\ Table(raw_data)
    /\ \A t \in DOMAIN raw_data.batch : [ts |-> t, val |-> raw_data.batch[t]] \in log
    /\ \A t \in DOMAIN raw_data.sent : [ts |-> t, val |-> raw_data.sent[t]] \in log
    /\ \A e \in log : e.ts \in lostRaw \cup DOMAIN raw_data.batch \cup DOMAIN raw_data.sent

\* The cache of the last value is empty only after a restart, when nothing waits.
LastInv ==
    IF metadata_cache = None THEN DOMAIN raw_data.batch = {}
    ELSE metadata_cache.last_update = last.ts /\ metadata_cache.last_val = last.val

Spots == {Bin(t) : t \in Times}
StatFields == {"min", "max", "min_ts", "max_ts"}

\* Nothing, or two extremes that were measured in the bin.
Measured(s, b) ==
    \/ s = Empty
    \/ /\ s = [x \in StatFields |-> s[x]]
       /\ [ts |-> s.min_ts, val |-> s.min] \in InBin(b)
       /\ [ts |-> s.max_ts, val |-> s.max] \in InBin(b)
       /\ s.min <= s.max

\* What Cassandra has of a bin, and what it will have after the batch is sent.
StatInv ==
    /\ Table(stat_agg)
    /\ \A b \in Spots : Measured(At(stat_agg.sent, b), b) /\ Measured(Stat(b), b)

\* The bin in the cache is the one of the tables, and the batch holds only bins of
\* years that the cache knows.
CacheInv ==
    /\ \A y \in DOMAIN aggregation_cache :
         LET c == aggregation_cache[y]
         IN  /\ c.bin \in Spots /\ Year(c.bin) = y
             /\ c.val = Stat(c.bin) /\ c.val # Empty
    /\ \A b \in DOMAIN stat_agg.batch : Year(b) \in DOMAIN aggregation_cache

Counters == {Empty} \cup [val : Nat, count : Nat]

\* The counters of the bins that have a measurement.
AggsInv ==
    /\ Table(aggs)
    /\ DOMAIN aggs.batch \subseteq Bins /\ DOMAIN aggs.sent \subseteq Bins
    /\ \A b \in DOMAIN aggs.batch : aggs.batch[b] \in [val : Nat, count : Nat]
    /\ \A b \in DOMAIN aggs.sent : aggs.sent[b] \in [val : Nat, count : Nat]
    /\ faults \in Nat

IsLeast(m, S) == m \in S /\ \A x \in S : m <= x
IsMost(m, S) == m \in S /\ \A x \in S : m >= x

\* The average lies between the two.
Between(c, lo, hi) == lo * c.count <= c.val /\ c.val <= hi * c.count

\* A count of n values, each at least once and at most once more for every send that
\* failed, and once in a bin of which none did.
Counts(k, n, b) == n <= k /\ k <= (1 + faults) * n /\ (b \notin again => k = n)

\* What waits in the batch was counted once.
Waiting(c, n, lo, hi) == c # Empty => c.count <= n /\ Between(c, lo, hi)

\* The rollup of the bin is that of its measurements.
Exact(b) ==
    LET vals == {e.val : e \in InBin(b)}
        n == Cardinality(InBin(b))
    IN  /\ Stat(b) # Empty /\ Sum(b) # Empty
        /\ IsLeast(Stat(b).min, vals) /\ IsMost(Stat(b).max, vals)
        /\ Counts(Sum(b).count, n, b)
        /\ Between(Sum(b), Stat(b).min, Stat(b).max)
        /\ Waiting(At(aggs.batch, b), n, Stat(b).min, Stat(b).max)

ExactInv == \A b \in Whole \ late : Exact(b)

\* No other bin of the year has taken the place of the bin in the cache.
Alone(b) == \A y \in DOMAIN aggregation_cache : Year(b) = y => aggregation_cache[y].bin = b

Higher(v, m) == IF v > m THEN v ELSE m
Lower(v, m) == IF v < m THEN v ELSE m

\* The extremes of a bin that held s when it gets the value v.
Joined(o, s, v) ==
    IF s = Empty THEN o.min = v /\ o.max = v
    ELSE o.min = Lower(v, s.min) /\ o.max = Higher(v, s.max)
-------------------------------------------------------------------------------
(* What a measurement does. *)

Takes(t, v) ==
    /\ \A e \in log : e.ts # t
    /\ raw_data' = [raw_data EXCEPT !.batch = Put(@, t, v)]
    /\ given' = GetMetadata(t, v)
    /\ metadata_cache' = RefreshFromRaw(given', t, v)
    /\ UpdateRateAggregation(t, v)
    /\ UpdateStatAggregation(t, v)
    /\ log' = log \cup {[ts |-> t, val |-> v]}
    /\ last' = [ts |-> t, val |-> v] /\ before' = last
    /\ late' = IF /\ \E e \in log : Bin(e.ts) = Bin(t)
                  /\ \E y \in DOMAIN aggregation_cache :
                         Year(Bin(t)) = y /\ aggregation_cache[y].bin # Bin(t)
               THEN late \cup {Bin(t)} ELSE late
    /\ UNCHANGED <<lost, lostRaw, crashes, failures>>

\* A measurement has a time and a value.
LEMMA Takings ==
    Measure => \E t \in Times, v \in Values : t \in Nat /\ v \in Nat /\ Takes(t, v)
BY RollupAssumption DEF Measure, Takes

\* The measurements.
LEMMA LogNext == LogInv /\ [Next]_vars => LogInv'
<1> SUFFICES ASSUME LogInv, [Next]_vars PROVE LogInv'
  OBVIOUS
<1>1. CASE Measure
  <2>1. PICK t \in Times, v \in Values : Takes(t, v)
    BY <1>1, Takings
  <2>2. PICK e : e = [ts |-> t, val |-> v]
    OBVIOUS
  <2>3. e \in [ts : Times, val : Values] /\ e.ts = t
    BY <2>2
  <2>4. log' = log \cup {e} /\ last' = e /\ \A f \in log : f.ts # t
    BY <2>1, <2>2 DEF Takes
  <2>5. IsFiniteSet(log')
    BY <2>4, FS_AddElement DEF LogInv
  <2>6. QED
    BY <2>3, <2>4, <2>5 DEF LogInv
<1>2. CASE SendRaw \/ SendAggs \/ SendAggsFails \/ SendStat \/ Restart \/ UNCHANGED vars
  BY <1>2 DEF SendRaw, SendAggs, SendAggsFails, SendStat, Restart, vars, ghosts, LogInv
<1>3. QED
  BY <1>1, <1>2 DEF Next

\* The raw data.
LEMMA RawNext == LogInv /\ RawInv /\ [Next]_vars => RawInv'
<1> SUFFICES ASSUME LogInv, RawInv, [Next]_vars PROVE RawInv'
  OBVIOUS
<1> DEFINE B == raw_data.batch  S == raw_data.sent
<1>1. raw_data = [batch |-> B, sent |-> S]
  BY DEF RawInv, Table
<1>2. CASE Measure
  <2>1. PICK t \in Times, v \in Values : Takes(t, v)
    BY <1>2, Takings
  <2>2. raw_data' = [batch |-> Put(B, t, v), sent |-> S]
    BY <1>1, <2>1 DEF Takes
  <2>3. Table(raw_data)' /\ raw_data'.batch = Put(B, t, v) /\ raw_data'.sent = S
    BY <2>2 DEF Table
  <2>4. log' = log \cup {[ts |-> t, val |-> v]} /\ lostRaw' = lostRaw
    BY <2>1 DEF Takes
  <2>5. /\ DOMAIN Put(B, t, v) = DOMAIN B \cup {t} /\ Put(B, t, v)[t] = v
        /\ \A y \in DOMAIN B : y # t => Put(B, t, v)[y] = B[y]
    BY DEF Put, Over
  <2>6. \A y \in DOMAIN raw_data'.batch : [ts |-> y, val |-> raw_data'.batch[y]] \in log'
    BY <2>3, <2>4, <2>5 DEF RawInv
  <2>7. \A y \in DOMAIN raw_data'.sent : [ts |-> y, val |-> raw_data'.sent[y]] \in log'
    BY <2>3, <2>4 DEF RawInv
  <2>8. \A e \in log' : e.ts \in lostRaw' \cup DOMAIN raw_data'.batch \cup DOMAIN raw_data'.sent
    BY <2>3, <2>4, <2>5 DEF RawInv
  <2>9. QED
    BY <2>3, <2>6, <2>7, <2>8 DEF RawInv
<1>3. CASE SendRaw
  <2>1. raw_data' = [batch |-> Empty, sent |-> Over(S, B)] /\ UNCHANGED <<log, lostRaw>>
    BY <1>3 DEF SendRaw, ghosts
  <2>2. Table(raw_data)' /\ raw_data'.batch = Empty /\ raw_data'.sent = Over(S, B)
    BY <2>1 DEF Table
  <2>3. /\ DOMAIN Empty = {} /\ DOMAIN Over(S, B) = DOMAIN S \cup DOMAIN B
        /\ \A y \in DOMAIN Over(S, B) : Over(S, B)[y] = IF y \in DOMAIN B THEN B[y] ELSE S[y]
    BY DEF Empty, Over
  <2>4. QED
    BY <2>1, <2>2, <2>3 DEF RawInv
<1>4. CASE Restart
  <2>1. /\ raw_data' = [batch |-> Empty, sent |-> S] /\ log' = log
        /\ lostRaw' = lostRaw \cup DOMAIN B
    BY <1>1, <1>4 DEF Restart
  <2>2. Table(raw_data)' /\ raw_data'.batch = Empty /\ raw_data'.sent = S
    BY <2>1 DEF Table
  <2>3. DOMAIN Empty = {}
    BY DEF Empty
  <2>4. QED
    BY <2>1, <2>2, <2>3 DEF RawInv
<1>5. CASE SendAggs \/ SendAggsFails \/ SendStat \/ UNCHANGED vars
  BY <1>5 DEF SendAggs, SendAggsFails, SendStat, vars, tables, ghosts, RawInv
<1>6. QED
  BY <1>2, <1>3, <1>4, <1>5 DEF Next

\* The last value, in the cache.
LEMMA LastNext == RawInv /\ LastInv /\ [Next]_vars => LastInv'
<1> SUFFICES ASSUME RawInv, LastInv, [Next]_vars PROVE LastInv'
  OBVIOUS
<1>1. CASE Measure
  <2>1. PICK t \in Times, v \in Values : t \in Nat /\ Takes(t, v)
    BY <1>1, Takings
  <2>2. /\ metadata_cache'.last_update = t /\ metadata_cache'.last_val = v
        /\ last'.ts = t /\ last'.val = v
    BY <2>1 DEF Takes, RefreshFromRaw
  <2>3. metadata_cache' # None
    BY <2>1, <2>2 DEF None
  <2>4. QED
    BY <2>2, <2>3 DEF LastInv
<1>2. CASE SendRaw
  <2>1. DOMAIN raw_data'.batch = {} /\ UNCHANGED <<metadata_cache, last>>
    BY <1>2 DEF SendRaw, caches, ghosts, Empty
  <2>2. QED
    BY <2>1 DEF LastInv
<1>3. CASE Restart
  <2>1. metadata_cache' = None
    BY <1>3 DEF Restart
  <2>2. raw_data' = [batch |-> Empty, sent |-> raw_data.sent]
    BY <1>3 DEF Restart, RawInv, Table
  <2>3. DOMAIN raw_data'.batch = {}
    BY <2>2 DEF Empty
  <2>4. QED
    BY <2>1, <2>3 DEF LastInv
<1>4. CASE SendAggs \/ SendAggsFails \/ SendStat \/ UNCHANGED vars
  BY <1>4 DEF SendAggs, SendAggsFails, SendStat, vars, tables, caches, ghosts, LastInv
<1>5. QED
  BY <1>1, <1>2, <1>3, <1>4 DEF Next

\* Whole numbers are divided in order.
LEMMA DivMonotone ==
    ASSUME NEW n \in Nat \ {0}, NEW a \in Nat, NEW b \in Nat, a <= b
    PROVE  a \div n <= b \div n
OBVIOUS

\* The greatest element of a set, when there is one.
LEMMA TheMax ==
    ASSUME NEW S, S \subseteq Nat, NEW m \in S, \A x \in S : x <= m
    PROVE  Max(S) = m
<1>1. \E x \in S : \A y \in S : x >= y
  OBVIOUS
<1>2. Max(S) \in S /\ \A y \in S : Max(S) >= y
  BY <1>1 DEF Max
<1>3. Max(S) \in Nat /\ m \in Nat /\ Max(S) >= m /\ Max(S) <= m
  BY <1>2
<1>4. QED
  BY <1>3

\* get_metadata of a value that is newer than all others.
LEMMA GivenIsLast ==
    ASSUME LogInv, RawInv, LastInv, NEW t \in Nat, NEW v, last # Never,
           last.ts < t, \A e \in log : e.ts <= last.ts,
           last.ts \notin lostRaw, ~ (last.ts < t - SeekBack)
    PROVE  GetMetadata(t, v).last_update = last.ts /\ GetMetadata(t, v).last_val = last.val
<1>1. CASE metadata_cache # None
  BY <1>1 DEF GetMetadata, LastInv
<1>2. CASE metadata_cache = None
  <2>1. last \in log /\ last.ts \in Nat /\ SeekBack \in Nat
    BY RollupAssumption DEF LogInv
  <2>2. last.ts \in DOMAIN raw_data.sent
    BY <1>2, <2>1 DEF LastInv, RawInv
  <2>3. raw_data.sent[last.ts] = last.val
    <3>1. PICK e : e = [ts |-> last.ts, val |-> raw_data.sent[last.ts]]
      OBVIOUS
    <3>2. e \in log /\ e.ts = last.ts /\ e.val = raw_data.sent[last.ts]
      BY <2>2, <3>1 DEF RawInv
    <3>3. QED
      BY <2>1, <3>2 DEF LogInv
  <2>4. DEFINE old == {u \in DOMAIN raw_data.sent : u < t /\ u >= t - SeekBack}
  <2>5. ASSUME NEW u \in old PROVE u \in Nat /\ u <= last.ts
    <3>1. PICK e : e = [ts |-> u, val |-> raw_data.sent[u]]
      OBVIOUS
    <3>2. e \in log /\ e.ts = u
      BY <2>5, <3>1 DEF RawInv
    <3>3. QED
      BY <3>2, RollupAssumption DEF LogInv
  <2>6. last.ts \in old
    BY <2>1, <2>2
  <2>7. \A u \in old : Year(u) <= Year(last.ts) /\ Year(u) \in Nat /\ Year(last.ts) \in Nat
    BY <2>1, <2>5, DivMonotone, RollupAssumption DEF Year
  <2>8. SeekRow(t) = {u \in old : \A w \in old : Year(u) >= Year(w)}
    BY DEF SeekRow
  <2> HIDE DEF old
  <2>9. last.ts \in SeekRow(t) /\ SeekRow(t) \subseteq old
    BY <2>6, <2>7, <2>8
  <2>10. Max(SeekRow(t)) = last.ts
    BY <2>5, <2>9, TheMax
  <2>11. QED
    BY <1>2, <2>3, <2>9, <2>10 DEF GetMetadata
<1>3. QED
  BY <1>1, <1>2

\* The value before.
LEMMA PreviousNext ==
    LogInv /\ RawInv /\ LastInv /\ PreviousIsFound /\ [Next]_vars => PreviousIsFound'
<1> SUFFICES ASSUME LogInv, RawInv, LastInv, PreviousIsFound, [Next]_vars PROVE PreviousIsFound'
  OBVIOUS
<1>1. CASE Measure
  <2>1. PICK t \in Times, v \in Values : t \in Nat /\ Takes(t, v)
    BY <1>1, Takings
  <2>2. PICK e : e = [ts |-> t, val |-> v]
    OBVIOUS
  <2>3. /\ e.ts = t /\ last' = e /\ before' = last /\ log' = log \cup {e}
        /\ given' = GetMetadata(t, v) /\ lostRaw' = lostRaw /\ e \notin log
    BY <2>1, <2>2 DEF Takes
  <2>4. log' \ {last'} = log
    BY <2>3
  <2>5. SUFFICES ASSUME last # Never, last.ts < t, \A f \in log : f.ts <= last.ts,
                        last.ts \notin lostRaw, ~ (last.ts < t - SeekBack)
                 PROVE  given'.last_update = last.ts /\ given'.last_val = last.val
    <3>1. last # Never => last.ts \in Nat
      BY RollupAssumption DEF LogInv
    <3>2. QED
      BY <2>1, <2>3, <2>4, <3>1 DEF PreviousIsFound
  <2>6. QED
    BY <2>1, <2>3, <2>5, GivenIsLast
<1>2. CASE Restart
  <2>1. UNCHANGED <<before, last, log, given>> /\ lostRaw \subseteq lostRaw'
    BY <1>2 DEF Restart
  <2>2. QED
    BY <2>1 DEF PreviousIsFound
<1>3. CASE SendRaw \/ SendAggs \/ SendAggsFails \/ SendStat \/ UNCHANGED vars
  BY <1>3 DEF SendRaw, SendAggs, SendAggsFails, SendStat, vars, ghosts, PreviousIsFound
<1>4. QED
  BY <1>1, <1>2, <1>3 DEF Next

-------------------------------------------------------------------------------
(* The extremes of a bin. *)

\* What is written over something, and over that.
LEMMA OverAssociates ==
    ASSUME NEW a, NEW b, NEW c
    PROVE  Over(Over(a, b), c) = Over(a, Over(b, c))
BY DEF Over

\* Nothing written over something, and something over nothing.
LEMMA OverNothing ==
    ASSUME NEW a, a = Empty \/ a = [x \in StatFields |-> a[x]]
    PROVE  Over(a, Empty) = a /\ Over(Empty, a) = a
<1>1. a = [x \in DOMAIN a |-> a[x]] /\ DOMAIN Empty = {}
  BY DEF Empty
<1>2. QED
  BY <1>1 DEF Over

\* All the fields of a bin replace what was there.
LEMMA AllFields ==
    ASSUME NEW t, NEW v
    PROVE  /\ DOMAIN Fields(t, v) = StatFields /\ Fields(t, v) # Empty
           /\ Fields(t, v) = [x \in StatFields |-> Fields(t, v)[x]]
           /\ Fields(t, v).min = v /\ Fields(t, v).max = v
           /\ Fields(t, v).min_ts = t /\ Fields(t, v).max_ts = t
           /\ \A a : DOMAIN a \subseteq StatFields => Over(a, Fields(t, v)) = Fields(t, v)
<1>1. /\ DOMAIN Fields(t, v) = StatFields
      /\ Fields(t, v).min = v /\ Fields(t, v).max = v
      /\ Fields(t, v).min_ts = t /\ Fields(t, v).max_ts = t
  BY DEF Fields, StatFields
<1>2. Fields(t, v) # Empty
  BY <1>1 DEF Empty, StatFields
<1>3. Fields(t, v) = [x \in StatFields |-> Fields(t, v)[x]]
  BY DEF Fields, StatFields
<1>4. ASSUME NEW a, DOMAIN a \subseteq StatFields PROVE Over(a, Fields(t, v)) = Fields(t, v)
  <2>1. PICK f : f = Fields(t, v)
    OBVIOUS
  <2>2. DOMAIN f = StatFields /\ f = [x \in StatFields |-> f[x]]
    BY <1>1, <1>3, <2>1
  <2>3. Over(a, f) = f
    BY <1>4, <2>2 DEF Over
  <2>4. QED
    BY <2>1, <2>3
<1>5. QED
  BY <1>1, <1>2, <1>3, <1>4

\* The domain of what was measured.
LEMMA MeasuredFields ==
    ASSUME NEW s, NEW b, Measured(s, b)
    PROVE  /\ s = Empty \/ s = [x \in StatFields |-> s[x]]
           /\ DOMAIN s \subseteq StatFields
BY DEF Measured, Empty

\* A measurement never takes another one away.
LEMMA MeasuredStays ==
    ASSUME log \subseteq log', NEW s, NEW b, Measured(s, b)
    PROVE  Measured(s, b)'
BY DEF Measured, InBin

\* A value that enters a bin: what is kept for it then, new.min and all, was measured.
LEMMA NewExtremes ==
    ASSUME NEW ret, NEW b, NEW t \in Nat, NEW v \in Nat, NEW new, new = Written(ret, t, v),
           Measured(ret, b)', ([ts |-> t, val |-> v] \in InBin(b))',
           \A e \in log' : e.val \in Nat
    PROVE  /\ Measured(Over(ret, new), b)' /\ Over(ret, new) # Empty
           /\ ret = Empty => new = Fields(t, v) /\ Over(ret, new) = Fields(t, v)
           /\ ret # Empty =>
                /\ Over(ret, new).max = Higher(v, ret.max)
                /\ Over(ret, new).min = Lower(v, ret.min)
<1>1. PICK f : f = Fields(t, v)
  OBVIOUS
<1>2. /\ f = [x \in StatFields |-> f[x]] /\ f.min = v /\ f.max = v /\ f.min_ts = t /\ f.max_ts = t
      /\ f # Empty
  BY <1>1, AllFields
<1>3. PICK o : o = Over(ret, new)
  OBVIOUS
<1>4. CASE ret = Empty
  <2>1. new = f /\ o = f
    BY <1>1, <1>2, <1>3, <1>4, OverNothing DEF Written
  <2>2. Measured(f, b)'
    BY <1>2 DEF Measured
  <2>3. QED
    BY <1>1, <1>2, <1>3, <1>4, <2>1, <2>2
<1>5. CASE ret # Empty
  <2>1. /\ ret = [x \in StatFields |-> ret[x]]
        /\ ([ts |-> ret.min_ts, val |-> ret.min] \in InBin(b))'
        /\ ([ts |-> ret.max_ts, val |-> ret.max] \in InBin(b))'
        /\ ret.min <= ret.max
    BY <1>5 DEF Measured
  <2>2. ret.min \in Nat /\ ret.max \in Nat
    <3>1. PICK x : x = [ts |-> ret.min_ts, val |-> ret.min]
      OBVIOUS
    <3>2. PICK y : y = [ts |-> ret.max_ts, val |-> ret.max]
      OBVIOUS
    <3>3. x \in log' /\ y \in log' /\ x.val = ret.min /\ y.val = ret.max
      BY <2>1, <3>1, <3>2 DEF InBin
    <3>4. QED
      BY <3>3
  <2>3. CASE v > ret.max
    <3>1. new = [x \in {"max", "max_ts"} |-> f[x]]
      BY <1>1, <1>5, <2>3 DEF Written
    <3>2. o = [x \in StatFields |-> IF x \in {"max", "max_ts"} THEN f[x] ELSE ret[x]]
      BY <1>3, <2>1, <3>1 DEF Over, StatFields
    <3>3. o = [x \in StatFields |-> o[x]]
      BY <3>2
    <3>4. o.max = v /\ o.max_ts = t /\ o.min = ret.min /\ o.min_ts = ret.min_ts
      BY <1>2, <3>2 DEF StatFields
    <3>5. o.min <= o.max
      BY <2>1, <2>2, <2>3, <3>4
    <3>6. Measured(o, b)' /\ o # Empty
      <4>1. o # Empty
        BY <3>3 DEF Empty, StatFields
      <4>2. QED
        BY <2>1, <3>3, <3>4, <3>5, <4>1 DEF Measured
    <3>7. ~ (v < ret.min)
      BY <2>1, <2>2, <2>3
    <3>8. QED
      BY <1>3, <1>5, <2>3, <3>4, <3>6, <3>7 DEF Higher, Lower
  <2>4. CASE ~ (v > ret.max) /\ v < ret.min
    <3>1. new = [x \in {"min", "min_ts"} |-> f[x]]
      BY <1>1, <1>5, <2>4 DEF Written
    <3>2. o = [x \in StatFields |-> IF x \in {"min", "min_ts"} THEN f[x] ELSE ret[x]]
      BY <1>3, <2>1, <3>1 DEF Over, StatFields
    <3>3. o = [x \in StatFields |-> o[x]]
      BY <3>2
    <3>4. o.min = v /\ o.min_ts = t /\ o.max = ret.max /\ o.max_ts = ret.max_ts
      BY <1>2, <3>2 DEF StatFields
    <3>5. o.min <= o.max
      BY <2>1, <2>2, <2>4, <3>4
    <3>6. Measured(o, b)' /\ o # Empty
      <4>1. o # Empty
        BY <3>3 DEF Empty, StatFields
      <4>2. QED
        BY <2>1, <3>3, <3>4, <3>5, <4>1 DEF Measured
    <3>7. QED
      BY <1>3, <1>5, <2>4, <3>4, <3>6 DEF Higher, Lower
  <2>5. CASE ~ (v > ret.max) /\ ~ (v < ret.min)
    <3>1. new = Empty
      BY <1>5, <2>5 DEF Written
    <3>2. o = ret
      BY <1>3, <2>1, <3>1, OverNothing
    <3>3. QED
      BY <1>3, <1>5, <2>5, <3>2 DEF Higher, Lower
  <2>6. QED
    BY <2>3, <2>4, <2>5
<1>6. QED
  BY <1>4, <1>5

\* What update_stat_aggregation does to the tables: whether it finds the bin in its
\* cache, in Cassandra or not at all, the tables hold afterwards what the cache holds.
LEMMA StatStep ==
    ASSUME StatInv, CacheInv, NEW t \in Times, NEW v, UpdateStatAggregation(t, v),
           NEW b, b = Bin(t), NEW ret, ret = Cached(b), NEW new, new = Written(ret, t, v)
    PROVE  /\ ret = Stat(b) \/ ret = Empty
           /\ Alone(b) => ret = Stat(b)
           /\ Table(stat_agg)' /\ stat_agg'.sent = stat_agg.sent
           /\ DOMAIN stat_agg'.batch \subseteq DOMAIN stat_agg.batch \cup {b}
           /\ Stat(b)' = Over(ret, new)
           /\ \A c : c # b => Stat(c)' = Stat(c)
           /\ aggregation_cache' =
                Put(aggregation_cache, Year(b), [bin |-> b, val |-> Over(ret, new)])
<1> DEFINE B == stat_agg.batch  S == stat_agg.sent
<1>1. stat_agg = [batch |-> B, sent |-> S] /\ b \in Spots
  BY DEF StatInv, Table, Spots
<1>2. Measured(At(S, b), b) /\ Measured(Stat(b), b)
  BY <1>1 DEF StatInv
<1>3. /\ aggregation_cache' =
             Put(aggregation_cache, Year(b), [bin |-> b, val |-> Over(ret, new)])
      /\ stat_agg' = IF new = Empty THEN stat_agg
                     ELSE [stat_agg EXCEPT !.batch = Put(@, b, Over(At(@, b), new))]
  BY DEF UpdateStatAggregation
<1>4. Year(b) \notin DOMAIN aggregation_cache => ret = Stat(b)
  <2>1. SUFFICES ASSUME Year(b) \notin DOMAIN aggregation_cache PROVE ret = Stat(b)
    OBVIOUS
  <2>2. ret = At(S, b)
    BY <2>1 DEF Cached, Lookup
  <2>3. At(B, b) = Empty
    BY <2>1 DEF CacheInv, At
  <2>4. Over(At(S, b), Empty) = At(S, b)
    BY <1>2, MeasuredFields, OverNothing
  <2>5. QED
    BY <2>2, <2>3, <2>4 DEF Stat
<1>5. Year(b) \in DOMAIN aggregation_cache =>
        ret = IF aggregation_cache[Year(b)].bin = b THEN Stat(b) ELSE Empty
  BY DEF Cached, CacheInv
<1>6. ret = Stat(b) \/ ret = Empty
  BY <1>4, <1>5
<1>7. Alone(b) => ret = Stat(b)
  BY <1>4, <1>5 DEF Alone
<1>8. Over(Stat(b), new) = Over(ret, new)
  <2>1. CASE ret = Empty
    <3>1. new = Fields(t, v)
      BY <2>1 DEF Written
    <3>2. DOMAIN Stat(b) \subseteq StatFields /\ DOMAIN ret \subseteq StatFields
      BY <1>2, <2>1, MeasuredFields DEF Empty
    <3>3. QED
      BY <3>1, <3>2, AllFields
  <2>2. QED
    BY <1>6, <2>1
<1>9. CASE new = Empty
  <2>1. stat_agg' = stat_agg
    BY <1>3, <1>9
  <2>2. \A c : Stat(c)' = Stat(c)
    BY <2>1 DEF Stat
  <2>3. Over(Stat(b), new) = Stat(b)
    BY <1>2, <1>9, MeasuredFields, OverNothing
  <2>4. Table(stat_agg)' /\ stat_agg'.sent = stat_agg.sent /\ DOMAIN stat_agg'.batch = DOMAIN B
    BY <1>1, <2>1 DEF Table
  <2>5. Stat(b)' = Over(ret, new)
    BY <1>8, <2>2, <2>3
  <2>6. QED
    BY <1>3, <1>6, <1>7, <2>2, <2>4, <2>5
<1>10. CASE new # Empty
  <2>1. stat_agg' = [batch |-> Put(B, b, Over(At(B, b), new)), sent |-> S]
    BY <1>1, <1>3, <1>10
  <2>2. PICK w : w = Over(At(B, b), new)
    OBVIOUS
  <2>3. Table(stat_agg)' /\ stat_agg'.batch = Put(B, b, w) /\ stat_agg'.sent = S
    BY <2>1, <2>2 DEF Table
  <2>4. /\ DOMAIN stat_agg'.batch = DOMAIN B \cup {b}
        /\ At(stat_agg'.batch, b) = w
        /\ \A c : c # b => At(stat_agg'.batch, c) = At(B, c)
    BY <2>3 DEF Put, Over, At
  <2>5. Stat(b)' = Over(At(S, b), w)
    BY <2>3, <2>4 DEF Stat
  <2>6. Over(At(S, b), w) = Over(Stat(b), new)
    BY <2>2, OverAssociates DEF Stat
  <2>7. \A c : c # b => Stat(c)' = Stat(c)
    BY <2>3, <2>4 DEF Stat
  <2>8. QED
    BY <1>3, <1>6, <1>7, <1>8, <2>3, <2>4, <2>5, <2>6, <2>7
<1>11. QED
  BY <1>9, <1>10

\* A measurement belongs to its bin.
LEMMA BinOfTaken ==
    ASSUME LogInv, NEW t \in Times, NEW v \in Values, Takes(t, v), NEW b, b = Bin(t),
           NEW e, e = [ts |-> t, val |-> v]
    PROVE  /\ e \notin log /\ log' = log \cup {e} /\ e.val = v /\ v \in Nat /\ t \in Nat
           /\ (e \in InBin(b))' /\ b \in Spots
           /\ InBin(b)' = InBin(b) \cup {e}
           /\ \A c : c # b => InBin(c)' = InBin(c)
           /\ \A x \in log' : x.val \in Nat
<1>1. log' = log \cup {e} /\ e.ts = t /\ e.val = v /\ e \notin log
  BY DEF Takes
<1>2. v \in Nat /\ t \in Nat /\ Values \subseteq Nat /\ b \in Spots
  BY RollupAssumption DEF Spots
<1>3. \A c : InBin(c)' = {x \in log' : Bin(x.ts) = c}
  BY DEF InBin
<1>4. InBin(b)' = InBin(b) \cup {e}
  BY <1>1, <1>3 DEF InBin
<1>5. \A c : c # b => InBin(c)' = InBin(c)
  BY <1>1, <1>3 DEF InBin
<1>6. \A x \in log' : x.val \in Nat
  BY <1>1, <1>2 DEF LogInv
<1>7. QED
  BY <1>1, <1>2, <1>4, <1>5, <1>6

\* What a send leaves in the tables is what was there and in the batch.
LEMMA StatSent ==
    ASSUME StatInv, SendStat, NEW b
    PROVE  /\ Table(stat_agg)' /\ DOMAIN stat_agg'.batch = {}
           /\ b \in Spots => At(stat_agg.sent, b)' = Stat(b) /\ Stat(b)' = Stat(b)
<1> DEFINE B == stat_agg.batch  S == stat_agg.sent
           N == [x \in DOMAIN B \cup DOMAIN S |-> Over(At(S, x), At(B, x))]
<1>1. stat_agg' = [batch |-> Empty, sent |-> N]
  BY DEF SendStat
<1>2. Table(stat_agg)' /\ stat_agg'.batch = Empty /\ stat_agg'.sent = N
  BY <1>1 DEF Table
<1>3. DOMAIN Empty = {}
  BY DEF Empty
<1>4. ASSUME b \in Spots PROVE At(N, b) = Stat(b)
  <2>1. CASE b \in DOMAIN N
    BY <2>1 DEF At, Stat
  <2>2. CASE b \notin DOMAIN N
    <3>1. At(S, b) = Empty /\ At(B, b) = Empty /\ At(N, b) = Empty
      BY <2>2 DEF At
    <3>2. Over(Empty, Empty) = Empty
      BY OverNothing
    <3>3. QED
      BY <3>1, <3>2 DEF Stat
  <2>3. QED
    BY <2>1, <2>2
<1>5. ASSUME b \in Spots PROVE Stat(b)' = Stat(b)
  <2>1. At(stat_agg'.batch, b) = Empty
    BY <1>2, <1>3 DEF At
  <2>2. Measured(Stat(b), b)
    BY <1>5 DEF StatInv
  <2>3. Stat(b)' = Over(At(N, b), Empty)
    BY <1>2, <2>1 DEF Stat
  <2>4. QED
    BY <1>4, <1>5, <2>2, <2>3, MeasuredFields, OverNothing
<1>6. QED
  BY <1>2, <1>3, <1>4, <1>5 DEF At

\* What a crash leaves in the tables.
LEMMA StatLost ==
    ASSUME StatInv, Restart, NEW b \in Spots
    PROVE  /\ Table(stat_agg)' /\ DOMAIN stat_agg'.batch = {} /\ stat_agg'.sent = stat_agg.sent
           /\ Stat(b)' = At(stat_agg.sent, b)
           /\ b \notin DOMAIN stat_agg.batch => Stat(b)' = Stat(b)
<1> DEFINE B == stat_agg.batch  S == stat_agg.sent
<1>1. stat_agg' = [batch |-> Empty, sent |-> S]
  BY DEF Restart, StatInv, Table
<1>2. Table(stat_agg)' /\ stat_agg'.batch = Empty /\ stat_agg'.sent = S
  BY <1>1 DEF Table
<1>3. DOMAIN Empty = {}
  BY DEF Empty
<1>4. Over(At(S, b), Empty) = At(S, b)
  BY MeasuredFields, OverNothing DEF StatInv
<1>5. Stat(b)' = At(S, b)
  BY <1>2, <1>3, <1>4 DEF Stat, At
<1>6. b \notin DOMAIN B => Stat(b) = At(S, b)
  BY <1>4 DEF Stat, At
<1>7. QED
  BY <1>2, <1>3, <1>5, <1>6

\* A measurement and the extremes: those of its bin are afterwards those of measured
\* values; when no other bin of the year is in the cache they are those of the bin
\* before and of the value.
LEMMA StatTaken ==
    ASSUME LogInv, StatInv, CacheInv, NEW t \in Times, NEW v \in Values, Takes(t, v),
           NEW b, b = Bin(t), NEW o, o = Stat(b)', NEW s, s = Stat(b)
    PROVE  /\ Table(stat_agg)' /\ stat_agg'.sent = stat_agg.sent
           /\ DOMAIN stat_agg'.batch \subseteq DOMAIN stat_agg.batch \cup {b}
           /\ \A c : c # b => Stat(c)' = Stat(c)
           /\ aggregation_cache' = Put(aggregation_cache, Year(b), [bin |-> b, val |-> o])
           /\ Measured(o, b)' /\ o # Empty
           /\ s = Empty \/ Alone(b) => Joined(o, s, v)
<1>1. PICK e : e = [ts |-> t, val |-> v]
  OBVIOUS
<1>2. PICK ret : ret = Cached(b)
  OBVIOUS
<1>3. PICK new : new = Written(ret, t, v)
  OBVIOUS
<1>4. /\ log \subseteq log' /\ v \in Nat /\ t \in Nat /\ (e \in InBin(b))' /\ b \in Spots
      /\ \A x \in log' : x.val \in Nat
  BY <1>1, BinOfTaken
<1>5. UpdateStatAggregation(t, v)
  BY DEF Takes
<1>6. PICK w : w = Over(ret, new)
  OBVIOUS
<1>7. /\ ret = Stat(b) \/ ret = Empty
      /\ Alone(b) => ret = Stat(b)
      /\ stat_agg'.sent = stat_agg.sent
      /\ DOMAIN stat_agg'.batch \subseteq DOMAIN stat_agg.batch \cup {b}
      /\ Stat(b)' = w
      /\ \A c : c # b => Stat(c)' = Stat(c)
      /\ aggregation_cache' = Put(aggregation_cache, Year(b), [bin |-> b, val |-> w])
  BY <1>2, <1>3, <1>5, <1>6, StatStep
<1>8. Table(stat_agg)'
  BY <1>2, <1>3, <1>5, StatStep
<1>9. Measured(ret, b)
  BY <1>4, <1>7 DEF StatInv, Measured
<1>10. Measured(ret, b)'
  BY <1>4, <1>9, MeasuredStays
<1>11. /\ Measured(w, b)' /\ w # Empty
       /\ ret = Empty => w = Fields(t, v)
       /\ ret # Empty => /\ w.max = Higher(v, ret.max)
                         /\ w.min = Lower(v, ret.min)
  BY <1>1, <1>3, <1>4, <1>6, <1>10, NewExtremes
<1>12. o = w
  BY <1>7
<1>13. s = Empty \/ Alone(b) => Joined(o, s, v)
  BY <1>7, <1>11, <1>12, AllFields DEF Joined
<1>14. QED
  BY <1>7, <1>8, <1>11, <1>12, <1>13

\* The extremes in the tables stay those of measured values.
LEMMA StatNext == LogInv /\ StatInv /\ CacheInv /\ [Next]_vars => StatInv'
<1> SUFFICES ASSUME LogInv, StatInv, CacheInv, [Next]_vars PROVE StatInv'
  OBVIOUS
<1>1. CASE Measure
  <2>1. PICK t \in Times, v \in Values : Takes(t, v)
    BY <1>1, Takings
  <2>2. PICK b : b = Bin(t)
    OBVIOUS
  <2>3. PICK o : o = Stat(b)'
    OBVIOUS
  <2>4. /\ Table(stat_agg)' /\ stat_agg'.sent = stat_agg.sent
        /\ \A c : c # b => Stat(c)' = Stat(c)
        /\ Measured(o, b)'
    BY <2>1, <2>2, <2>3, StatTaken
  <2>5. log \subseteq log'
    BY <2>1 DEF Takes
  <2>6. ASSUME NEW c \in Spots PROVE Measured(Stat(c), c)'
    <3>1. PICK s : s = Stat(c)'
      OBVIOUS
    <3>2. CASE c = b
      <4>1. Measured(s, c)'
        BY <2>3, <2>4, <3>1, <3>2
      <4>2. QED
        BY <3>1, <4>1
    <3>3. CASE c # b
      <4>1. s = Stat(c)
        BY <2>4, <3>1, <3>3
      <4>2. Measured(s, c)'
        BY <2>5, <4>1, MeasuredStays DEF StatInv
      <4>3. QED
        BY <3>1, <4>2
    <3>4. QED
      BY <3>2, <3>3
  <2>7. ASSUME NEW c \in Spots PROVE Measured(At(stat_agg.sent, c), c)'
    <3>1. PICK s : s = At(stat_agg.sent, c) /\ s = At(stat_agg.sent, c)'
      BY <2>4 DEF At
    <3>2. Measured(s, c)'
      BY <2>5, <3>1, MeasuredStays DEF StatInv
    <3>3. QED
      BY <3>1, <3>2
  <2>8. Spots' = Spots
    BY DEF Spots, Bin
  <2>9. QED
    BY <2>4, <2>6, <2>7, <2>8 DEF StatInv
<1>2. CASE SendStat
  <2>1. log' = log
    BY <1>2 DEF SendStat, ghosts
  <2>2. ASSUME NEW c \in Spots
        PROVE  Measured(At(stat_agg.sent, c), c)' /\ Measured(Stat(c), c)'
    <3>1. PICK s : s = Stat(c) /\ s = At(stat_agg.sent, c)' /\ s = Stat(c)'
      BY <1>2, StatSent
    <3>2. Measured(s, c)'
      BY <2>1, <3>1, MeasuredStays DEF StatInv
    <3>3. QED
      BY <3>1, <3>2
  <2>3. Table(stat_agg)'
    BY <1>2, StatSent
  <2>4. QED
    BY <2>2, <2>3 DEF StatInv, Spots, Bin
<1>3. CASE Restart
  <2>1. log' = log
    BY <1>3 DEF Restart
  <2>2. ASSUME NEW c \in Spots
        PROVE  /\ Table(stat_agg)'
               /\ Measured(At(stat_agg.sent, c), c)' /\ Measured(Stat(c), c)'
    <3>1. /\ Table(stat_agg)' /\ stat_agg'.sent = stat_agg.sent
          /\ Stat(c)' = At(stat_agg.sent, c)
      BY <1>3, StatLost
    <3>2. PICK s : s = At(stat_agg.sent, c) /\ s = At(stat_agg.sent, c)' /\ s = Stat(c)'
      BY <3>1 DEF At
    <3>3. Measured(s, c)'
      BY <2>1, <3>2, MeasuredStays DEF StatInv
    <3>4. QED
      BY <3>1, <3>2, <3>3
  <2>3. Table(stat_agg)'
    BY <1>3 DEF Restart, StatInv, Table
  <2>4. QED
    BY <2>2, <2>3 DEF StatInv, Spots, Bin
<1>4. CASE SendRaw \/ SendAggs \/ SendAggsFails \/ UNCHANGED vars
  <2>1. UNCHANGED <<stat_agg, log>>
    BY <1>4 DEF SendRaw, SendAggs, SendAggsFails, vars, tables, ghosts
  <2>2. /\ Table(stat_agg)' = Table(stat_agg) /\ Spots' = Spots
        /\ \A c : /\ At(stat_agg.sent, c)' = At(stat_agg.sent, c) /\ Stat(c)' = Stat(c)
                  /\ \A s : Measured(s, c)' = Measured(s, c)
    BY <2>1 DEF Spots, Bin, Table, Measured, InBin, Stat, At
  <2>3. QED
    BY <2>2 DEF StatInv
<1>5. QED
  BY <1>1, <1>2, <1>3, <1>4 DEF Next

\* The cache of bins stays that of the tables.
LEMMA CacheNext == LogInv /\ StatInv /\ CacheInv /\ [Next]_vars => CacheInv'
<1> SUFFICES ASSUME LogInv, StatInv, CacheInv, [Next]_vars PROVE CacheInv'
  OBVIOUS
<1>1. CASE Measure
  <2>1. PICK t \in Times, v \in Values : Takes(t, v)
    BY <1>1, Takings
  <2>2. PICK b : b = Bin(t)
    OBVIOUS
  <2>3. PICK o : o = Stat(b)'
    OBVIOUS
  <2>4. /\ DOMAIN stat_agg'.batch \subseteq DOMAIN stat_agg.batch \cup {b}
        /\ \A c : c # b => Stat(c)' = Stat(c)
        /\ aggregation_cache' = Put(aggregation_cache, Year(b), [bin |-> b, val |-> o])
        /\ o # Empty
    BY <2>1, <2>2, <2>3, StatTaken
  <2>5. b \in Spots
    BY <2>2 DEF Spots
  <2>6. PICK y : y = Year(b)
    OBVIOUS
  <2>7. /\ DOMAIN aggregation_cache' = DOMAIN aggregation_cache \cup {y}
        /\ aggregation_cache'[y] = [bin |-> b, val |-> o]
        /\ \A z \in DOMAIN aggregation_cache : z # y =>
               aggregation_cache'[z] = aggregation_cache[z]
    BY <2>4, <2>6 DEF Put, Over
  <2>8. ASSUME NEW z \in DOMAIN aggregation_cache', NEW c, c = aggregation_cache'[z]
        PROVE  c.bin \in Spots /\ Year(c.bin) = z /\ c.val = Stat(c.bin)' /\ c.val # Empty
    <3>1. CASE z = y
      <4>1. c.bin = b /\ c.val = o
        BY <2>7, <2>8, <3>1
      <4>2. QED
        BY <2>3, <2>4, <2>5, <2>6, <3>1, <4>1
    <3>2. CASE z # y
      <4>1. z \in DOMAIN aggregation_cache /\ c = aggregation_cache[z]
        BY <2>7, <2>8, <3>2
      <4>2. PICK d : d = c.bin
        OBVIOUS
      <4>3. d \in Spots /\ Year(d) = z /\ c.val = Stat(d) /\ c.val # Empty
        BY <4>1, <4>2 DEF CacheInv
      <4>4. d # b
        BY <2>6, <3>2, <4>3
      <4>5. Stat(d)' = Stat(d)
        BY <2>4, <4>4
      <4>6. QED
        BY <4>2, <4>3, <4>5
    <3>3. QED
      BY <3>1, <3>2
  <2>9. \A c \in DOMAIN stat_agg'.batch : Year(c) \in DOMAIN aggregation_cache'
    BY <2>4, <2>6, <2>7 DEF CacheInv
  <2>10. QED
    BY <2>8, <2>9 DEF CacheInv, Spots, Bin, Year
<1>2. CASE SendStat
  <2>1. aggregation_cache' = aggregation_cache
    BY <1>2 DEF SendStat, caches
  <2>2. DOMAIN stat_agg'.batch = {} /\ \A c \in Spots : Stat(c)' = Stat(c)
    BY <1>2, StatSent
  <2>3. QED
    BY <2>1, <2>2 DEF CacheInv, Spots, Bin, Year
<1>3. CASE Restart
  <2>1. DOMAIN aggregation_cache' = {} /\ DOMAIN stat_agg'.batch = {}
    BY <1>3 DEF Restart, Empty, StatInv, Table
  <2>2. QED
    BY <2>1 DEF CacheInv
<1>4. CASE SendRaw \/ SendAggs \/ SendAggsFails \/ UNCHANGED vars
  <2>1. UNCHANGED <<stat_agg, aggregation_cache>>
    BY <1>4 DEF SendRaw, SendAggs, SendAggsFails, vars, tables, caches
  <2>2. QED
    BY <2>1 DEF CacheInv, Spots, Bin, Year, Stat, At
<1>5. QED
  BY <1>1, <1>2, <1>3, <1>4 DEF Next


-------------------------------------------------------------------------------
(* The counters of a bin. *)

\* A counter that counts is not an empty one.
LEMMA CounterParts ==
    ASSUME NEW c \in [val : Nat, count : Nat]
    PROVE  /\ c # Empty /\ c.val \in Nat /\ c.count \in Nat
           /\ c = [val |-> c.val, count |-> c.count]
BY DEF Empty

\* What adding counters gives.
LEMMA PlusParts ==
    ASSUME NEW c \in Counters, NEW d \in Counters
    PROVE  /\ Plus(c, d) \in Counters
           /\ c = Empty => Plus(c, d) = d
           /\ d = Empty => Plus(c, d) = c
           /\ c # Empty /\ d # Empty =>
                /\ c \in [val : Nat, count : Nat] /\ d \in [val : Nat, count : Nat]
                /\ Plus(c, d) = [val |-> c.val + d.val, count |-> c.count + d.count]
                /\ Plus(c, d) \in [val : Nat, count : Nat]
BY DEF Counters, Plus

\* Counters may be added in the batch or in the table.
LEMMA PlusAssociates ==
    ASSUME NEW c \in Counters, NEW d \in Counters, NEW e \in Counters
    PROVE  Plus(Plus(c, d), e) = Plus(c, Plus(d, e))
<1>1. CASE c = Empty \/ d = Empty \/ e = Empty
  <2>1. Plus(d, e) \in Counters /\ Plus(c, d) \in Counters
    BY PlusParts
  <2>2. QED
    BY <1>1, <2>1, PlusParts
<1>2. CASE c # Empty /\ d # Empty /\ e # Empty
  <2>1. /\ c \in [val : Nat, count : Nat] /\ d \in [val : Nat, count : Nat]
        /\ e \in [val : Nat, count : Nat]
    BY <1>2 DEF Counters
  <2>2. PICK p : p = Plus(c, d)
    OBVIOUS
  <2>3. PICK q : q = Plus(d, e)
    OBVIOUS
  <2>4. /\ p = [val |-> c.val + d.val, count |-> c.count + d.count]
        /\ q = [val |-> d.val + e.val, count |-> d.count + e.count]
        /\ p \in [val : Nat, count : Nat] /\ q \in [val : Nat, count : Nat]
    BY <1>2, <2>2, <2>3, PlusParts
  <2>5. p \in Counters /\ q \in Counters /\ p # Empty /\ q # Empty
    BY <2>4, CounterParts DEF Counters
  <2>6. /\ Plus(p, e) = [val |-> p.val + e.val, count |-> p.count + e.count]
        /\ Plus(c, q) = [val |-> c.val + q.val, count |-> c.count + q.count]
    BY <1>2, <2>5, PlusParts
  <2>7. p.val + e.val = c.val + q.val /\ p.count + e.count = c.count + q.count
    BY <2>1, <2>4
  <2>8. QED
    BY <2>2, <2>3, <2>6, <2>7
<1>3. QED
  BY <1>1, <1>2

\* The counters of a bin, in the batch and in the table.
LEMMA SumParts ==
    ASSUME AggsInv, NEW b
    PROVE  /\ At(aggs.batch, b) \in Counters /\ At(aggs.sent, b) \in Counters
           /\ Sum(b) \in Counters
           /\ b \notin Bins => Sum(b) = Empty
<1>1. At(aggs.batch, b) \in Counters /\ At(aggs.sent, b) \in Counters
  BY DEF AggsInv, At, Counters
<1>2. b \notin Bins => At(aggs.batch, b) = Empty /\ At(aggs.sent, b) = Empty
  BY DEF AggsInv, At
<1>3. QED
  BY <1>1, <1>2, PlusParts DEF Sum

\* A measurement is counted in its bin and nowhere else.
LEMMA SumTaken ==
    ASSUME AggsInv, NEW t \in Times, NEW v \in Values, Takes(t, v), NEW b, b = Bin(t),
           NEW one, one = [val |-> v, count |-> 1]
    PROVE  /\ Table(aggs)' /\ aggs'.sent = aggs.sent
           /\ DOMAIN aggs'.batch = DOMAIN aggs.batch \cup {b}
           /\ aggs'.batch[b] \in [val : Nat, count : Nat]
           /\ \A c \in DOMAIN aggs.batch : c # b => aggs'.batch[c] = aggs.batch[c]
           /\ Sum(b)' = Plus(Sum(b), one)
           /\ At(aggs'.batch, b) = Plus(At(aggs.batch, b), one)
           /\ \A c : c # b => Sum(c)' = Sum(c) /\ At(aggs'.batch, c) = At(aggs.batch, c)
<1> DEFINE B == aggs.batch  S == aggs.sent
<1>1. PICK w : w = Plus(At(B, b), one)
  OBVIOUS
<1>2. aggs' = [batch |-> Put(B, b, w), sent |-> S]
  BY <1>1 DEF Takes, UpdateRateAggregation, AggsInv, Table
<1>3. Table(aggs)' /\ aggs'.batch = Put(B, b, w) /\ aggs'.sent = S
  BY <1>2 DEF Table
<1>4. /\ DOMAIN aggs'.batch = DOMAIN B \cup {b} /\ aggs'.batch[b] = w
      /\ \A c \in DOMAIN B : c # b => aggs'.batch[c] = B[c]
  BY <1>3 DEF Put, Over
<1>5. At(aggs'.batch, b) = w /\ \A c : c # b => At(aggs'.batch, c) = At(B, c)
  BY <1>4 DEF At
<1>6. one \in [val : Nat, count : Nat]
  BY RollupAssumption
<1>7. one \in Counters /\ one # Empty /\ At(B, b) \in Counters /\ At(S, b) \in Counters
  BY <1>6, CounterParts, SumParts DEF Counters
<1>8. w \in [val : Nat, count : Nat]
  BY <1>1, <1>6, <1>7, PlusParts
<1>9. Sum(b)' = Plus(At(S, b), w)
  BY <1>3, <1>5 DEF Sum
<1>10. Plus(At(S, b), w) = Plus(Sum(b), one)
  BY <1>1, <1>7, PlusAssociates DEF Sum
<1>11. \A c : c # b => Sum(c)' = Sum(c)
  BY <1>3, <1>5 DEF Sum
<1>12. QED
  BY <1>1, <1>3, <1>4, <1>5, <1>8, <1>9, <1>10, <1>11

\* The table once the counters of some bins are applied.
LEMMA CountedParts ==
    ASSUME AggsInv, NEW S, S \subseteq DOMAIN aggs.batch, NEW N, N = Counted(S), NEW b
    PROVE  /\ DOMAIN N = S \cup DOMAIN aggs.sent
           /\ b \in DOMAIN N => N[b] \in [val : Nat, count : Nat]
           /\ At(N, b) \in Counters
           /\ b \in S => At(N, b) = Plus(At(aggs.sent, b), At(aggs.batch, b))
           /\ b \notin S => At(N, b) = At(aggs.sent, b)
<1>1. DOMAIN N = S \cup DOMAIN aggs.sent
  BY DEF Counted
<1>2. b \notin S => At(N, b) = At(aggs.sent, b)
  BY <1>1 DEF Counted, At
<1>3. At(aggs.batch, b) \in Counters /\ At(aggs.sent, b) \in Counters
  BY SumParts
<1>4. CASE b \in S
  <2>1. /\ At(aggs.batch, b) = aggs.batch[b]
        /\ aggs.batch[b] \in [val : Nat, count : Nat]
    BY <1>4 DEF At, AggsInv
  <2>2. At(N, b) = N[b] /\ N[b] = Plus(At(aggs.sent, b), aggs.batch[b])
    BY <1>1, <1>4 DEF Counted, At
  <2>3. At(aggs.batch, b) # Empty
    BY <2>1, CounterParts
  <2>4. N[b] \in [val : Nat, count : Nat] /\ N[b] \in Counters
    BY <1>3, <2>1, <2>2, <2>3, PlusParts
  <2>5. QED
    BY <1>1, <1>4, <2>1, <2>2, <2>4
<1>5. CASE b \notin S
  <2>1. b \in DOMAIN N => N[b] \in [val : Nat, count : Nat]
    BY <1>1, <1>5 DEF Counted, AggsInv
  <2>2. QED
    BY <1>1, <1>2, <1>3, <1>5, <2>1
<1>6. QED
  BY <1>4, <1>5

\* A send adds what the batch counted, and counts nothing else.
LEMMA SumSent ==
    ASSUME AggsInv, SendAggs, NEW b
    PROVE  /\ Table(aggs)' /\ DOMAIN aggs'.batch = {}
           /\ DOMAIN aggs'.sent = DOMAIN aggs.batch \cup DOMAIN aggs.sent
           /\ b \in DOMAIN aggs'.sent => aggs'.sent[b] \in [val : Nat, count : Nat]
           /\ Sum(b)' = Sum(b) /\ At(aggs'.batch, b) = Empty
<1>1. PICK N : N = Counted(DOMAIN aggs.batch)
  OBVIOUS
<1>2. aggs' = [batch |-> Empty, sent |-> N]
  BY <1>1 DEF SendAggs
<1>3. Table(aggs)' /\ aggs'.batch = Empty /\ aggs'.sent = N
  BY <1>2 DEF Table
<1>4. DOMAIN Empty = {} /\ Empty \in Counters
  BY DEF Empty, Counters
<1>5. At(aggs'.batch, b) = Empty
  BY <1>3, <1>4 DEF At
<1>6. /\ DOMAIN N = DOMAIN aggs.batch \cup DOMAIN aggs.sent
      /\ b \in DOMAIN N => N[b] \in [val : Nat, count : Nat]
      /\ At(N, b) \in Counters
      /\ b \in DOMAIN aggs.batch => At(N, b) = Plus(At(aggs.sent, b), At(aggs.batch, b))
      /\ b \notin DOMAIN aggs.batch => At(N, b) = At(aggs.sent, b)
  BY <1>1, CountedParts
<1>7. At(N, b) = Sum(b)
  <2>1. b \notin DOMAIN aggs.batch => At(aggs.batch, b) = Empty
    BY DEF At
  <2>2. At(aggs.sent, b) \in Counters
    BY SumParts
  <2>3. QED
    BY <1>4, <1>6, <2>1, <2>2, PlusParts DEF Sum
<1>8. Sum(b)' = Plus(At(N, b), Empty)
  BY <1>3, <1>5 DEF Sum
<1>9. Sum(b)' = Sum(b)
  BY <1>4, <1>6, <1>7, <1>8, PlusParts
<1>10. QED
  BY <1>3, <1>4, <1>5, <1>6, <1>9

\* A send that fails and is applied counts what still waits.
LEMMA SumFailed ==
    ASSUME AggsInv, NEW S, S \subseteq DOMAIN aggs.batch,
           aggs' = [aggs EXCEPT !.sent = Counted(S)], NEW b
    PROVE  /\ Table(aggs)' /\ aggs'.batch = aggs.batch
           /\ DOMAIN aggs'.sent = S \cup DOMAIN aggs.sent
           /\ b \in DOMAIN aggs'.sent => aggs'.sent[b] \in [val : Nat, count : Nat]
           /\ b \in S => Sum(b)' = Plus(Sum(b), At(aggs.batch, b))
           /\ b \notin S => Sum(b)' = Sum(b)
<1>1. PICK N : N = Counted(S)
  OBVIOUS
<1>2. aggs' = [batch |-> aggs.batch, sent |-> N]
  BY <1>1 DEF AggsInv, Table
<1>3. Table(aggs)' /\ aggs'.batch = aggs.batch /\ aggs'.sent = N
  BY ONLY <1>2 DEF Table
<1>4. /\ DOMAIN N = S \cup DOMAIN aggs.sent
      /\ b \in DOMAIN N => N[b] \in [val : Nat, count : Nat]
      /\ b \in S => At(N, b) = Plus(At(aggs.sent, b), At(aggs.batch, b))
      /\ b \notin S => At(N, b) = At(aggs.sent, b)
  BY <1>1, CountedParts
<1>5. Sum(b)' = Plus(At(N, b), At(aggs.batch, b))
  BY <1>3 DEF Sum
<1>6. b \in S => Sum(b)' = Plus(Sum(b), At(aggs.batch, b))
  BY <1>4, <1>5 DEF Sum
<1>7. b \notin S => Sum(b)' = Sum(b)
  BY <1>4, <1>5 DEF Sum
<1>8. QED
  BY <1>3, <1>4, <1>6, <1>7

\* A crash loses what the batch counted, and nothing else.
LEMMA SumLost ==
    ASSUME AggsInv, Restart, NEW b
    PROVE  /\ Table(aggs)' /\ DOMAIN aggs'.batch = {} /\ aggs'.sent = aggs.sent
           /\ b \notin DOMAIN aggs.batch => Sum(b)' = Sum(b)
           /\ At(aggs'.batch, b) = Empty
<1>1. aggs' = [batch |-> Empty, sent |-> aggs.sent]
  BY DEF Restart, AggsInv, Table
<1>2. Table(aggs)' /\ aggs'.batch = Empty /\ aggs'.sent = aggs.sent
  BY <1>1 DEF Table
<1>3. DOMAIN Empty = {}
  BY DEF Empty
<1>4. b \notin DOMAIN aggs.batch => Sum(b)' = Sum(b)
  BY <1>2, <1>3 DEF Sum, At
<1>5. At(aggs'.batch, b) = Empty
  BY <1>2, <1>3 DEF At
<1>6. QED
  BY <1>2, <1>3, <1>4, <1>5

\* A measurement adds its bin to those that have one.
LEMMA BinsTaken ==
    ASSUME NEW t \in Times, NEW v \in Values, Takes(t, v), NEW b, b = Bin(t)
    PROVE  Bins' = Bins \cup {b}
<1>1. log' = log \cup {[ts |-> t, val |-> v]}
  BY DEF Takes
<1>2. Bins' = {Bin(e.ts) : e \in log'}
  BY DEF Bins, Bin
<1>3. PICK f : f = [ts |-> t, val |-> v]
  OBVIOUS
<1>4. f.ts = t /\ log' = log \cup {f}
  BY <1>1, <1>3
<1>5. QED
  BY <1>2, <1>4 DEF Bins

\* The counters count measurements.
LEMMA AggsNext == AggsInv /\ [Next]_vars => AggsInv'
<1> SUFFICES ASSUME AggsInv, [Next]_vars PROVE AggsInv'
  OBVIOUS
<1>1. CASE Measure
  <2>1. PICK t \in Times, v \in Values : Takes(t, v)
    BY <1>1, Takings
  <2>2. PICK b : b = Bin(t)
    OBVIOUS
  <2>3. PICK one : one = [val |-> v, count |-> 1]
    OBVIOUS
  <2>4. /\ Table(aggs)' /\ aggs'.sent = aggs.sent
        /\ DOMAIN aggs'.batch = DOMAIN aggs.batch \cup {b}
        /\ aggs'.batch[b] \in [val : Nat, count : Nat]
        /\ \A c \in DOMAIN aggs.batch : c # b => aggs'.batch[c] = aggs.batch[c]
    BY <2>1, <2>2, <2>3, SumTaken
  <2>5. Bins' = Bins \cup {b}
    BY <2>1, <2>2, BinsTaken
  <2>6. faults' = faults
    BY <2>1 DEF Takes, failures
  <2>7. QED
    BY <2>4, <2>5, <2>6 DEF AggsInv
<1>2. CASE SendAggs
  <2>1. Bins' = Bins /\ faults' = faults
    BY <1>2 DEF SendAggs, ghosts, failures, Bins, Bin
  <2>2. /\ Table(aggs)' /\ DOMAIN aggs'.batch = {}
        /\ DOMAIN aggs'.sent = DOMAIN aggs.batch \cup DOMAIN aggs.sent
        /\ \A b \in DOMAIN aggs'.sent : aggs'.sent[b] \in [val : Nat, count : Nat]
    BY <1>2, SumSent
  <2>3. QED
    BY <2>1, <2>2 DEF AggsInv
<1>3. CASE Restart
  <2>1. Bins' = Bins /\ faults' = faults
    BY <1>3 DEF Restart, failures, Bins, Bin
  <2>2. Table(aggs)' /\ DOMAIN aggs'.batch = {} /\ aggs'.sent = aggs.sent
    BY <1>3, SumLost
  <2>3. QED
    BY <2>1, <2>2 DEF AggsInv
<1>4. CASE SendRaw \/ SendStat \/ UNCHANGED vars
  <2>1. UNCHANGED <<aggs, log, faults>>
    BY <1>4 DEF SendRaw, SendStat, vars, tables, ghosts, failures
  <2>2. QED
    BY <2>1 DEF AggsInv, Bins, Bin
<1>5. CASE SendAggsFails
  <2>1. Bins' = Bins /\ faults' \in Nat
    BY <1>5 DEF SendAggsFails, ghosts, Bins, Bin, AggsInv
  <2>2. PICK S \in (SUBSET DOMAIN aggs.batch) \ {{}} : aggs' = [aggs EXCEPT !.sent = Counted(S)]
    BY <1>5 DEF SendAggsFails
  <2>3. /\ Table(aggs)' /\ aggs'.batch = aggs.batch
        /\ DOMAIN aggs'.sent = S \cup DOMAIN aggs.sent
        /\ \A b \in DOMAIN aggs'.sent : aggs'.sent[b] \in [val : Nat, count : Nat]
    BY <2>2, SumFailed
  <2>4. QED
    BY <2>1, <2>3 DEF AggsInv
<1>6. QED
  BY <1>1, <1>2, <1>3, <1>4, <1>5 DEF Next

-------------------------------------------------------------------------------
(* The rollup of a bin is that of its measurements. *)

\* Products are in order.
LEMMA TimesMonotone ==
    ASSUME NEW a \in Nat, NEW b \in Nat, NEW n \in Nat, a <= b
    PROVE  a * n <= b * n /\ a * n \in Nat /\ b * n \in Nat
<1>1. PICK d \in Nat : b = a + d
  <2>1. b - a \in Nat /\ b = a + (b - a)
    OBVIOUS
  <2>2. QED
    BY <2>1
<1>2. (a + d) * n = a * n + d * n /\ d * n \in Nat /\ a * n \in Nat
  OBVIOUS
<1>3. QED
  BY <1>1, <1>2

\* A value that is counted keeps the average between the extremes.
LEMMA AverageTaken ==
    ASSUME NEW c \in [val : Nat, count : Nat], NEW lo \in Nat, NEW hi \in Nat, NEW v \in Nat,
           Between(c, lo, hi)
    PROVE  /\ Lower(v, lo) * (c.count + 1) <= c.val + v
           /\ c.val + v <= Higher(v, hi) * (c.count + 1)
<1>1. PICK l \in Nat : l = Lower(v, lo)
  BY DEF Lower
<1>2. PICK h \in Nat : h = Higher(v, hi)
  BY DEF Higher
<1>3. l <= lo /\ l <= v /\ hi <= h /\ v <= h
  BY <1>1, <1>2 DEF Higher, Lower
<1>4. PICK n \in Nat, s \in Nat : n = c.count /\ s = c.val
  OBVIOUS
<1>5. lo * n <= s /\ s <= hi * n
  BY <1>4 DEF Between
<1>6. l * n <= lo * n /\ hi * n <= h * n /\ l * n \in Nat /\ h * n \in Nat
      /\ lo * n \in Nat /\ hi * n \in Nat
  BY <1>3, TimesMonotone
<1>7. l * (n + 1) = l * n + l /\ h * (n + 1) = h * n + h
  OBVIOUS
<1>8. l * (n + 1) <= s + v /\ s + v <= h * (n + 1)
  BY <1>3, <1>5, <1>6, <1>7
<1>9. QED
  BY <1>1, <1>2, <1>4, <1>8

\* A value that is added to counters, or counted in empty ones.
LEMMA BetweenTaken ==
    ASSUME NEW c \in Counters, NEW lo \in Nat, NEW hi \in Nat, NEW v \in Nat,
           c # Empty => Between(c, lo, hi),
           NEW d, d = Plus(c, [val |-> v, count |-> 1])
    PROVE  /\ d \in [val : Nat, count : Nat] /\ d # Empty
           /\ d.count = IF c = Empty THEN 1 ELSE c.count + 1
           /\ Between(d, Lower(v, lo), Higher(v, hi))
<1>1. PICK one : one = [val |-> v, count |-> 1]
  OBVIOUS
<1>2. /\ one \in [val : Nat, count : Nat] /\ one.val = v /\ one.count = 1
      /\ d = Plus(c, one)
  BY <1>1
<1>3. one \in Counters /\ one # Empty
  BY <1>2, CounterParts DEF Counters
<1>4. CASE c = Empty
  <2>1. d = one
    BY <1>2, <1>3, <1>4, PlusParts
  <2>2. Lower(v, lo) \in Nat /\ Higher(v, hi) \in Nat /\ Lower(v, lo) <= v /\ v <= Higher(v, hi)
    BY DEF Lower, Higher
  <2>3. QED
    BY <1>2, <1>3, <1>4, <2>1, <2>2 DEF Between
<1>5. CASE c # Empty
  <2>1. /\ c \in [val : Nat, count : Nat]
        /\ d = [val |-> c.val + one.val, count |-> c.count + one.count]
        /\ d \in [val : Nat, count : Nat]
    BY <1>2, <1>3, <1>5, PlusParts
  <2>2. d.val = c.val + v /\ d.count = c.count + 1 /\ d # Empty
    BY <1>2, <2>1, CounterParts
  <2>3. /\ Lower(v, lo) * (c.count + 1) <= c.val + v
        /\ c.val + v <= Higher(v, hi) * (c.count + 1)
    BY <1>5, <2>1, AverageTaken
  <2>4. QED
    BY <1>5, <2>1, <2>2, <2>3 DEF Between
<1>6. QED
  BY <1>4, <1>5

\* A value more waits.
LEMMA WaitingTaken ==
    ASSUME NEW c \in Counters, NEW lo \in Nat, NEW hi \in Nat, NEW v \in Nat, NEW n \in Nat,
           Waiting(c, n, lo, hi), NEW d, d = Plus(c, [val |-> v, count |-> 1])
    PROVE  Waiting(d, n + 1, Lower(v, lo), Higher(v, hi))
<1>1. c # Empty => Between(c, lo, hi)
  BY DEF Waiting
<1>2. /\ d.count = IF c = Empty THEN 1 ELSE c.count + 1
      /\ Between(d, Lower(v, lo), Higher(v, hi))
  BY <1>1, BetweenTaken
<1>3. c # Empty => c.count \in Nat /\ c.count <= n
  BY DEF Waiting, Counters
<1>4. d.count <= n + 1
  BY <1>2, <1>3
<1>5. QED
  BY <1>2, <1>4 DEF Waiting

\* What still waits is counted again: the average stays between the extremes.
LEMMA BetweenAgain ==
    ASSUME NEW c \in [val : Nat, count : Nat], NEW w \in [val : Nat, count : Nat],
           NEW lo \in Nat, NEW hi \in Nat, Between(c, lo, hi), Between(w, lo, hi),
           NEW d, d = Plus(c, w)
    PROVE  /\ d # Empty /\ d.count = c.count + w.count
           /\ Between(d, lo, hi)
<1>1. c \in Counters /\ w \in Counters /\ c # Empty /\ w # Empty
  BY CounterParts DEF Counters
<1>2. d = [val |-> c.val + w.val, count |-> c.count + w.count] /\ d \in [val : Nat, count : Nat]
  BY <1>1, PlusParts
<1>3. d # Empty /\ d.val = c.val + w.val /\ d.count = c.count + w.count
  BY <1>2, CounterParts
<1>4. PICK m \in Nat, n \in Nat, p \in Nat, q \in Nat :
        m = c.count /\ n = w.count /\ p = c.val /\ q = w.val
  OBVIOUS
<1>5. lo * m <= p /\ lo * n <= q /\ p <= hi * m /\ q <= hi * n
  BY <1>4 DEF Between
<1>6. /\ lo * m \in Nat /\ lo * n \in Nat /\ hi * m \in Nat /\ hi * n \in Nat
      /\ lo * (m + n) = lo * m + lo * n /\ hi * (m + n) = hi * m + hi * n
  OBVIOUS
<1>7. lo * (m + n) <= p + q /\ p + q <= hi * (m + n)
  BY <1>5, <1>6
<1>8. QED
  BY <1>3, <1>4, <1>7 DEF Between

\* A value more is counted once more.
LEMMA CountsTaken ==
    ASSUME faults \in Nat, NEW k \in Nat, NEW n \in Nat, NEW b, Counts(k, n, b),
           UNCHANGED <<faults, again>>
    PROVE  Counts(k + 1, n + 1, b)'
<1>1. PICK f \in Nat : f = faults
  OBVIOUS
<1>2. (1 + f) * (n + 1) = (1 + f) * n + (1 + f) /\ (1 + f) * n \in Nat
  OBVIOUS
<1>3. k <= (1 + f) * n
  BY <1>1 DEF Counts
<1>4. k + 1 <= (1 + f) * (n + 1)
  BY <1>2, <1>3
<1>5. QED
  BY <1>1, <1>4 DEF Counts

\* One send more that failed.
LEMMA CountsAgain ==
    ASSUME faults \in Nat, NEW k \in Nat, NEW n \in Nat, NEW b, Counts(k, n, b),
           NEW w \in Nat, w <= n, faults' = faults + 1, b \in again'
    PROVE  Counts(k + w, n, b)'
<1>1. PICK f \in Nat : f = faults
  OBVIOUS
<1>2. (1 + (f + 1)) * n = (1 + f) * n + n /\ (1 + f) * n \in Nat
  OBVIOUS
<1>3. n <= k /\ k <= (1 + f) * n
  BY <1>1 DEF Counts
<1>4. n <= k + w /\ k + w <= (1 + (f + 1)) * n
  BY <1>2, <1>3
<1>5. QED
  BY <1>1, <1>4 DEF Counts

\* The extremes of a set that gets another number.
LEMMA ExtremesTaken ==
    ASSUME NEW S, S \subseteq Nat, NEW lo, IsLeast(lo, S), NEW hi, IsMost(hi, S), NEW v \in Nat
    PROVE  /\ IsLeast(Lower(v, lo), S \cup {v})
           /\ IsMost(Higher(v, hi), S \cup {v})
BY DEF IsLeast, IsMost, Higher, Lower

\* A measurement in a bin keeps its rollup exact, unless another bin took its place.
LEMMA ExactTaken ==
    ASSUME LogInv, StatInv, CacheInv, AggsInv, NEW t \in Times, NEW v \in Values, Takes(t, v),
           NEW b, b = Bin(t), b \notin late', b \in Bins => Exact(b)
    PROVE  Exact(b)'
<1>1. PICK e : e = [ts |-> t, val |-> v]
  OBVIOUS
<1>2. PICK one : one = [val |-> v, count |-> 1]
  OBVIOUS
<1>3. PICK o : o = Stat(b)'
  OBVIOUS
<1>4. PICK s : s = Stat(b)
  OBVIOUS
<1>5. PICK I : I = InBin(b)
  OBVIOUS
<1>6. PICK V : V = {x.val : x \in I}
  OBVIOUS
<1>7. /\ e \notin log /\ e.val = v /\ v \in Nat /\ b \in Spots
      /\ InBin(b)' = I \cup {e}
  BY <1>1, <1>5, BinOfTaken
<1>8. o # Empty /\ (s = Empty \/ Alone(b) => Joined(o, s, v))
  BY <1>3, <1>4, StatTaken
<1>9. PICK c : c = Sum(b)
  OBVIOUS
<1>10. PICK w : w = At(aggs.batch, b)
  OBVIOUS
<1>11. /\ Sum(b)' = Plus(c, [val |-> v, count |-> 1])
       /\ At(aggs'.batch, b) = Plus(w, [val |-> v, count |-> 1])
       /\ c \in Counters /\ w \in Counters
  <2>1. /\ Sum(b)' = Plus(Sum(b), one)
        /\ At(aggs'.batch, b) = Plus(At(aggs.batch, b), one)
    BY <1>2, SumTaken
  <2>2. Sum(b) \in Counters /\ At(aggs.batch, b) \in Counters
    BY SumParts
  <2>3. QED
    BY <1>2, <1>9, <1>10, <2>1, <2>2
<1>12. IsFiniteSet(I) /\ e \notin I /\ V \subseteq Nat
  <2>1. I \subseteq log /\ IsFiniteSet(log) /\ \A x \in I : x.val \in Values
    BY <1>5 DEF LogInv, InBin
  <2>2. IsFiniteSet(I)
    BY <2>1, FS_Subset
  <2>3. V \subseteq Nat
    BY <1>6, <2>1, RollupAssumption
  <2>4. QED
    BY <1>7, <2>1, <2>2, <2>3
<1>13. {x.val : x \in I \cup {e}} = V \cup {v}
  BY <1>6, <1>7
<1>14. /\ IsFiniteSet(I \cup {e}) /\ Cardinality(I) \in Nat
       /\ Cardinality(I \cup {e}) = Cardinality(I) + 1
  BY <1>12, FS_AddElement, FS_CardinalityType
<1>15. PICK d : d = Sum(b)'
  OBVIOUS
<1>16. PICK x : x = At(aggs'.batch, b)
  OBVIOUS
<1>17. faults \in Nat /\ UNCHANGED <<faults, again>>
  BY DEF AggsInv, Takes, failures
<1>18. PICK n \in Nat : n = Cardinality(I)
  BY <1>14
<1>19. SUFFICES
         /\ d # Empty
         /\ IsLeast(o.min, V \cup {v}) /\ IsMost(o.max, V \cup {v})
         /\ Counts(d.count, n + 1, b)'
         /\ Between(d, o.min, o.max)
         /\ Waiting(x, n + 1, o.min, o.max)
  <2>1. Stat(b)' = o /\ Sum(b)' = d /\ At(aggs.batch, b)' = x
    BY <1>3, <1>15, <1>16
  <2>2. {y.val : y \in InBin(b)'} = V \cup {v} /\ Cardinality(InBin(b)') = n + 1
    BY <1>7, <1>13, <1>14, <1>18
  <2>3. QED
    BY <1>8, <1>19, <2>1, <2>2 DEF Exact, IsLeast, IsMost, Counts, Between, Waiting
<1>20. CASE b \notin Bins
  <2>1. I = {} /\ V = {}
    BY <1>5, <1>6, <1>20 DEF InBin, Bins
  <2>2. s = Empty
    BY <1>4, <1>5, <1>7, <2>1 DEF StatInv, Measured
  <2>3. c = Empty /\ w = Empty
    <3>1. b \notin DOMAIN aggs.batch
      BY <1>20 DEF AggsInv
    <3>2. QED
      BY <1>9, <1>10, <1>20, <3>1, SumParts DEF At
  <2>4. o.min = v /\ o.max = v
    BY <1>8, <2>2 DEF Joined
  <2>5. /\ d # Empty /\ d.count = 1 /\ Between(d, v, v)
        /\ x # Empty /\ x.count = 1 /\ Between(x, v, v)
    <3>1. Lower(v, v) = v /\ Higher(v, v) = v
      BY DEF Lower, Higher
    <3>2. QED
      BY <1>7, <1>11, <1>15, <1>16, <2>3, <3>1, BetweenTaken
  <2>6. n = 0
    BY <1>18, <2>1, FS_EmptySet
  <2>7. Counts(1, 1, b)'
    BY <1>17 DEF Counts
  <2>8. IsLeast(v, V \cup {v}) /\ IsMost(v, V \cup {v})
    BY <1>7, <2>1 DEF IsLeast, IsMost
  <2>9. Waiting(x, 1, v, v)
    BY <2>5 DEF Waiting
  <2>10. QED
    BY <2>4, <2>5, <2>6, <2>7, <2>8, <2>9
<1>21. CASE b \in Bins
  <2>1. /\ s # Empty /\ c # Empty
        /\ IsLeast(s.min, V) /\ IsMost(s.max, V)
        /\ Counts(c.count, n, b) /\ Between(c, s.min, s.max)
        /\ Waiting(w, n, s.min, s.max)
    BY <1>4, <1>5, <1>6, <1>9, <1>10, <1>18, <1>21 DEF Exact
  <2>2. Alone(b)
    BY <1>21 DEF Takes, Bins, Alone
  <2>3. o.max = Higher(v, s.max) /\ o.min = Lower(v, s.min)
    BY <1>8, <2>1, <2>2 DEF Joined
  <2>4. PICK lo \in Nat, hi \in Nat : lo = s.min /\ hi = s.max
    <3>1. s.min \in V /\ s.max \in V
      BY <2>1 DEF IsLeast, IsMost
    <3>2. QED
      BY <1>12, <3>1
  <2>5. d # Empty /\ d.count = c.count + 1 /\ Between(d, o.min, o.max)
    BY <1>7, <1>11, <1>15, <2>1, <2>3, <2>4, BetweenTaken
  <2>6. Waiting(x, n + 1, o.min, o.max)
    <3>1. Waiting(w, n, lo, hi) /\ w \in Counters /\ v \in Nat
      BY <1>7, <1>11, <2>1, <2>4
    <3>2. x = Plus(w, [val |-> v, count |-> 1])
      BY <1>11, <1>16
    <3>3. Waiting(x, n + 1, Lower(v, lo), Higher(v, hi))
      BY <3>1, <3>2, WaitingTaken
    <3>4. QED
      BY <2>3, <2>4, <3>3
  <2>7. IsLeast(o.min, V \cup {v}) /\ IsMost(o.max, V \cup {v})
    <3>1. IsLeast(Lower(v, lo), V \cup {v}) /\ IsMost(Higher(v, hi), V \cup {v})
      BY <1>7, <1>12, <2>1, <2>4, ExtremesTaken
    <3>2. QED
      BY <2>3, <2>4, <3>1
  <2>8. Counts(d.count, n + 1, b)'
    <3>1. PICK k \in Nat : k = c.count
      BY <1>11, <2>1 DEF Counters
    <3>2. Counts(k + 1, n + 1, b)'
      BY <1>17, <2>1, <3>1, CountsTaken
    <3>3. QED
      BY <2>5, <3>1, <3>2
  <2>9. QED
    BY <2>5, <2>6, <2>7, <2>8
<1>22. QED
  BY <1>20, <1>21

\* Whole bins that no process came back to are exact.
LEMMA ExactNext ==
    LogInv /\ StatInv /\ CacheInv /\ AggsInv /\ ExactInv /\ [Next]_vars => ExactInv'
<1> SUFFICES ASSUME LogInv, StatInv, CacheInv, AggsInv, ExactInv, [Next]_vars,
                    NEW c \in (Whole \ late)'
             PROVE  Exact(c)'
  BY DEF ExactInv
<1>1. ASSUME c \in Whole \ late, Stat(c)' = Stat(c), Sum(c)' = Sum(c), InBin(c)' = InBin(c),
             UNCHANGED <<faults, again>>,
             At(aggs'.batch, c) \in {At(aggs.batch, c), Empty}
      PROVE  Exact(c)'
  <2>1. Exact(c)
    BY <1>1 DEF ExactInv
  <2>2. QED
    BY <1>1, <2>1 DEF Exact, IsLeast, IsMost, Counts, Between, Waiting
<1>2. CASE Measure
  <2>1. PICK t \in Times, v \in Values : Takes(t, v)
    BY <1>2, Takings
  <2>2. PICK b : b = Bin(t)
    OBVIOUS
  <2>3. /\ Bins' = Bins \cup {b} /\ lost' = lost /\ late \subseteq late'
        /\ c \in Bins' /\ c \notin lost' /\ c \notin late'
    BY <2>1, <2>2, BinsTaken DEF Takes, Whole
  <2>4. CASE c = b
    <3>1. b \in Bins => Exact(b)
      BY <2>3, <2>4 DEF ExactInv, Whole
    <3>2. QED
      BY <2>1, <2>2, <2>3, <2>4, <3>1, ExactTaken
  <2>5. CASE c # b
    <3>1. PICK e : e = [ts |-> t, val |-> v]
      OBVIOUS
    <3>2. InBin(c)' = InBin(c)
      BY <2>1, <2>2, <2>5, <3>1, BinOfTaken
    <3>3. PICK o : o = Stat(b)'
      OBVIOUS
    <3>4. PICK s : s = Stat(b)
      OBVIOUS
    <3>5. Stat(c)' = Stat(c)
      BY <2>1, <2>2, <2>5, <3>3, <3>4, StatTaken
    <3>6. PICK one : one = [val |-> v, count |-> 1]
      OBVIOUS
    <3>7. Sum(c)' = Sum(c) /\ At(aggs'.batch, c) = At(aggs.batch, c)
      BY <2>1, <2>2, <2>5, <3>6, SumTaken
    <3>8. UNCHANGED <<faults, again>>
      BY <2>1 DEF Takes, failures
    <3>9. QED
      BY <1>1, <2>3, <2>5, <3>2, <3>5, <3>7, <3>8 DEF Whole
  <2>6. QED
    BY <2>4, <2>5
<1>3. ASSUME SendRaw \/ SendAggs \/ SendAggsFails \/ SendStat \/ Restart \/ UNCHANGED vars
      PROVE  /\ log' = log /\ late' = late /\ lost \subseteq lost' /\ InBin(c)' = InBin(c)
             /\ c \in Whole \ late /\ c \in Spots
  <2>1. log' = log /\ late' = late /\ lost \subseteq lost'
    BY <1>3 DEF SendRaw, SendAggs, SendAggsFails, SendStat, Restart, vars, ghosts
  <2>2. InBin(c)' = InBin(c) /\ Bins' = Bins
    BY <2>1 DEF InBin, Bins, Bin
  <2>3. c \in Whole \ late
    BY <2>1, <2>2 DEF Whole
  <2>4. c \in Spots
    BY <2>3 DEF Whole, Bins, LogInv, Spots
  <2>5. QED
    BY <2>1, <2>2, <2>3, <2>4
<1>4. CASE SendStat
  <2>1. Stat(c)' = Stat(c)
    BY <1>3, <1>4, StatSent
  <2>2. aggs' = aggs /\ UNCHANGED <<faults, again>>
    BY <1>4 DEF SendStat, failures
  <2>3. Sum(c)' = Sum(c) /\ At(aggs'.batch, c) = At(aggs.batch, c)
    BY <2>2 DEF Sum
  <2>4. QED
    BY <1>1, <1>3, <1>4, <2>1, <2>2, <2>3
<1>5. CASE SendAggs
  <2>1. Sum(c)' = Sum(c) /\ At(aggs'.batch, c) = Empty
    BY <1>5, SumSent
  <2>2. stat_agg' = stat_agg /\ UNCHANGED <<faults, again>>
    BY <1>5 DEF SendAggs, failures
  <2>3. Stat(c)' = Stat(c)
    BY <2>2 DEF Stat
  <2>4. QED
    BY <1>1, <1>3, <1>5, <2>1, <2>2, <2>3
<1>6. CASE Restart
  <2>1. c \notin DOMAIN aggs.batch /\ c \notin DOMAIN stat_agg.batch
    BY <1>6 DEF Restart, Whole
  <2>2. Stat(c)' = Stat(c)
    BY <1>3, <1>6, <2>1, StatLost
  <2>3. Sum(c)' = Sum(c) /\ At(aggs'.batch, c) = Empty
    BY <1>6, <2>1, SumLost
  <2>4. UNCHANGED <<faults, again>>
    BY <1>6 DEF Restart, failures
  <2>5. QED
    BY <1>1, <1>3, <1>6, <2>2, <2>3, <2>4
<1>7. CASE SendRaw \/ UNCHANGED vars
  <2>1. UNCHANGED <<aggs, stat_agg, faults, again>>
    BY <1>7 DEF SendRaw, vars, tables, failures
  <2>2. Stat(c)' = Stat(c) /\ Sum(c)' = Sum(c) /\ At(aggs'.batch, c) = At(aggs.batch, c)
    BY <2>1 DEF Stat, Sum
  <2>3. QED
    BY <1>1, <1>3, <1>7, <2>1, <2>2
<1>8. CASE SendAggsFails
  <2>1. PICK S \in (SUBSET DOMAIN aggs.batch) \ {{}} :
          aggs' = [aggs EXCEPT !.sent = Counted(S)] /\ again' = again \cup S
    BY <1>8 DEF SendAggsFails
  <2>2. faults' = faults + 1 /\ faults \in Nat /\ stat_agg' = stat_agg
    BY <1>8 DEF SendAggsFails, AggsInv
  <2>3. PICK s : s = Stat(c)
    OBVIOUS
  <2>4. PICK m : m = Sum(c)
    OBVIOUS
  <2>5. PICK w : w = At(aggs.batch, c)
    OBVIOUS
  <2>6. PICK I : I = InBin(c)
    OBVIOUS
  <2>7. PICK n : n = Cardinality(I)
    OBVIOUS
  <2>8. PICK d : d = Sum(c)'
    OBVIOUS
  <2>9. /\ Stat(c)' = s /\ InBin(c)' = I /\ At(aggs'.batch, c) = w
        /\ c \in S => d = Plus(m, w)
        /\ c \notin S => d = m
    <3>1. /\ aggs'.batch = aggs.batch
          /\ c \in S => Sum(c)' = Plus(Sum(c), At(aggs.batch, c))
          /\ c \notin S => Sum(c)' = Sum(c)
      BY <2>1, SumFailed
    <3>2. Stat(c)' = Stat(c)
      BY <2>2 DEF Stat
    <3>3. QED
      BY <1>3, <1>8, <2>3, <2>4, <2>5, <2>6, <2>8, <3>1, <3>2
  <2>10. /\ s # Empty /\ m # Empty
         /\ IsLeast(s.min, {e.val : e \in I}) /\ IsMost(s.max, {e.val : e \in I})
         /\ Counts(m.count, n, c) /\ Between(m, s.min, s.max)
         /\ Waiting(w, n, s.min, s.max)
    BY <1>3, <1>8, <2>3, <2>4, <2>5, <2>6, <2>7 DEF ExactInv, Exact
  <2>11. m \in [val : Nat, count : Nat] /\ w \in Counters
    BY <2>4, <2>5, <2>10, SumParts DEF Counters
  <2>12. I \subseteq log /\ IsFiniteSet(I) /\ n \in Nat
    <3>1. I \subseteq log
      BY <2>6 DEF InBin
    <3>2. IsFiniteSet(I)
      BY <3>1, FS_Subset DEF LogInv
    <3>3. QED
      BY <2>7, <3>1, <3>2, FS_CardinalityType
  <2>13. PICK lo \in Nat, hi \in Nat : lo = s.min /\ hi = s.max
    <3>1. \A e \in I : e.val \in Nat
      BY <2>12, RollupAssumption DEF LogInv
    <3>2. QED
      BY <2>10, <3>1 DEF IsLeast, IsMost
  <2>14. d # Empty /\ Counts(d.count, n, c)' /\ Between(d, lo, hi)
    <3>1. CASE c \in S
      <4>1. w # Empty /\ w \in [val : Nat, count : Nat]
        BY <2>5, <3>1, CounterParts DEF At, AggsInv
      <4>2. w.count <= n /\ Between(w, lo, hi) /\ Between(m, lo, hi)
        BY <2>10, <2>13, <4>1 DEF Waiting
      <4>3. d # Empty /\ d.count = m.count + w.count /\ Between(d, lo, hi)
        BY <2>9, <2>11, <3>1, <4>1, <4>2, BetweenAgain
      <4>4. PICK k \in Nat, j \in Nat : k = m.count /\ j = w.count
        BY <2>11, <4>1
      <4>5. Counts(k + j, n, c)'
        BY <2>1, <2>2, <2>10, <2>12, <3>1, <4>2, <4>4, CountsAgain
      <4>6. QED
        BY <4>3, <4>4, <4>5
    <3>2. CASE c \notin S
      <4>1. d = m /\ (c \in again <=> c \in again')
        BY <2>1, <2>9, <3>2
      <4>2. PICK k \in Nat : k = m.count
        BY <2>11
      <4>3. PICK f \in Nat : f = faults /\ f + 1 = faults'
        BY <2>2
      <4>4. n <= k /\ k <= (1 + f) * n /\ (c \notin again => k = n)
        BY <2>10, <4>2, <4>3 DEF Counts
      <4>5. (1 + (f + 1)) * n = (1 + f) * n + n /\ (1 + f) * n \in Nat
        BY <2>12
      <4>6. k <= (1 + (f + 1)) * n
        BY <2>12, <4>4, <4>5
      <4>7. Counts(k, n, c)'
        BY <4>1, <4>3, <4>4, <4>6 DEF Counts
      <4>8. QED
        BY <2>10, <2>13, <4>1, <4>2, <4>7
    <3>3. QED
      BY <3>1, <3>2
  <2>15. QED
    BY <2>7, <2>8, <2>9, <2>10, <2>13, <2>14 DEF Exact, IsLeast, IsMost, Counts, Between, Waiting
<1>9. QED
  BY <1>2, <1>4, <1>5, <1>6, <1>7, <1>8 DEF Next

-------------------------------------------------------------------------------
(* The theorems. *)

RollupInv ==
    LogInv /\ RawInv /\ LastInv /\ PreviousIsFound /\ StatInv /\ CacheInv /\ AggsInv /\ ExactInv

\* Before the first measurement there is nothing.
LEMMA RollupStart == Init => RollupInv
<1> SUFFICES ASSUME Init PROVE RollupInv
  OBVIOUS
<1>1. /\ log = {} /\ last = Never /\ before = Never /\ metadata_cache = None
      /\ aggregation_cache = Empty
  BY DEF Init
<1>2. /\ Table(raw_data) /\ raw_data.batch = Empty /\ raw_data.sent = Empty
      /\ Table(aggs) /\ aggs.batch = Empty /\ aggs.sent = Empty
      /\ Table(stat_agg) /\ stat_agg.batch = Empty /\ stat_agg.sent = Empty
  BY DEF Init, Table
<1>3. DOMAIN Empty = {}
  BY DEF Empty
<1>4. LogInv /\ RawInv /\ LastInv /\ PreviousIsFound
  BY <1>1, <1>2, <1>3, FS_EmptySet DEF LogInv, RawInv, LastInv, PreviousIsFound
<1>5. StatInv
  <2>1. ASSUME NEW b PROVE At(stat_agg.sent, b) = Empty /\ Stat(b) = Empty
    <3>1. At(stat_agg.sent, b) = Empty /\ At(stat_agg.batch, b) = Empty
      BY <1>2, <1>3 DEF At
    <3>2. QED
      BY <3>1, OverNothing DEF Stat
  <2>2. QED
    BY <1>2, <2>1 DEF StatInv, Measured
<1>6. CacheInv
  BY <1>1, <1>2, <1>3 DEF CacheInv
<1>7. AggsInv
  BY <1>2, <1>3 DEF AggsInv, Init
<1>8. ExactInv
  BY <1>1 DEF ExactInv, Whole, Bins
<1>9. QED
  BY <1>4, <1>5, <1>6, <1>7, <1>8 DEF RollupInv

\* The invariants together are inductive.
LEMMA RollupSafe == Spec => []RollupInv
<1>1. RollupInv /\ [Next]_vars => RollupInv'
  BY LogNext, RawNext, LastNext, PreviousNext, StatNext, CacheNext, AggsNext, ExactNext
  DEF RollupInv
<1>2. QED
  BY <1>1, RollupStart, PTL DEF Spec

\* After a restart get_metadata finds the value before the newest one in the raw data,
\* in whatever year its row is, unless its write was lost or it is too old: for every
\* number of measurements and crashes.
THEOREM PreviousFound == Spec => []PreviousIsFound
<1>1. RollupInv => PreviousIsFound
  BY DEF RollupInv
<1>2. QED
  BY <1>1, RollupSafe, PTL

\* The extremes that update_stat_aggregation keeps for a bin are those of values
\* measured in it, with their own times, whatever order they came in and whenever the
\* process was killed.
THEOREM ExtremesAreMeasured == Spec => []StatIsMeasured
<1>1. RollupInv => StatIsMeasured
  <2>1. SUFFICES ASSUME LogInv, StatInv, NEW b \in Bins, NEW s, s = Stat(b), s # Empty
                 PROVE  /\ DOMAIN s = {"min", "max", "min_ts", "max_ts"}
                        /\ [ts |-> s.min_ts, val |-> s.min] \in InBin(b)
                        /\ [ts |-> s.max_ts, val |-> s.max] \in InBin(b)
                        /\ s.min <= s.max
    BY DEF RollupInv, StatIsMeasured
  <2>2. b \in Spots
    BY <2>1 DEF Bins, LogInv, Spots
  <2>3. Measured(s, b)
    BY <2>1, <2>2 DEF StatInv
  <2>4. QED
    BY <2>1, <2>3 DEF Measured, StatFields
<1>2. QED
  BY <1>1, RollupSafe, PTL

\* The least element of a set, when there is one.
LEMMA TheMin ==
    ASSUME NEW S, S \subseteq Nat, NEW m \in S, \A x \in S : m <= x
    PROVE  Min(S) = m
<1>1. \E x \in S : \A y \in S : x <= y
  OBVIOUS
<1>2. Min(S) \in S /\ \A y \in S : Min(S) <= y
  BY <1>1 DEF Min
<1>3. Min(S) \in Nat /\ m \in Nat /\ Min(S) >= m /\ Min(S) <= m
  BY <1>2
<1>4. QED
  BY <1>3

\* The minimum and the maximum of a bin are exact, every value of it is counted, at most
\* once more for every send that failed and once if none did, and its average lies between
\* the two, when no write of it was lost and no process came back to it after another bin
\* of the year: through sends, failures and restarts, in whatever order, for every number
\* of measurements.
THEOREM RollupsAreExact == Spec => []BinIsExact
<1>1. RollupInv => BinIsExact
  <2>1. SUFFICES ASSUME LogInv, AggsInv, ExactInv, NEW b \in Whole \ late,
                        NEW n, n = Cardinality(InBin(b))
                 PROVE  /\ Stat(b) # Empty /\ Sum(b) # Empty
                        /\ Stat(b).min = Min({e.val : e \in InBin(b)})
                        /\ Stat(b).max = Max({e.val : e \in InBin(b)})
                        /\ Sum(b).count \in n..((1 + faults) * n)
                        /\ b \notin again => Sum(b).count = n
                        /\ Stat(b).min * Sum(b).count <= Sum(b).val
                        /\ Sum(b).val <= Stat(b).max * Sum(b).count
    BY DEF RollupInv, BinIsExact
  <2>2. PICK V : V = {e.val : e \in InBin(b)}
    OBVIOUS
  <2>3. V \subseteq Nat
    BY <2>1, <2>2, RollupAssumption DEF LogInv, InBin
  <2>4. PICK c : c = Sum(b)
    OBVIOUS
  <2>5. PICK s : s = Stat(b)
    OBVIOUS
  <2>6. /\ s # Empty /\ c # Empty
        /\ IsLeast(s.min, V) /\ IsMost(s.max, V)
        /\ Counts(c.count, n, b) /\ Between(c, s.min, s.max)
    BY <2>1, <2>2, <2>4, <2>5 DEF ExactInv, Exact
  <2>7. Min(V) = s.min
    BY <2>3, <2>6, TheMin DEF IsLeast
  <2>8. Max(V) = s.max
    <3>1. \A x \in V : x <= s.max
      BY <2>3, <2>6 DEF IsMost
    <3>2. QED
      BY <2>3, <2>6, <3>1, TheMax DEF IsMost
  <2>9. c.count \in n..((1 + faults) * n)
    <3>1. InBin(b) \subseteq log
      BY DEF InBin
    <3>2. IsFiniteSet(InBin(b))
      BY <2>1, <3>1, FS_Subset DEF LogInv
    <3>3. n \in Nat /\ faults \in Nat
      BY <2>1, <3>2, FS_CardinalityType DEF AggsInv
    <3>4. c.count \in Nat
      BY <2>1, <2>4, <2>6, SumParts DEF Counters
    <3>5. (1 + faults) * n \in Nat
      BY <3>3
    <3>6. QED
      BY <2>6, <3>3, <3>4, <3>5 DEF Counts
  <2>10. QED
    BY <2>2, <2>4, <2>5, <2>6, <2>7, <2>8, <2>9 DEF Between, Counts
<1>2. QED
  BY <1>1, RollupSafe, PTL
===============================================================================
