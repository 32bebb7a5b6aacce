--------------------------- MODULE TimeSeriesProofs ---------------------------
(* Proofs about the write path, for every set of requests, processes, series, *)
(* rows and payloads: type correctness, what is in the store and in the       *)
(* batches, step by step, and what is counted.                                *)
EXTENDS TimeSeries, WellFoundedInduction, TLAPS

TypeInv == TypeOK /\ StampsBounded

-------------------------------------------------------------------------------
(* Facts about the operators. *)

\* A bounded, nonempty set of client timestamps has a greatest one.
LEMMA MaxNat ==
    ASSUME NEW S, S \subseteq Nat, S # {}, NEW n \in Nat, \A x \in S : x <= n
    PROVE  \E x \in S : \A y \in S : y <= x
<1> DEFINE T == {n - x : x \in S}
           R == OpToRel(<, Nat)
<1>1. T \subseteq Nat /\ T # {}
  <2>1. \A x \in S : x \in Nat /\ x <= n /\ n - x \in Nat
    OBVIOUS
  <2>2. QED
    BY <2>1
<1>2. PICK t \in T : \A u \in T : ~ (<<u, t>> \in R)
  <2>1. IsWellFoundedOn(R, Nat)
    BY NatLessThanWellFounded
  <2> HIDE DEF T, R
  <2>2. QED
    BY <1>1, <2>1, WFMin
<1>3. ASSUME NEW u \in T PROVE t <= u
  <2>1. u \in Nat /\ t \in Nat /\ ~ (<<u, t>> \in R)
    BY <1>1, <1>2
  <2>2. R = {ss \in Nat \X Nat : ss[1] < ss[2]}
    BY Zenon DEF OpToRel
  <2> HIDE DEF T, R
  <2>3. u < t => <<u, t>> \in R
    BY <2>1, <2>2, SMT
  <2>4. QED
    BY <2>1, <2>3
<1>4. PICK x \in S : t = n - x
  OBVIOUS
<1>5. ASSUME NEW y \in S PROVE y <= x
  <2>1. n - y \in T /\ t <= n - y
    BY <1>3
  <2>2. y \in Nat /\ x \in Nat
    OBVIOUS
  <2>3. QED
    BY <1>4, <2>1, <2>2
<1>6. QED
  BY <1>5

\* A raw column that was written has a latest mutation.
LEMMA LatestInCell ==
    ASSUME TypeInv, NEW c, InCell(c) # {}
    PROVE  Latest(c) \in InCell(c)
<1> DEFINE S == {m.stamp : m \in InCell(c)}
<1>1. S \subseteq Nat /\ S # {} /\ clock \in Nat /\ \A x \in S : x <= clock
  BY DEF TypeInv, TypeOK, StampsBounded, InCell, MutationSet
<1>2. PICK x \in S : \A y \in S : y <= x
  <2> HIDE DEF S
  <2> QED BY <1>1, MaxNat
<1>3. PICK m \in InCell(c) : \A k \in InCell(c) : k.stamp <= m.stamp
  BY <1>2
<1>4. QED
  BY <1>3 DEF Latest

USE TimeSeriesAssumption

\* The item a request is at.
LEMMA CurItemType ==
    ASSUME TypeOK, NEW r \in Request, pc[r] \in {"check", "rows", "insert"}
    PROVE  /\ item[r] \in 1..MaxItems /\ item[r] \in 1..Len(payload[r])
           /\ payload[r] \in Seq(Item) /\ Len(payload[r]) <= MaxItems
           /\ CurItem(r) \in Item
           /\ CurRows(r) \in Seq(Row) /\ Len(CurRows(r)) \in 0..MaxRows
           /\ CurType(r) \in DOMAIN EVENT_TYPE_CF_MAP
<1>1. payload[r] \in Payloads /\ item[r] \in 1..(MaxItems + 1) /\ item[r] <= Len(payload[r])
  BY DEF TypeOK
<1>2. payload[r] \in Seq(Item) /\ Len(payload[r]) <= MaxItems /\ Len(payload[r]) \in Nat
  BY <1>1
<1>3. item[r] \in 1..MaxItems /\ item[r] \in 1..Len(payload[r])
  BY <1>1, <1>2
<1>4. CurItem(r) \in Item
  BY <1>2, <1>3 DEF CurItem
<1>5. CurItem(r).series \in Series
  BY <1>4 DEF Item
<1>6. Rows[CurItem(r).series] \in Seq(Row) /\ Len(Rows[CurItem(r).series]) <= MaxRows
  BY <1>5
<1>7. CurRows(r) \in Seq(Row) /\ Len(CurRows(r)) \in 0..MaxRows
  BY <1>6 DEF CurRows
<1>8. CurType(r) \in DOMAIN EVENT_TYPE_CF_MAP
  BY <1>5 DEF CurType
<1>9. QED
  BY <1>2, <1>3, <1>4, <1>7, <1>8

\* Every cell a row and a time name is a cell of the store.
LEMMA CellType ==
    ASSUME NEW s \in Series, NEW rw \in Row, NEW t \in Time
    PROVE  Cell(s, rw, t) \in CellSet
<1>1. t \in Nat /\ rw.window \in Nat /\ rw.window \in Window /\ rw.type \in SummaryType
  BY DEF Row
<1>2. BinTime(rw, t) \in Int
  BY <1>1 DEF BinTime
<1>3. QED
  BY <1>1, <1>2 DEF Cell, CellSet

\* The row a request is at.
LEMMA CurRowType ==
    ASSUME TypeOK, NEW r \in Request, pc[r] \in {"rows", "insert"},
           row[r] <= Len(CurRows(r))
    PROVE  /\ row[r] \in 1..MaxRows /\ row[r] \in 1..Len(CurRows(r))
           /\ CurRow(r) \in Row
           /\ CurCell(r) \in CellSet
           /\ OwnHist(r) \in Hist
<1>1. /\ item[r] \in 1..MaxItems /\ CurItem(r) \in Item
      /\ CurRows(r) \in Seq(Row) /\ Len(CurRows(r)) \in 0..MaxRows
  BY CurItemType
<1>2. row[r] \in 1..(MaxRows + 1)
  BY DEF TypeOK
<1>3. row[r] \in 1..MaxRows /\ row[r] \in 1..Len(CurRows(r))
  BY <1>1, <1>2
<1>4. CurRow(r) \in Row
  BY <1>1, <1>3 DEF CurRow
<1>5. CurItem(r).series \in Series /\ CurItem(r).ts \in Time
  BY <1>1 DEF Item
<1>6. CurCell(r) \in CellSet
  BY <1>4, <1>5, CellType DEF CurCell
<1>7. <<r, item[r]>> \in Write
  BY <1>1 DEF Write
<1>8. OwnHist(r) \in Hist
  BY <1>7 DEF OwnHist, Hist, EmptyHist
<1>9. QED
  BY <1>3, <1>4, <1>6, <1>8

\* What summarisation hands to the insert.
LEMMA SummaryTyped ==
    ASSUME TypeInv, NEW r \in Request, pc[r] = "rows", row[r] <= Len(CurRows(r))
    PROVE  /\ Denominator(r) \in {0, 1}
           /\ Histogram(r) \in Hist
           /\ Adds(r) => Union(r) \in Hist
<1>1. CurRow(r) \in Row /\ OwnHist(r) \in Hist
  BY CurRowType DEF TypeInv
<1>2. CurRow(r).window \in Window
  BY <1>1 DEF Row
<1>3. cache[r][CurRow(r).window] \subseteq Hist
  <2>1. cache \in [Request -> [Window -> SUBSET Hist]]
    BY DEF TypeInv, TypeOK
  <2>2. QED
    BY <1>2, <2>1
<1>4. StatisticsInput(r) \in Hist
  BY <1>1, <1>3 DEF StatisticsInput
<1>5. Adds(r) => Union(r) \in Hist
  <2>1. SUFFICES ASSUME Adds(r) PROVE Union(r) \in Hist
    OBVIOUS
  <2>2. Latest(CurCell(r)) \in stored
    BY <2>1, LatestInCell DEF Adds, InCell
  <2>3. Latest(CurCell(r)).hist \in Hist
    BY <2>2 DEF TypeInv, TypeOK, MutationSet
  <2>4. QED
    BY <1>1, <2>3 DEF Union, SumHist, Hist
<1>6. Histogram(r) \in Hist
  BY <1>1, <1>4, <1>5 DEF Histogram
<1>7. Denominator(r) \in {0, 1}
  BY DEF Denominator
<1>8. QED
  BY <1>5, <1>6, <1>7

\* The mutation a request is about to insert.
LEMMA MutationType ==
    ASSUME TypeOK, NEW r \in Request, pc[r] = "insert"
    PROVE  /\ Mutation(r) \in MutationSet
           /\ Mutation(r).stamp <= clock + 1
           /\ Mutation(r).stamp <= IF Mutation(r).cf = "raw" THEN clock + 1 ELSE clock
<1>1. row[r] <= Len(CurRows(r))
  BY DEF TypeOK
<1>2. /\ item[r] \in 1..MaxItems /\ row[r] \in 1..MaxRows /\ CurCell(r) \in CellSet
      /\ CurItem(r) \in Item /\ CurType(r) \in DOMAIN EVENT_TYPE_CF_MAP
  BY <1>1, CurItemType, CurRowType
<1>3. SummaryCF(CurItem(r).series, CurRow(r).type) \in CF
  BY <1>2 DEF SummaryCF, CurType, EVENT_TYPE_CF_MAP, CF
<1>4. <<r, item[r], row[r]>> \in Id
  BY <1>2 DEF Id
<1>5. got[r].den \in {0, 1} /\ got[r].hist \in Hist /\ clock \in Nat
  BY DEF TypeOK
<1>6. QED
  BY <1>2, <1>3, <1>4, <1>5 DEF Mutation, MutationSet

-------------------------------------------------------------------------------
(* Type correctness. *)

\* Sending a batch, whether it succeeds or fails, keeps the stores well typed.
LEMMA SendType ==
    ASSUME TypeInv, NEW p \in Process, NEW cf \in CF, NEW b \in SUBSET MutationSet,
           clock' \in Nat, clock <= clock', \A m \in b : m.stamp <= clock',
           SendOk(p, cf, b) \/ SendFails(p, cf, b)
    PROVE  /\ buffer' \in [Process -> [CF -> SUBSET MutationSet]]
           /\ stored' \subseteq MutationSet
           /\ times' \in [Id -> Nat]
           /\ faults' \in 0..MaxFaults
           /\ StampsBounded'
<1>1. (Apply(b) \/ UNCHANGED <<stored, times>>) /\ (stored' = stored \cup b \/ stored' = stored)
  BY DEF SendOk, SendFails, Apply
<1>2. stored' \subseteq MutationSet
  BY <1>1 DEF TypeInv, TypeOK
<1>3. times' \in [Id -> Nat]
  <2>1. times \in [Id -> Nat]
    BY DEF TypeInv, TypeOK
  <2>2. CASE UNCHANGED <<stored, times>>
    BY <2>1, <2>2
  <2>3. CASE Apply(b)
    <3> DEFINE inc(i) == IF \E m \in b : m.id = i THEN 1 ELSE 0
    <3>1. times' = [i \in Id |-> times[i] + inc(i)]
      BY <2>3 DEF Apply
    <3>2. \A i \in Id : inc(i) \in Nat
      OBVIOUS
    <3> HIDE DEF inc
    <3>3. \A i \in Id : times[i] + inc(i) \in Nat
      BY <2>1, <3>2
    <3>4. QED
      BY <3>1, <3>3
  <2>4. QED
    BY <1>1, <2>2, <2>3
<1>4. faults' \in 0..MaxFaults
  BY DEF SendOk, SendFails, TypeInv, TypeOK
<1>5. PICK d \in SUBSET b : buffer' = [buffer EXCEPT ![p][cf] = d]
  BY DEF SendOk, SendFails
<1>6. buffer' \in [Process -> [CF -> SUBSET MutationSet]]
  BY <1>5 DEF TypeInv, TypeOK
<1>7. \A m \in MutationSet : m.stamp \in Nat
  BY DEF MutationSet
<1>8. \A m \in stored' : m.stamp <= clock'
  BY <1>1, <1>7 DEF TypeInv, TypeOK, StampsBounded
<1>9. ASSUME NEW q \in Process, NEW c \in CF, NEW m \in buffer'[q][c]
      PROVE  m.stamp <= clock'
  <2>1. m \in buffer[q][c] \/ m \in b
    BY <1>5 DEF TypeInv, TypeOK
  <2>2. QED
    BY <2>1, <1>7 DEF TypeInv, TypeOK, StampsBounded
<1>10. QED
  BY <1>2, <1>3, <1>4, <1>6, <1>8, <1>9 DEF StampsBounded

\* What the steps that leave the stores alone preserve.
StoresTyped ==
    /\ buffer \in [Process -> [CF -> SUBSET MutationSet]]
    /\ stored \subseteq MutationSet
    /\ times \in [Id -> Nat]
    /\ faults \in 0..MaxFaults
    /\ clock \in Nat
    /\ touched \subseteq Series
    /\ StampsBounded

\* The control state of the requests.
ControlTyped ==
    /\ pc \in [Request -> {"idle", "check", "rows", "insert", "done"} \cup CF]
    /\ item \in [Request -> 1..(MaxItems + 1)]
    /\ row \in [Request -> 1..(MaxRows + 1)]
    /\ \A r \in Request : pc[r] \in {"check", "rows", "insert"} =>
            item[r] <= Len(payload[r])
    /\ \A r \in Request : pc[r] = "idle" => item[r] = 1
    /\ \A r \in Request : pc[r] = "insert" => row[r] <= Len(CurRows(r))
    /\ answer \in [Request -> {"none", "201", "400", "409", "500", "crashed"}]

DataTyped ==
    /\ proc \in [Request -> Process]
    /\ payload \in [Request -> Payloads]
    /\ got \in [Request -> [den : {0, 1}, hist : Hist]]
    /\ cache \in [Request -> [Window -> SUBSET Hist]]
    /\ before \in [Request -> SUBSET CellSet]

\* The invariant, split by the part of the state a step can disturb.
LEMMA TypeInvParts == TypeInv <=> StoresTyped /\ ControlTyped /\ DataTyped
BY DEF TypeInv, TypeOK, StoresTyped, ControlTyped, DataTyped

\* The same split, of the next state.
LEMMA TypeInvPartsNext == StoresTyped' /\ ControlTyped' /\ DataTyped' => TypeInv'
BY DEF TypeInv, TypeOK, StoresTyped, ControlTyped, DataTyped

\* A server that has just started is well typed.
LEMMA InitType == Init => TypeInv
<1> SUFFICES ASSUME Init PROVE TypeInv
  OBVIOUS
<1>1. StoresTyped
  BY DEF Init, StoresTyped, StampsBounded, CF
<1>2. ControlTyped
  BY DEF Init, ControlTyped
<1>3. DataTyped
  BY DEF Init, DataTyped, EmptyHist, Hist
<1>4. QED
  BY <1>1, <1>2, <1>3, TypeInvParts

\* No step but a send, an insert, a commit and a crash changes the stores.
LEMMA StoresUnchanged ==
    ASSUME StoresTyped, UNCHANGED storeVars
    PROVE  StoresTyped'
BY DEF StoresTyped, storeVars, StampsBounded

\* A request that is answered and goes no further.
LEMMA FinishControl ==
    ASSUME ControlTyped, NEW r \in Request, Finish(r, "400") \/ Finish(r, "409") \/ Finish(r, "500")
                \/ Finish(r, "201"),
           UNCHANGED <<payload, item>>, row' \in [Request -> 1..(MaxRows + 1)],
           \A q \in Request : q # r => row'[q] = row[q]
    PROVE  ControlTyped'
BY DEF ControlTyped, Finish, CurRows, CurItem, CF

\* insert() keeps the types: its mutation is typed and the send is.
LEMMA InsertType ==
    ASSUME TypeInv, NEW r \in Request, Insert(r)
    PROVE  TypeInv'
<1> USE DEF TypeInv
<1>1. /\ StoresTyped /\ ControlTyped /\ DataTyped
  BY TypeInvParts
<1>2. pc[r] = "insert" /\ row[r] <= Len(CurRows(r)) /\ Len(CurRows(r)) \in 0..MaxRows
  BY CurItemType DEF Insert, TypeOK
<1>3. row' = [row EXCEPT ![r] = @ + 1] /\ row' \in [Request -> 1..(MaxRows + 1)]
  BY <1>2 DEF Insert, TypeOK
<1>4. clock \in Nat /\ clock' \in Nat /\ clock <= clock'
  BY DEF Insert, TypeOK
<1>5. /\ Mutation(r) \in MutationSet /\ Mutation(r).cf \in CF
      /\ Mutation(r).stamp <= clock'
  BY <1>2, MutationType DEF Insert, MutationSet
<1>6. proc[r] \in Process
  BY DEF TypeOK
<1>7. Batch(r) \in SUBSET MutationSet /\ \A m \in Batch(r) : m.stamp <= clock'
  <2>1. \A m \in MutationSet : m.stamp \in Nat
    BY DEF MutationSet
  <2>2. QED
    BY <1>4, <1>5, <1>6, <2>1 DEF Batch, TypeOK, StampsBounded
<1>8. StoresTyped'
  <2>1. CASE buffer' = [buffer EXCEPT ![proc[r]][Mutation(r).cf] = Batch(r)]
             /\ UNCHANGED <<stored, times, faults>>
    <3>1. buffer' \in [Process -> [CF -> SUBSET MutationSet]]
      BY <1>7, <2>1 DEF TypeOK
    <3>2. \A m \in MutationSet : m.stamp \in Nat
      BY DEF MutationSet
    <3>3. ASSUME NEW q \in Process, NEW c \in CF, NEW m \in buffer'[q][c]
          PROVE  m.stamp <= clock'
      <4>1. m \in buffer[q][c] \/ m \in Batch(r)
        BY <2>1, <1>6 DEF TypeOK
      <4>2. QED
        BY <4>1, <3>2, <1>4, <1>7 DEF TypeOK, StampsBounded
    <3>4. \A m \in stored' : m.stamp <= clock'
      BY <2>1, <3>2, <1>4 DEF TypeOK, StampsBounded
    <3>5. QED
      BY <2>1, <3>1, <3>3, <3>4, <1>4 DEF StoresTyped, StampsBounded, TypeOK, Insert
  <2>2. CASE SendOk(proc[r], Mutation(r).cf, Batch(r)) \/ SendFails(proc[r], Mutation(r).cf, Batch(r))
    BY <2>2, <1>4, <1>5, <1>6, <1>7, SendType DEF StoresTyped, TypeOK, Insert
  <2>3. QED
    BY <2>1, <2>2 DEF Insert
<1>9. ControlTyped'
  <2>1. UNCHANGED <<payload, item>>
    BY DEF Insert
  <2>2. CASE NextRow(r)
    BY <1>1, <1>2, <1>3, <2>1, <2>2 DEF NextRow, ControlTyped, CurRows, CurItem
  <2>3. CASE Finish(r, "500")
    BY <1>1, <1>3, <2>1, <2>3, FinishControl DEF TypeOK
  <2>4. QED
    BY <2>2, <2>3 DEF Insert
<1>10. DataTyped'
  BY <1>1 DEF Insert, DataTyped
<1>11. QED
  BY <1>8, <1>9, <1>10, TypeInvPartsNext

\* A step of flush() keeps the types.
LEMMA FlushType ==
    ASSUME TypeInv, NEW r \in Request, Flush(r)
    PROVE  TypeInv'
<1> USE DEF TypeInv
<1> DEFINE b == buffer[proc[r]][pc[r]]
<1>1. /\ StoresTyped /\ ControlTyped /\ DataTyped
  BY TypeInvParts
<1>2. /\ pc[r] \in CF /\ proc[r] \in Process /\ b \in SUBSET MutationSet
      /\ clock' = clock /\ clock \in Nat
  BY DEF Flush, TypeOK
<1>3. \A m \in b : m.stamp <= clock'
  BY <1>2 DEF StampsBounded
<1>4. SendOk(proc[r], pc[r], b) \/ SendFails(proc[r], pc[r], b)
  BY DEF Flush
<1>5. StoresTyped'
  <2> HIDE DEF b
  <2>1. clock <= clock'
    BY <1>2
  <2>2. /\ buffer' \in [Process -> [CF -> SUBSET MutationSet]]
        /\ stored' \subseteq MutationSet
        /\ times' \in [Id -> Nat]
        /\ faults' \in 0..MaxFaults
        /\ StampsBounded'
    BY <1>2, <1>3, <1>4, <2>1, SendType
  <2>3. QED
    BY <1>2, <2>2 DEF StoresTyped, TypeOK, Flush
<1>6. ControlTyped'
  <2>1. UNCHANGED <<payload, item, row>> /\ row' \in [Request -> 1..(MaxRows + 1)]
    BY DEF Flush, TypeOK
  <2>2. CASE Finish(r, "201") \/ Finish(r, "500")
    BY <1>1, <2>1, <2>2, FinishControl
  <2>3. CASE /\ pc' = [pc EXCEPT ![r] = "rate"] \/ pc' = [pc EXCEPT ![r] = "agg"]
             /\ UNCHANGED answer
    BY <1>1, <2>1, <2>3 DEF ControlTyped, CurRows, CurItem, CF
  <2>4. QED
    BY <2>2, <2>3 DEF Flush, CF
<1>7. DataTyped'
  BY <1>1 DEF Flush, DataTyped
<1>8. QED
  BY <1>5, <1>6, <1>7, TypeInvPartsNext

\* Every step of a request keeps the types.
LEMMA StepType ==
    ASSUME TypeInv, NEW r \in Request, Step(r)
    PROVE  TypeInv'
<1>1. /\ StoresTyped /\ ControlTyped /\ DataTyped
  BY TypeInvParts
<1>2. CASE Begin(r)
  <2>1. StoresTyped'
    BY <1>1, <1>2, StoresUnchanged DEF Begin
  <2>2. ControlTyped'
    <3>1. payload[r] \in Seq(Item) /\ item[r] = 1
      BY <1>1, <1>2 DEF Begin, ControlTyped, DataTyped
    <3>2. payload[r] # <<>> => item[r] <= Len(payload[r])
      BY <3>1
    <3>3. QED
      BY <1>1, <1>2, <3>2 DEF Begin, ControlTyped, CurRows, CurItem, CF
  <2>3. DataTyped'
    <3>1. {c \in {m.cell : m \in stored} : c.summary = "base"} \subseteq CellSet
      BY <1>1 DEF StoresTyped, MutationSet
    <3>2. QED
      BY <1>1, <1>2, <3>1 DEF Begin, DataTyped
  <2>4. QED
    BY <2>1, <2>2, <2>3, TypeInvPartsNext
<1>3. CASE Malformed(r) \/ Conflict(r) \/ Invalid(r) \/ NoSamples(r)
  <2>1. StoresTyped'
    BY <1>1, <1>3, StoresUnchanged DEF Malformed, Conflict, Invalid, NoSamples
  <2>2. ControlTyped'
    <3>1. /\ UNCHANGED <<payload, item, row>> /\ row' \in [Request -> 1..(MaxRows + 1)]
          /\ Finish(r, "400") \/ Finish(r, "409") \/ Finish(r, "500")
      BY <1>1, <1>3 DEF Malformed, Conflict, Invalid, NoSamples, ControlTyped
    <3>2. QED
      BY <1>1, <3>1, FinishControl
  <2>3. DataTyped'
    BY <1>1, <1>3 DEF Malformed, Conflict, Invalid, NoSamples, DataTyped
  <2>4. QED
    BY <2>1, <2>2, <2>3, TypeInvPartsNext
<1>4. CASE Accept(r)
  <2>1. StoresTyped'
    BY <1>1, <1>4, StoresUnchanged DEF Accept
  <2>2. ControlTyped'
    BY <1>1, <1>4 DEF Accept, ControlTyped, CurRows, CurItem
  <2>3. DataTyped'
    BY <1>1, <1>4 DEF Accept, DataTyped
  <2>4. QED
    BY <2>1, <2>2, <2>3, TypeInvPartsNext
<1>5. CASE Skip(r)
  <2>1. StoresTyped'
    BY <1>1, <1>5, StoresUnchanged DEF Skip
  <2>2. ControlTyped'
    <3>1. row[r] <= Len(CurRows(r)) /\ Len(CurRows(r)) \in 0..MaxRows /\ pc[r] = "rows"
      BY <1>5, CurItemType DEF Skip, TypeInv
    <3>2. QED
      <4>1. row' = [row EXCEPT ![r] = @ + 1] /\ row' \in [Request -> 1..(MaxRows + 1)]
        BY <1>1, <1>5, <3>1 DEF Skip, ControlTyped
      <4>2. UNCHANGED <<pc, item, payload, answer>>
        BY <1>5 DEF Skip
      <4>3. ASSUME NEW q \in Request, pc'[q] = "insert"
            PROVE  row'[q] <= Len(CurRows(q)')
        BY <1>1, <3>1, <4>1, <4>2, <4>3 DEF ControlTyped, CurRows, CurItem
      <4>4. QED
        BY <1>1, <4>1, <4>2, <4>3 DEF ControlTyped
  <2>3. DataTyped'
    BY <1>1, <1>5 DEF Skip, DataTyped
  <2>4. QED
    BY <2>1, <2>2, <2>3, TypeInvPartsNext
<1>6. CASE Summarise(r)
  <2>1. pc[r] = "rows" /\ row[r] <= Len(CurRows(r))
    BY <1>6 DEF Summarise, Writing
  <2>2. StoresTyped'
    BY <1>1, <1>6, StoresUnchanged DEF Summarise
  <2>3. ControlTyped'
    BY <1>1, <1>6, <2>1 DEF Summarise, ControlTyped, CurRows, CurItem
  <2>4. DataTyped'
    <3>1. /\ Denominator(r) \in {0, 1} /\ Histogram(r) \in Hist
          /\ Adds(r) => Union(r) \in Hist
      BY <2>1, SummaryTyped
    <3>2. CurRow(r).window \in Window
      BY <2>1, CurRowType DEF TypeInv, Row
    <3>3. got' \in [Request -> [den : {0, 1}, hist : Hist]]
      BY <1>1, <1>6, <3>1 DEF Summarise, DataTyped
    <3>4. cache' \in [Request -> [Window -> SUBSET Hist]]
      BY <1>1, <1>6, <3>1, <3>2 DEF Summarise, DataTyped
    <3>5. QED
      BY <1>1, <1>6, <3>3, <3>4 DEF Summarise, DataTyped
  <2>5. QED
    BY <2>2, <2>3, <2>4, TypeInvPartsNext
<1>7. CASE Commit(r)
  <2>1. /\ item[r] \in 1..MaxItems /\ Len(payload[r]) \in Nat /\ Len(payload[r]) <= MaxItems
        /\ CurItem(r).series \in Series
    BY <1>7, CurItemType DEF Commit, TypeInv, Item
  <2>2. StoresTyped'
    BY <1>1, <1>7, <2>1 DEF Commit, StoresTyped, StampsBounded
  <2>3. ControlTyped'
    <3>1. UNCHANGED <<payload, row, answer>>
      BY <1>7 DEF Commit
    <3>2. /\ item' \in [Request -> 1..(MaxItems + 1)]
          /\ pc' \in [Request -> {"idle", "check", "rows", "insert", "done"} \cup CF]
          /\ \A q \in Request : q # r => item'[q] = item[q] /\ pc'[q] = pc[q]
          /\ pc'[r] = "raw" \/ (pc'[r] = "check" /\ item'[r] <= Len(payload[r]))
      <4>1. CASE item[r] < Len(payload[r])
        <5>1. item' = [item EXCEPT ![r] = @ + 1] /\ pc' = [pc EXCEPT ![r] = "check"]
          BY <1>7, <4>1 DEF Commit
        <5>2. item[r] + 1 \in 1..(MaxItems + 1) /\ item[r] + 1 <= Len(payload[r])
          BY <2>1, <4>1
        <5>3. QED
          BY <1>1, <5>1, <5>2 DEF ControlTyped
      <4>2. CASE ~ (item[r] < Len(payload[r]))
        BY <1>1, <1>7, <4>2 DEF Commit, ControlTyped, CF
      <4>3. QED
        BY <4>1, <4>2
    <3>3. ASSUME NEW q \in Request, pc'[q] = "insert"
          PROVE  row'[q] <= Len(CurRows(q)')
      BY <1>1, <3>1, <3>2, <3>3 DEF ControlTyped, CurRows, CurItem
    <3>4. QED
      BY <1>1, <3>1, <3>2, <3>3 DEF ControlTyped
  <2>4. DataTyped'
    BY <1>1, <1>7 DEF Commit, DataTyped
  <2>5. QED
    BY <2>2, <2>3, <2>4, TypeInvPartsNext
<1>8. QED
  BY <1>2, <1>3, <1>4, <1>5, <1>6, <1>7, InsertType, FlushType DEF Step

\* The death of a process keeps the types.
LEMMA CrashType ==
    ASSUME TypeInv, NEW p \in Process, Crash(p)
    PROVE  TypeInv'
<1>1. /\ StoresTyped /\ ControlTyped /\ DataTyped
  BY TypeInvParts
<1>2. StoresTyped'
  <2>1. buffer' \in [Process -> [CF -> SUBSET MutationSet]]
    BY <1>1 DEF Crash, StoresTyped
  <2>2. \A q \in Process, cf \in CF : buffer'[q][cf] \subseteq buffer[q][cf]
    BY <1>1 DEF Crash, StoresTyped
  <2>3. QED
    BY <1>1, <2>1, <2>2 DEF Crash, StoresTyped, StampsBounded
<1>3. ControlTyped'
  BY <1>1 DEF Crash, ControlTyped, CurRows, CurItem
<1>4. DataTyped'
  BY <1>1 DEF Crash, DataTyped
<1>5. QED
  BY <1>2, <1>3, <1>4, TypeInvPartsNext

\* The type invariant is inductive.
LEMMA NextType == TypeInv /\ [Next]_vars => TypeInv'
<1> SUFFICES ASSUME TypeInv, [Next]_vars PROVE TypeInv'
  OBVIOUS
<1>1. CASE UNCHANGED vars
  <2>1. /\ StoresTyped /\ ControlTyped /\ DataTyped
    BY TypeInvParts
  <2>2. StoresTyped'
    BY <1>1, <2>1, StoresUnchanged DEF vars
  <2>3. ControlTyped' /\ DataTyped'
    BY <1>1, <2>1 DEF vars, requestVars, ControlTyped, DataTyped, CurRows, CurItem
  <2>4. QED
    BY <2>2, <2>3, TypeInvPartsNext
<1>2. QED
  BY <1>1, StepType, CrashType DEF Next, AllDone

\* Every variable keeps its type and every loop counter stays within its loop,
\* for every set of requests, processes, series, event-type rows and payloads.
THEOREM TypeCorrect == Spec => []TypeOK
<1>1. Spec => []TypeInv
  BY InitType, NextType, PTL DEF Spec
<1>2. TypeInv => TypeOK
  BY DEF TypeInv
<1>3. QED
  BY <1>1, <1>2, PTL

-------------------------------------------------------------------------------
(* How a step changes the stores. *)

\* Nothing leaves Cassandra, and a step puts into a batch or into Cassandra only
\* what was in a batch before, or the mutation it inserts.
LEMMA WrittenStep ==
    ASSUME TypeInv, NEW r \in Request, Step(r)
    PROVE  /\ stored \subseteq stored'
           /\ \/ Written' \subseteq Written
              \/ Insert(r) /\ Written' \subseteq Written \cup {Mutation(r)}
<1>1. ASSUME NEW p \in Process, NEW cf \in CF, NEW b, b \subseteq Written \cup {Mutation(r)},
             SendOk(p, cf, b) \/ SendFails(p, cf, b)
      PROVE  stored \subseteq stored' /\ Written' \subseteq Written \cup b
  <2>1. stored \subseteq stored' /\ stored' \subseteq stored \cup b
    BY <1>1 DEF SendOk, SendFails, Apply
  <2>2. PICK d \in SUBSET b : buffer' = [buffer EXCEPT ![p][cf] = d]
    BY <1>1 DEF SendOk, SendFails
  <2>3. \A q \in Process, c \in CF : buffer'[q][c] \subseteq buffer[q][c] \cup b
    BY <2>2 DEF TypeInv, TypeOK
  <2>4. QED
    BY <2>1, <2>3 DEF Written
<1>2. CASE Insert(r)
  <2>1. proc[r] \in Process /\ Mutation(r).cf \in CF
    BY <1>2, MutationType DEF TypeInv, TypeOK, Insert, MutationSet
  <2>2. Batch(r) \subseteq Written \cup {Mutation(r)}
    BY <2>1 DEF Batch, Written
  <2>3. CASE buffer' = [buffer EXCEPT ![proc[r]][Mutation(r).cf] = Batch(r)]
             /\ UNCHANGED <<stored, times, faults>>
    <3>1. \A q \in Process, c \in CF : buffer'[q][c] \subseteq buffer[q][c] \cup Batch(r)
      BY <2>1, <2>3 DEF TypeInv, TypeOK
    <3>2. QED
      BY <1>2, <2>2, <2>3, <3>1 DEF Written
  <2>4. CASE \/ SendOk(proc[r], Mutation(r).cf, Batch(r))
             \/ SendFails(proc[r], Mutation(r).cf, Batch(r))
    BY <1>1, <1>2, <2>1, <2>2, <2>4
  <2>5. QED
    BY <1>2, <2>3, <2>4 DEF Insert
<1>3. CASE Flush(r)
  <2> DEFINE b == buffer[proc[r]][pc[r]]
  <2>1. proc[r] \in Process /\ pc[r] \in CF
    BY <1>3 DEF TypeInv, TypeOK, Flush
  <2>2. b \subseteq Written
    BY <2>1 DEF Written
  <2>3. SendOk(proc[r], pc[r], b) \/ SendFails(proc[r], pc[r], b)
    BY <1>3 DEF Flush
  <2> HIDE DEF b
  <2>4. stored \subseteq stored' /\ Written' \subseteq Written \cup b
    BY <1>1, <2>1, <2>2, <2>3
  <2>5. QED
    BY <2>2, <2>4
<1>4. CASE UNCHANGED <<stored, buffer>>
  BY <1>4 DEF Written
<1>5. QED
  BY <1>2, <1>3, <1>4 DEF Step, Begin, Malformed, Conflict, Accept, Skip, Invalid,
     Summarise, NoSamples, Commit, storeVars

\* A crash writes nothing.
LEMMA WrittenCrash ==
    ASSUME TypeInv, NEW p \in Process, Crash(p)
    PROVE  stored' = stored /\ Written' \subseteq Written
<1>1. \A q \in Process, c \in CF : buffer'[q][c] \subseteq buffer[q][c]
  BY DEF Crash, TypeInv, TypeOK
<1>2. QED
  BY <1>1 DEF Crash, Written

\* A step of one request leaves the local state of the others alone.
LEMMA OthersUnchanged ==
    ASSUME TypeInv, NEW r \in Request, Step(r), NEW q \in Request, q # r
    PROVE  /\ pc'[q] = pc[q] /\ item'[q] = item[q] /\ row'[q] = row[q]
           /\ got'[q] = got[q] /\ answer'[q] = answer[q] /\ before'[q] = before[q]
<1> USE DEF TypeInv, TypeOK
<1>1. CASE Begin(r) \/ Malformed(r) \/ Conflict(r) \/ Accept(r) \/ Skip(r) \/ Invalid(r)
  BY <1>1 DEF Begin, Malformed, Conflict, Accept, Skip, Invalid, Finish
<1>2. CASE Summarise(r) \/ NoSamples(r) \/ Commit(r)
  BY <1>2 DEF Summarise, NoSamples, Commit, Finish
<1>3. CASE Insert(r)
  BY <1>3 DEF Insert, NextRow, Finish
<1>4. CASE Flush(r)
  BY <1>4 DEF Flush, Finish, CF
<1>5. QED
  BY <1>1, <1>2, <1>3, <1>4 DEF Step

\* The client's request and the process that serves it never change.
LEMMA PayloadUnchanged ==
    ASSUME NEW r \in Request, Step(r)
    PROVE  payload' = payload /\ proc' = proc
BY DEF Step, Begin, Malformed, Conflict, Accept, Skip, Invalid, Summarise, NoSamples,
   Insert, Commit, Flush

-------------------------------------------------------------------------------
(* A bin of rate_aggregations can be read. *)

Counted(c) == \E n \in stored : n.cell = c /\ n.den > 0

\* A mutation that does not count for its bin, in Cassandra, in a batch or about
\* to be inserted, comes after one in Cassandra that does.
ReadableInv ==
    /\ \A m \in Written : m.den = 0 => Counted(m.cell)
    /\ \A r \in Request :
            pc[r] = "insert" /\ got[r].den = 0 => Counted(CurCell(r))

\* Reading a bin needs only that the counted mutation went first.
LEMMA ReadableStored ==
    ASSUME TypeInv, ReadableInv, NEW m \in stored
    PROVE  Counted(m.cell)
<1>1. m \in Written /\ m.den \in {0, 1}
  BY DEF Written, TypeInv, TypeOK, MutationSet
<1>2. QED
  BY <1>1 DEF ReadableInv, Counted

\* A step of a request keeps every bin of rate_aggregations countable.
LEMMA ReadableStep ==
    ASSUME TypeInv, ReadableInv, NEW r \in Request, Step(r)
    PROVE  ReadableInv'
<1>1. \A c : Counted(c) => Counted(c)'
  BY WrittenStep DEF Counted
<1>2. ASSUME NEW m \in Written', m.den = 0
      PROVE  Counted(m.cell)'
  <2>1. CASE m \in Written
    BY <1>1, <1>2, <2>1 DEF ReadableInv
  <2>2. CASE Insert(r) /\ m = Mutation(r)
    <3>1. m.den = got[r].den /\ m.cell = CurCell(r) /\ pc[r] = "insert"
      BY <2>2 DEF Mutation, Insert
    <3>2. QED
      BY <1>1, <1>2, <3>1 DEF ReadableInv
  <2>3. QED
    BY <1>2, <2>1, <2>2, WrittenStep
<1>3. ASSUME NEW q \in Request, pc'[q] = "insert", got'[q].den = 0
      PROVE  Counted(CurCell(q))'
  <2>1. CASE q # r
    <3>1. CurCell(q)' = CurCell(q) /\ pc[q] = "insert" /\ got[q].den = 0
      BY <1>3, <2>1, OthersUnchanged, PayloadUnchanged DEF CurCell, CurItem, CurRow, CurRows
    <3>2. QED
      BY <1>1, <3>1 DEF ReadableInv
  <2>2. CASE q = r
    <3>1. Summarise(r)
      BY <1>3, <2>2 DEF Step, Begin, Malformed, Conflict, Accept, Skip, Invalid, NoSamples,
         Insert, NextRow, Commit, Flush, Finish, TypeInv, TypeOK, CF
    <3>2. got'[r] = [den |-> Denominator(r), hist |-> Histogram(r)]
      BY <3>1 DEF Summarise, TypeInv, TypeOK
    <3>3. InCell(CurCell(r)) # {}
      BY <1>3, <2>2, <3>2 DEF Denominator
    <3>4. Counted(CurCell(r))
      BY <3>3, ReadableStored DEF InCell
    <3>5. CurCell(r)' = CurCell(r)
      BY <3>1 DEF Summarise, CurCell, CurItem, CurRow, CurRows
    <3>6. QED
      BY <1>1, <2>2, <3>4, <3>5
  <2>3. QED
    BY <2>1, <2>2
<1>4. QED
  BY <1>2, <1>3 DEF ReadableInv

\* The invariant behind AggregationReadable is inductive.
LEMMA ReadableNext == TypeInv /\ ReadableInv /\ [Next]_vars => ReadableInv'
<1> SUFFICES ASSUME TypeInv, ReadableInv, [Next]_vars PROVE ReadableInv'
  OBVIOUS
<1>1. ASSUME NEW p \in Process, Crash(p) PROVE ReadableInv'
  <2>1. \A c : Counted(c) => Counted(c)'
    BY <1>1, WrittenCrash DEF Counted
  <2>2. \A m \in Written' : m \in Written
    BY <1>1, WrittenCrash
  <2>3. ASSUME NEW q \in Request, pc'[q] = "insert"
        PROVE  pc[q] = "insert" /\ got' = got /\ CurCell(q)' = CurCell(q)
    BY <1>1, <2>3 DEF Crash, CurCell, CurItem, CurRow, CurRows
  <2>4. QED
    BY <2>1, <2>2, <2>3 DEF ReadableInv
<1>2. CASE UNCHANGED vars
  BY <1>2 DEF vars, requestVars, storeVars, ReadableInv, Written, Counted, CurCell,
     CurItem, CurRow, CurRows
<1>3. QED
  BY <1>1, <1>2, ReadableStep DEF Next, AllDone

\* Reading any stored bin of rate_aggregations divides by a count of at least
\* one, whatever the interleaving of the reads of FloatValidator.aggregation
\* with the sends, crashes and failures of all processes.
THEOREM AlwaysReadable == Spec => []AggregationReadable
<1>1. Init => ReadableInv
  BY DEF Init, ReadableInv, Written
<1>2. Spec => [](TypeInv /\ ReadableInv)
  BY <1>1, InitType, NextType, ReadableNext, PTL DEF Spec
<1>3. TypeInv /\ ReadableInv => AggregationReadable
  BY ReadableStored DEF AggregationReadable, Counted
<1>4. QED
  BY <1>2, <1>3, PTL

-------------------------------------------------------------------------------
(* A base point stored before a request began is not written by it. *)

\* What a request saw at its begin stays stored, so its check refuses it later: an
\* item past the check is not among it.
RewriteInv ==
    /\ \A r \in Request : \A c \in before[r] :
            c.summary = "base" /\ \E m \in stored : m.cell = c
    /\ \A r \in Request :
            /\ pc[r] \in {"rows", "insert"}
            /\ EVENT_TYPE_CF_MAP[CurType(r)] # "raw"
            => BaseCell(CurItem(r).series, CurItem(r).ts) \notin before[r]
    /\ \A m \in Written : pc[m.id[1]] # "idle"
    /\ NoRewrite

\* A step of a request writes no base point its check would have refused.
LEMMA RewriteStep ==
    ASSUME TypeInv, RewriteInv, NEW r \in Request, Step(r)
    PROVE  RewriteInv'
<1>1. stored \subseteq stored' /\ payload' = payload
  BY WrittenStep, PayloadUnchanged
<1>2. CASE Begin(r)
  <2>1. /\ pc[r] = "idle" /\ UNCHANGED <<stored, buffer, payload, item>>
        /\ before' = [before EXCEPT ![r] =
                        {c \in {m.cell : m \in stored} : c.summary = "base"}]
        /\ pc' = [pc EXCEPT ![r] = IF payload[r] = <<>> THEN "raw" ELSE "check"]
    BY <1>2 DEF Begin, storeVars
  <2>2. Written' = Written
    BY <2>1 DEF Written
  <2>3. before'[r] = {c \in {m.cell : m \in stored} : c.summary = "base"}
        /\ pc'[r] \in {"raw", "check"}
        /\ \A q \in Request : q # r => before'[q] = before[q] /\ pc'[q] = pc[q]
    BY <2>1 DEF TypeInv, TypeOK
  <2>4. \A q \in Request : \A c \in before'[q] :
            c.summary = "base" /\ \E m \in stored' : m.cell = c
    BY <2>1, <2>3 DEF RewriteInv
  <2>5. ASSUME NEW q \in Request, pc'[q] \in {"rows", "insert"},
               EVENT_TYPE_CF_MAP[CurType(q)'] # "raw"
        PROVE  BaseCell(CurItem(q).series, CurItem(q).ts)' \notin before'[q]
    BY <2>1, <2>3, <2>5 DEF RewriteInv, CurType, CurItem, BaseCell
  <2>6. \A m \in Written : m.id[1] # r /\ m.id[1] \in Request
    <3>1. Written \subseteq MutationSet
      BY DEF TypeInv, TypeOK, Written
    <3>2. \A m \in MutationSet : m.id[1] \in Request
      BY DEF MutationSet, Id
    <3>3. \A m \in Written : pc[m.id[1]] # "idle"
      BY DEF RewriteInv
    <3>4. QED
      BY <2>1, <3>1, <3>2, <3>3
  <2>7. (\A m \in Written' : pc'[m.id[1]] # "idle") /\ NoRewrite'
    BY <2>2, <2>3, <2>6 DEF RewriteInv, NoRewrite
  <2>8. QED
    BY <2>4, <2>5, <2>7 DEF RewriteInv
<1>3. CASE ~ Begin(r)
  <2>1. before' = before
    BY <1>3 DEF Step, Malformed, Conflict, Accept, Skip, Invalid, Summarise, NoSamples,
       Insert, Commit, Flush
  <2>2. \A q \in Request : \A c \in before'[q] :
            c.summary = "base" /\ \E m \in stored' : m.cell = c
    BY <1>1, <2>1 DEF RewriteInv
  <2>3. ASSUME NEW q \in Request, pc'[q] \in {"rows", "insert"},
               EVENT_TYPE_CF_MAP[CurType(q)'] # "raw"
        PROVE  BaseCell(CurItem(q).series, CurItem(q).ts)' \notin before'[q]
    <3>1. CASE pc[q] \in {"rows", "insert"} /\ item'[q] = item[q]
      BY <1>1, <2>1, <2>3, <3>1 DEF RewriteInv, CurType, CurItem, BaseCell
    <3>2. CASE q = r /\ Accept(r)
      <4>1. ~ Exists(r) /\ item' = item
        BY <3>2 DEF Accept
      <4>2. InCell(BaseCell(CurItem(r).series, CurItem(r).ts)) = {}
        BY <1>1, <2>3, <3>2, <4>1 DEF Exists, CurType, CurItem
      <4>3. BaseCell(CurItem(r).series, CurItem(r).ts) \notin before[r]
        BY <4>2 DEF RewriteInv, InCell
      <4>4. QED
        BY <1>1, <2>1, <3>2, <4>1, <4>3 DEF CurItem, BaseCell
    <3>3. QED
      <4>1. CASE q # r
        BY <2>3, <3>1, <4>1, OthersUnchanged
      <4>2. CASE q = r
        BY <1>3, <2>3, <3>1, <3>2, <4>2 DEF Step, Malformed, Conflict, Skip, Invalid,
           Summarise, Writing, NoSamples, Insert, Commit, Flush, Finish, CF, TypeInv, TypeOK
      <4>3. QED
        BY <4>1, <4>2
  <2>4. \A q \in Request : pc[q] # "idle" => pc'[q] # "idle"
    <3>1. pc'[r] # "idle"
      BY <1>3 DEF Step, Malformed, Conflict, Accept, Skip, Invalid, Summarise, Writing,
         NoSamples, Insert, NextRow, Commit, Flush, Finish, CF, TypeInv, TypeOK
    <3>2. QED
      BY <3>1, OthersUnchanged
  <2>5. ASSUME NEW m \in Written'
        PROVE  pc'[m.id[1]] # "idle" /\ (m.cf # "raw" => m.cell \notin before'[m.id[1]])
    <3>1. CASE m \in Written
      <4>1. m.id[1] \in Request
        BY <3>1 DEF Written, TypeInv, TypeOK, MutationSet, Id
      <4>2. QED
        BY <2>1, <2>4, <3>1, <4>1 DEF RewriteInv, NoRewrite
    <3>2. CASE Insert(r) /\ m = Mutation(r)
      <4>1. /\ m.id[1] = r /\ m.cell = CurCell(r) /\ pc[r] = "insert"
            /\ m.cf = SummaryCF(CurItem(r).series, CurRow(r).type)
        BY <3>2 DEF Mutation, Insert
      <4>2. pc'[r] # "idle"
        BY <2>4, <4>1
      <4>3. ASSUME m.cf # "raw", m.cell \in before[r] PROVE FALSE
        <5>1. EVENT_TYPE_CF_MAP[CurType(r)] # "raw"
          BY <4>1, <4>3 DEF SummaryCF, CurType, EVENT_TYPE_CF_MAP
        <5>2. CurRow(r).type = "base"
          BY <4>1, <4>3 DEF RewriteInv, CurCell, Cell
        <5>3. CurRow(r).window = 0
          <6>1. row[r] \in 1..Len(CurRows(r)) /\ CurItem(r).series \in Series
            BY <4>1, CurRowType, CurItemType DEF TypeInv, TypeOK, Item
          <6>2. QED
            BY <5>2, <6>1, TimeSeriesAssumption DEF CurRow, CurRows
        <5>4. CurCell(r) = BaseCell(CurItem(r).series, CurItem(r).ts)
          BY <5>2, <5>3 DEF CurCell, Cell, BaseCell, BinTime
        <5>5. QED
          BY <4>1, <4>3, <5>1, <5>4 DEF RewriteInv
      <4>4. QED
        BY <2>1, <4>1, <4>2, <4>3
    <3>3. QED
      BY <3>1, <3>2, WrittenStep
  <2>6. QED
    BY <2>2, <2>3, <2>5 DEF RewriteInv, NoRewrite
<1>4. QED
  BY <1>2, <1>3

\* The invariant behind NoRewrite is inductive.
LEMMA RewriteNext == TypeInv /\ RewriteInv /\ [Next]_vars => RewriteInv'
<1> SUFFICES ASSUME TypeInv, RewriteInv, [Next]_vars PROVE RewriteInv'
  OBVIOUS
<1>1. ASSUME NEW p \in Process, Crash(p) PROVE RewriteInv'
  <2>1. UNCHANGED <<before, stored, payload, item>> /\ Written' \subseteq Written
    BY <1>1, WrittenCrash DEF Crash
  <2>2. \A q \in Request : pc'[q] = pc[q] \/ pc'[q] = "done"
    BY <1>1 DEF Crash
  <2>3. \A m \in Written : m.id[1] \in Request
    BY DEF Written, TypeInv, TypeOK, MutationSet, Id
  <2>4. QED
    BY <2>1, <2>2, <2>3 DEF RewriteInv, NoRewrite, CurType, CurItem, BaseCell
<1>2. CASE UNCHANGED vars
  <2>1. UNCHANGED <<before, stored, buffer, payload, item, pc>>
    BY <1>2 DEF vars, requestVars, storeVars
  <2>2. Written' = Written
    BY <2>1 DEF Written
  <2>3. QED
    BY <2>1, <2>2 DEF RewriteInv, NoRewrite, CurType, CurItem, BaseCell
<1>3. QED
  BY <1>1, <1>2, RewriteStep DEF Next, AllDone

\* The check-then-act of save() is sound against whatever was stored before the
\* request began: a later duplicate of a stored value is never counted again.
THEOREM NeverRewritten == Spec => []NoRewrite
<1>1. Init => RewriteInv
  BY DEF Init, RewriteInv, Written, NoRewrite
<1>2. Spec => [](TypeInv /\ RewriteInv)
  BY <1>1, InitType, NextType, RewriteNext, PTL DEF Spec
<1>3. RewriteInv => NoRewrite
  BY DEF RewriteInv
<1>4. QED
  BY <1>2, <1>3, PTL

-------------------------------------------------------------------------------
(* What a request was answered 201 for is in Cassandra. *)

\* Item i and row k of request r: there is something to write, ...
Due(r, i, k) ==
    /\ i \in 1..Len(payload[r])
    /\ k \in 1..Len(Rows[payload[r][i].series])
    /\ Allowed(payload[r][i].series, Rows[payload[r][i].series][k].type)

\* ... in this column family, ...
Target(r, i, k) ==
    SummaryCF(payload[r][i].series, Rows[payload[r][i].series][k].type)

\* ... by this mutation, ...
IsFor(m, r, i, k) ==
    /\ m.id = <<r, i, k>>
    /\ m.cell = Cell(payload[r][i].series, Rows[payload[r][i].series][k], payload[r][i].ts)

\* ... and the request has passed it.
Passed(r, i, k) ==
    \/ pc[r] \in CF
    \/ pc[r] \in {"check", "rows", "insert"} /\ i < item[r]
    \/ pc[r] \in {"rows", "insert"} /\ i = item[r] /\ k < row[r]

\* flush() has sent this batch on behalf of r.
Flushed(r, cf) ==
    \/ pc[r] = "rate" /\ cf = "raw"
    \/ pc[r] = "agg" /\ cf \in {"raw", "rate"}

Kept(r, i, k) ==
    \E m : /\ IsFor(m, r, i, k)
           /\ \/ m \in stored
              \/ /\ ~ Flushed(r, Target(r, i, k))
                 /\ m \in buffer[proc[r]][Target(r, i, k)]

\* Until it is answered, everything a request has passed is in Cassandra or in a
\* batch of its process that its flush() has yet to send.
DurableInv ==
    \A r \in Request, i \in Nat, k \in Nat : Due(r, i, k) =>
        /\ Passed(r, i, k) => Kept(r, i, k)
        /\ answer[r] = "201" => \E m \in stored : IsFor(m, r, i, k)

\* A mutation leaves its batch for Cassandra only.
LEMMA BatchKept ==
    ASSUME TypeInv, NEW r \in Request, Step(r), NEW p \in Process, NEW cf \in CF
    PROVE  buffer[p][cf] \subseteq buffer'[p][cf] \cup stored'
<1>1. ASSUME NEW q \in Process, NEW c \in CF, NEW b, buffer[q][c] \subseteq b,
             \/ SendOk(q, c, b) \/ SendFails(q, c, b)
             \/ buffer' = [buffer EXCEPT ![q][c] = b]
      PROVE  buffer[p][cf] \subseteq buffer'[p][cf] \cup stored'
  <2>1. \/ buffer' = [buffer EXCEPT ![q][c] = b]
        \/ buffer' = [buffer EXCEPT ![q][c] = {}] /\ b \subseteq stored'
    BY <1>1 DEF SendOk, SendFails, Apply
  <2>2. buffer \in [Process -> [CF -> SUBSET MutationSet]]
    BY DEF TypeInv, TypeOK
  <2>3. CASE p = q /\ cf = c
    BY <1>1, <2>1, <2>2, <2>3
  <2>4. CASE ~ (p = q /\ cf = c)
    BY <2>1, <2>2, <2>4
  <2>5. QED
    BY <2>3, <2>4
<1>2. CASE Insert(r)
  <2>1. proc[r] \in Process /\ Mutation(r).cf \in CF
    BY <1>2, MutationType DEF TypeInv, TypeOK, Insert, MutationSet
  <2>2. buffer[proc[r]][Mutation(r).cf] \subseteq Batch(r)
    BY DEF Batch
  <2>3. QED
    BY <1>1, <1>2, <2>1, <2>2 DEF Insert
<1>3. CASE Flush(r)
  <2>1. proc[r] \in Process /\ pc[r] \in CF
    BY <1>3 DEF TypeInv, TypeOK, Flush
  <2>2. QED
    BY <1>1, <1>3, <2>1 DEF Flush
<1>4. CASE UNCHANGED <<stored, buffer>>
  BY <1>4
<1>5. QED
  BY <1>2, <1>3, <1>4 DEF Step, Begin, Malformed, Conflict, Accept, Skip, Invalid,
     Summarise, NoSamples, Commit, storeVars

\* What a request owes goes to a batch of its own process.
LEMMA DueType ==
    ASSUME TypeInv, NEW r \in Request, NEW i \in Nat, NEW k \in Nat, Due(r, i, k)
    PROVE  Target(r, i, k) \in CF /\ proc[r] \in Process
<1>1. payload[r] \in Seq(Item) /\ i \in 1..Len(payload[r])
  BY TimeSeriesAssumption DEF TypeInv, TypeOK, Due
<1>2. payload[r][i].series \in Series
  <2>1. payload[r][i] \in Item
    BY <1>1
  <2>2. QED
    BY <2>1 DEF Item
<1>3. DataType[payload[r][i].series] \in DOMAIN EVENT_TYPE_CF_MAP
  BY <1>2, TimeSeriesAssumption
<1>4. Target(r, i, k) \in CF
  BY <1>3 DEF Target, SummaryCF, EVENT_TYPE_CF_MAP, CF
<1>5. proc[r] \in Process
  BY DEF TypeInv, TypeOK
<1>6. QED
  BY <1>4, <1>5

\* What was kept before a step is kept after it, as long as the request has not
\* just been told that the batch is sent.
LEMMA KeptStep ==
    ASSUME TypeInv, NEW r \in Request, Step(r), NEW q \in Request, NEW i \in Nat,
           NEW k \in Nat, Due(q, i, k), Kept(q, i, k),
           Flushed(q, Target(q, i, k))' => Flushed(q, Target(q, i, k))
    PROVE  Kept(q, i, k)'
<1>1. payload' = payload /\ proc' = proc /\ stored \subseteq stored'
  BY WrittenStep, PayloadUnchanged
<1>2. Target(q, i, k)' = Target(q, i, k) /\ \A m : IsFor(m, q, i, k)' <=> IsFor(m, q, i, k)
  BY <1>1 DEF Target, IsFor, SummaryCF, Cell, BinTime
<1>3. buffer[proc[q]][Target(q, i, k)] \subseteq buffer'[proc[q]][Target(q, i, k)] \cup stored'
  BY BatchKept, DueType
<1>4. PICK m : /\ IsFor(m, q, i, k)
               /\ \/ m \in stored
                  \/ /\ ~ Flushed(q, Target(q, i, k))
                     /\ m \in buffer[proc[q]][Target(q, i, k)]
  BY DEF Kept
<1>5. CASE m \in stored'
  <2>1. IsFor(m, q, i, k)'
    BY <1>2, <1>4
  <2>2. QED
    BY <1>5, <2>1 DEF Kept
<1>6. CASE m \notin stored'
  <2>1. ~ Flushed(q, Target(q, i, k))' /\ m \in buffer'[proc'[q]][Target(q, i, k)']
    BY <1>1, <1>2, <1>3, <1>4, <1>6
  <2>2. QED
    BY <1>2, <1>4, <2>1 DEF Kept
<1>7. QED
  BY <1>5, <1>6

\* The mutation a request inserts is the one due, and it goes to its batch or to
\* Cassandra.
LEMMA InsertKeeps ==
    ASSUME TypeInv, NEW r \in Request, Insert(r)
    PROVE  /\ IsFor(Mutation(r), r, item[r], row[r])
           /\ Mutation(r).cf = Target(r, item[r], row[r])
           /\ Mutation(r) \in stored' \/ Mutation(r) \in buffer'[proc[r]][Mutation(r).cf]
<1>1. proc[r] \in Process /\ Mutation(r).cf \in CF
  BY MutationType DEF TypeInv, TypeOK, Insert, MutationSet
<1>2. IsFor(Mutation(r), r, item[r], row[r]) /\ Mutation(r).cf = Target(r, item[r], row[r])
  BY DEF Mutation, IsFor, Target, CurCell, CurItem, CurRow, CurRows
<1>3. Mutation(r) \in Batch(r)
  BY DEF Batch
<1>4. \/ buffer' = [buffer EXCEPT ![proc[r]][Mutation(r).cf] = Batch(r)]
      \/ Batch(r) \subseteq stored'
  BY DEF Insert, SendOk, SendFails, Apply
<1>5. buffer \in [Process -> [CF -> SUBSET MutationSet]]
  BY DEF TypeInv, TypeOK
<1>6. QED
  BY <1>1, <1>2, <1>3, <1>4, <1>5

\* flush() moves the batch it is at into Cassandra, or ends the request.
LEMMA FlushSends ==
    ASSUME TypeInv, NEW r \in Request, Flush(r)
    PROVE  \/ Finish(r, "500")
           \/ /\ buffer[proc[r]][pc[r]] \subseteq stored'
              /\ \/ /\ pc[r] = "raw" /\ pc'[r] = "rate" /\ answer' = answer
                 \/ /\ pc[r] = "rate" /\ pc'[r] = "agg" /\ answer' = answer
                 \/ /\ pc[r] = "agg" /\ pc'[r] = "done"
BY DEF Flush, SendOk, Apply, Finish, TypeInv, TypeOK, CF

\* A step of a request loses nothing any request has passed.
LEMMA DurableStep ==
    ASSUME TypeInv, DurableInv, NEW r \in Request, Step(r)
    PROVE  DurableInv'
<1>1. payload' = payload /\ proc' = proc /\ stored \subseteq stored'
  BY WrittenStep, PayloadUnchanged
<1>2. SUFFICES ASSUME NEW q \in Request, NEW i \in Nat, NEW k \in Nat, Due(q, i, k)'
               PROVE  /\ Passed(q, i, k)' => Kept(q, i, k)'
                      /\ answer'[q] = "201" => \E m \in stored' : IsFor(m, q, i, k)'
  BY DEF DurableInv
<1>3. Due(q, i, k)
  BY <1>1, <1>2 DEF Due, Allowed
<1>4. \A m : IsFor(m, q, i, k)' <=> IsFor(m, q, i, k)
  BY <1>1 DEF IsFor, Cell, BinTime
<1>5. answer[q] = "201" => \E m \in stored' : IsFor(m, q, i, k)'
  BY <1>1, <1>3, <1>4 DEF DurableInv
<1>6. Passed(q, i, k) => Kept(q, i, k)
  BY <1>3 DEF DurableInv
<1>7. CASE q # r
  <2>1. pc'[q] = pc[q] /\ item'[q] = item[q] /\ row'[q] = row[q] /\ answer'[q] = answer[q]
    BY <1>7, OthersUnchanged
  <2>2. /\ Passed(q, i, k)' <=> Passed(q, i, k)
        /\ Flushed(q, Target(q, i, k))' <=> Flushed(q, Target(q, i, k))
    BY <1>1, <2>1 DEF Passed, Flushed, Target, SummaryCF
  <2>3. QED
    BY <1>3, <1>5, <1>6, <2>1, <2>2, KeptStep
<1>8. CASE q = r /\ pc'[r] = "done" /\ answer'[r] # "201"
  BY <1>8 DEF Passed, CF
<1>9. ASSUME q = r, pc'[r] \notin {"rate", "agg"}, answer'[r] = answer[r],
             Passed(q, i, k)' => Passed(q, i, k)
      PROVE  /\ Passed(q, i, k)' => Kept(q, i, k)'
             /\ answer'[q] = "201" => \E m \in stored' : IsFor(m, q, i, k)'
  <2>1. ~ Flushed(q, Target(q, i, k))'
    BY <1>9 DEF Flushed
  <2>2. QED
    BY <1>3, <1>5, <1>6, <1>9, <2>1, KeptStep
<1>10. CASE q = r /\ Begin(r)
  <2>1. item[r] = 1 /\ item' = item /\ answer' = answer /\ pc'[r] \in {"raw", "check"}
    BY <1>10 DEF Begin, TypeInv, TypeOK
  <2>2. pc'[r] # "raw"
    <3>1. payload[r] # <<>>
      BY <1>3, <1>10 DEF Due
    <3>2. QED
      BY <1>10, <3>1 DEF Begin, TypeInv, TypeOK
  <2>3. ~ Passed(q, i, k)'
    BY <1>3, <1>10, <2>1, <2>2 DEF Passed, Due, CF
  <2>4. QED
    BY <1>9, <1>10, <2>1, <2>3
<1>11. CASE q = r /\ (Malformed(r) \/ Conflict(r) \/ Invalid(r) \/ NoSamples(r))
  BY <1>8, <1>11 DEF Malformed, Conflict, Invalid, NoSamples, Finish, TypeInv, TypeOK
<1>12. CASE q = r /\ (Accept(r) \/ Summarise(r))
  <2>1. pc'[r] \in {"rows", "insert"} /\ pc[r] \in {"check", "rows"}
        /\ item' = item /\ answer' = answer /\ ((row' = row /\ pc[r] = "rows") \/ row'[r] = 1)
    BY <1>12 DEF Accept, Summarise, Writing, TypeInv, TypeOK
  <2>2. Passed(q, i, k)' => Passed(q, i, k)
    BY <1>3, <1>12, <2>1 DEF Passed, Due, CF
  <2>3. QED
    BY <1>9, <1>12, <2>1, <2>2
<1>13. CASE q = r /\ Skip(r)
  <2>1. /\ pc' = pc /\ pc[r] = "rows" /\ item' = item /\ answer' = answer
        /\ row[r] \in Nat /\ row'[r] = row[r] + 1
        /\ ~ Allowed(CurItem(r).series, CurRow(r).type)
    BY <1>13 DEF Skip, TypeInv, TypeOK
  <2>2. ~ (i = item[r] /\ k = row[r])
    BY <1>3, <1>13, <2>1 DEF Due, CurItem, CurRow, CurRows
  <2>3. Passed(q, i, k)' => Passed(q, i, k)
    BY <1>13, <2>1, <2>2 DEF Passed, CF
  <2>4. QED
    BY <1>9, <1>13, <2>1, <2>3
<1>14. CASE q = r /\ Insert(r)
  <2>1. CASE Finish(r, "500")
    BY <1>8, <1>14, <2>1 DEF Finish, TypeInv, TypeOK
  <2>2. CASE NextRow(r)
    <3>1. /\ pc[r] = "insert" /\ pc'[r] = "rows" /\ item' = item /\ answer' = answer
          /\ row[r] \in Nat /\ row'[r] = row[r] + 1
      BY <1>14, <2>2 DEF Insert, NextRow, TypeInv, TypeOK
    <3>2. CASE i = item[r] /\ k = row[r]
      <4>1. Target(q, i, k)' = Target(q, i, k)
        BY <1>1 DEF Target, SummaryCF
      <4>2. ~ Flushed(q, Target(q, i, k))'
        BY <1>14, <3>1 DEF Flushed
      <4>3. PICK m : /\ IsFor(m, q, i, k)
                     /\ m \in stored' \/ m \in buffer'[proc[q]][Target(q, i, k)]
        BY <1>14, <3>2, InsertKeeps
      <4>4. Kept(q, i, k)'
        <5>1. IsFor(m, q, i, k)'
          BY <1>4, <4>3
        <5>2. m \in stored' \/ m \in buffer'[proc'[q]][Target(q, i, k)']
          BY <1>1, <4>1, <4>3
        <5>3. QED
          BY <4>2, <5>1, <5>2 DEF Kept
      <4>5. QED
        BY <1>5, <1>14, <3>1, <4>4
    <3>3. CASE ~ (i = item[r] /\ k = row[r])
      <4>1. Passed(q, i, k)' => Passed(q, i, k)
        BY <1>14, <3>1, <3>3 DEF Passed, CF
      <4>2. QED
        BY <1>9, <1>14, <3>1, <4>1
    <3>4. QED
      BY <3>2, <3>3
  <2>3. QED
    BY <1>14, <2>1, <2>2 DEF Insert
<1>15. CASE q = r /\ Commit(r)
  <2>1. /\ pc[r] = "rows" /\ answer' = answer /\ row[r] > Len(CurRows(r))
        /\ item[r] \in 1..Len(payload[r]) /\ row[r] \in Nat /\ Len(CurRows(r)) \in Nat
    BY <1>15, CurItemType DEF Commit, TypeInv, TypeOK
  <2>2. \/ pc'[r] = "check" /\ item'[r] = item[r] + 1
        \/ pc'[r] = "raw" /\ item[r] = Len(payload[r])
    <3>1. /\ pc' = [pc EXCEPT ![r] = pc'[r]] /\ item' = [item EXCEPT ![r] = item'[r]]
          /\ pc \in [Request -> {"idle", "check", "rows", "insert", "done"} \cup CF]
          /\ item \in [Request -> 1..(MaxItems + 1)]
      BY <1>15 DEF Commit, TypeInv, TypeOK
    <3>2. QED
      BY <1>15, <2>1, <3>1 DEF Commit
  <2>3. i = item[r] => k < row[r]
    <3>1. SUFFICES ASSUME i = item[r] PROVE k < row[r]
      OBVIOUS
    <3>2. k \in 1..Len(CurRows(r))
      BY <1>3, <1>15, <3>1 DEF Due, CurRows, CurItem
    <3>3. QED
      BY <2>1, <3>2
  <2>4. Passed(q, i, k)' => Passed(q, i, k)
    BY <1>3, <1>15, <2>1, <2>2, <2>3 DEF Passed, Due, CF
  <2>5. QED
    BY <1>9, <1>15, <2>1, <2>2, <2>4
<1>16. CASE q = r /\ Flush(r)
  <2>1. CASE Finish(r, "500")
    BY <1>8, <1>16, <2>1 DEF Finish, TypeInv, TypeOK
  <2>2. CASE ~ Finish(r, "500")
    <3>1. pc[r] \in CF /\ Target(q, i, k)' = Target(q, i, k) /\ Target(q, i, k) \in CF
      BY <1>1, <1>3, <1>16, DueType DEF Flush, Target, SummaryCF
    <3>2. PICK m : /\ IsFor(m, q, i, k)
                   /\ \/ m \in stored
                      \/ /\ ~ Flushed(q, Target(q, i, k))
                         /\ m \in buffer[proc[q]][Target(q, i, k)]
      BY <1>6, <1>16, <3>1 DEF Passed, Kept
    <3>3. /\ buffer[proc[r]][pc[r]] \subseteq stored'
          /\ \/ /\ pc[r] = "raw" /\ pc'[r] = "rate" /\ answer' = answer
             \/ /\ pc[r] = "rate" /\ pc'[r] = "agg" /\ answer' = answer
             \/ /\ pc[r] = "agg" /\ pc'[r] = "done"
      BY <1>16, <2>2, FlushSends
    <3>4. CASE m \in stored'
      <4>1. IsFor(m, q, i, k)'
        BY <1>4, <3>2
      <4>2. QED
        BY <3>4, <4>1 DEF Kept
    <3>5. CASE m \notin stored'
      <4>1. ~ Flushed(q, Target(q, i, k)) /\ Target(q, i, k) # pc[r]
        BY <1>1, <1>16, <3>2, <3>3, <3>5
      <4>2. pc[r] # "agg" /\ ~ Flushed(q, Target(q, i, k))'
        BY <1>16, <3>1, <3>3, <4>1 DEF Flushed, CF
      <4>3. QED
        BY <1>3, <1>5, <1>6, <1>16, <3>1, <3>3, <4>2, KeptStep DEF Passed
    <3>6. QED
      BY <3>4, <3>5
  <2>3. QED
    BY <2>1, <2>2
<1>17. QED
  BY <1>7, <1>10, <1>11, <1>12, <1>13, <1>14, <1>15, <1>16 DEF Step

\* The invariant behind AckedIsStored is inductive.
LEMMA DurableNext == TypeInv /\ DurableInv /\ [Next]_vars => DurableInv'
<1> SUFFICES ASSUME TypeInv, DurableInv, [Next]_vars PROVE DurableInv'
  OBVIOUS
<1>1. ASSUME NEW p \in Process, Crash(p), NEW q \in Request, NEW i \in Nat, NEW k \in Nat,
             Due(q, i, k)'
      PROVE  /\ Passed(q, i, k)' => Kept(q, i, k)'
             /\ answer'[q] = "201" => \E m \in stored' : IsFor(m, q, i, k)'
  <2>1. UNCHANGED <<payload, proc, item, row, stored>>
    BY <1>1 DEF Crash
  <2>2. /\ Due(q, i, k) /\ Target(q, i, k)' = Target(q, i, k)
        /\ \A m : IsFor(m, q, i, k)' <=> IsFor(m, q, i, k)
    BY <1>1, <2>1 DEF Due, Allowed, Target, SummaryCF, IsFor, Cell, BinTime
  <2>3. CASE pc'[q] = "done" /\ answer'[q] = "crashed"
    BY <2>3 DEF Passed, CF
  <2>4. CASE pc'[q] = pc[q] /\ answer'[q] = answer[q] /\ pc[q] \in {"idle", "done"}
    BY <2>1, <2>2, <2>4 DEF Passed, CF, DurableInv
  <2>5. CASE pc'[q] = pc[q] /\ answer'[q] = answer[q] /\ proc[q] # p
    <3>1. /\ Passed(q, i, k)' <=> Passed(q, i, k)
          /\ Flushed(q, Target(q, i, k))' <=> Flushed(q, Target(q, i, k))
      BY <2>1, <2>2, <2>5 DEF Passed, Flushed
    <3>2. buffer'[proc'[q]] = buffer[proc[q]]
      BY <1>1, <2>1, <2>5 DEF Crash, TypeInv, TypeOK
    <3>3. Kept(q, i, k) => Kept(q, i, k)'
      BY <2>1, <2>2, <3>1, <3>2 DEF Kept
    <3>4. QED
      BY <2>1, <2>2, <2>5, <3>1, <3>3 DEF DurableInv
  <2>6. QED
    BY <1>1, <2>3, <2>4, <2>5 DEF Crash
<1>2. CASE UNCHANGED vars
  <2>1. UNCHANGED <<payload, proc, pc, item, row, stored, buffer, answer>>
    BY <1>2 DEF vars, requestVars, storeVars
  <2>2. SUFFICES ASSUME NEW q \in Request, NEW i \in Nat, NEW k \in Nat, Due(q, i, k)'
                 PROVE  /\ Passed(q, i, k)' => Kept(q, i, k)'
                        /\ answer'[q] = "201" => \E m \in stored' : IsFor(m, q, i, k)'
    BY DEF DurableInv
  <2>3. /\ Due(q, i, k) /\ Target(q, i, k)' = Target(q, i, k)
        /\ \A m : IsFor(m, q, i, k)' <=> IsFor(m, q, i, k)
        /\ Passed(q, i, k)' <=> Passed(q, i, k)
    BY <2>1, <2>2 DEF Due, Allowed, Target, SummaryCF, IsFor, Cell, BinTime, Passed
  <2>4. Flushed(q, Target(q, i, k))' <=> Flushed(q, Target(q, i, k))
    BY <2>1, <2>3 DEF Flushed
  <2>5. Kept(q, i, k) => Kept(q, i, k)'
    BY <2>1, <2>3, <2>4 DEF Kept
  <2>6. QED
    BY <2>1, <2>3, <2>5 DEF DurableInv
<1>3. QED
  <2>1. ASSUME NEW p \in Process, Crash(p) PROVE DurableInv'
    BY <1>1, <2>1 DEF DurableInv
  <2>2. QED
    BY <1>2, <2>1, DurableStep DEF Next, AllDone

\* 201 is durable: whatever the interleaving of requests sharing the batches of
\* their process, and whichever sends fail or processes die, the request's every
\* mutation is in Cassandra when its client reads the answer.
THEOREM AckedIsDurable == Spec => []AckedIsStored
<1>1. Init => DurableInv
  BY DEF Init, DurableInv, Passed, CF
<1>2. Spec => [](TypeInv /\ DurableInv)
  BY <1>1, InitType, NextType, DurableNext, PTL DEF Spec
<1>3. TypeInv /\ DurableInv => AckedIsStored
  <2> SUFFICES ASSUME TypeInv, DurableInv, NEW r \in Request, answer[r] = "201",
                      NEW i \in 1..Len(payload[r]),
                      NEW k \in 1..Len(Rows[payload[r][i].series]),
                      Allowed(payload[r][i].series, Rows[payload[r][i].series][k].type)
               PROVE  \E m \in stored : IsFor(m, r, i, k)
    BY DEF AckedIsStored, IsFor
  <2>1. Due(r, i, k) /\ i \in Nat /\ k \in Nat
    BY DEF Due
  <2>2. QED
    BY <2>1 DEF DurableInv
<1>4. QED
  BY <1>2, <1>3, PTL

-------------------------------------------------------------------------------
(* What the write path counts: every mutation once, the samples of every      *)
(* histogram once, and statistics over what was aggregated.  A request passes *)
(* the rows of its items one by one and never comes back to one, and a        *)
(* mutation is known by the row it was made for.                              *)

HIDE TimeSeriesAssumption

-------------------------------------------------------------------------------
(* Where the requests are. *)

\* Request r has passed row k of item i, however it went on from there.
Behind(r, i, k) ==
    /\ pc[r] # "idle"
    /\ pc[r] = "check" => i < item[r]
    /\ pc[r] \in {"rows", "insert"} => i < item[r] \/ (i = item[r] /\ k < row[r])

\* What is written was due, is in the batch of its column family in the process of
\* its request, and its request has passed it.
OneBehind(m) ==
    /\ Due(m.id[1], m.id[2], m.id[3]) /\ IsFor(m, m.id[1], m.id[2], m.id[3])
    /\ m.cf = Target(m.id[1], m.id[2], m.id[3])
    /\ Behind(m.id[1], m.id[2], m.id[3])

CursorInv ==
    /\ \A m \in Written : OneBehind(m)
    /\ \A p \in Process, cf \in CF : \A m \in buffer[p][cf] :
            m.cf = cf /\ proc[m.id[1]] = p
    /\ \A r \in Request : pc[r] = "insert" => Allowed(CurItem(r).series, CurRow(r).type)

\* A request only moves on.
LEMMA BehindStep ==
    ASSUME TypeInv, NEW r \in Request, Step(r), NEW q \in Request, NEW i \in Nat, NEW k \in Nat,
           Behind(q, i, k)
    PROVE  Behind(q, i, k)'
<1>1. CASE q # r
  BY <1>1, OthersUnchanged DEF Behind
<1>2. CASE q = r
  <2> USE <1>2 DEF Behind, TypeInv, TypeOK
  <2>1. CASE Begin(r) \/ Malformed(r) \/ Conflict(r) \/ Accept(r) \/ Skip(r) \/ Invalid(r)
    BY <2>1 DEF Begin, Malformed, Conflict, Accept, Skip, Invalid, Writing, Finish
  <2>2. CASE Summarise(r) \/ NoSamples(r)
    BY <2>2 DEF Summarise, NoSamples, Writing, Finish
  <2>3. CASE Insert(r)
    BY <2>3 DEF Insert, NextRow, Finish
  <2>4. CASE Commit(r)
    BY <2>4 DEF Commit
  <2>5. CASE Flush(r)
    BY <2>5 DEF Flush, Finish, CF
  <2>6. QED
    BY <2>1, <2>2, <2>3, <2>4, <2>5 DEF Step
<1>3. QED
  BY <1>1, <1>2

\* A batch gets nothing but the mutation that is inserted.
LEMMA BufferStep ==
    ASSUME TypeInv, NEW r \in Request, Step(r), NEW p \in Process, NEW cf \in CF,
           NEW m \in buffer'[p][cf]
    PROVE  \/ m \in buffer[p][cf]
           \/ Insert(r) /\ m = Mutation(r) /\ p = proc[r] /\ cf = Mutation(r).cf
<1>0. buffer \in [Process -> [CF -> SUBSET MutationSet]]
  BY DEF TypeInv, TypeOK
<1>1. CASE Insert(r)
  <2>1. proc[r] \in Process /\ Mutation(r).cf \in CF
    BY <1>1, MutationType DEF TypeInv, TypeOK, Insert, MutationSet
  <2>2. \/ buffer' = [buffer EXCEPT ![proc[r]][Mutation(r).cf] = Batch(r)]
        \/ buffer' = [buffer EXCEPT ![proc[r]][Mutation(r).cf] = {}]
    BY <1>1 DEF Insert, SendOk, SendFails
  <2>3. CASE p = proc[r] /\ cf = Mutation(r).cf
    BY <1>0, <1>1, <2>1, <2>2, <2>3 DEF Batch
  <2>4. CASE ~ (p = proc[r] /\ cf = Mutation(r).cf)
    BY <1>0, <2>1, <2>2, <2>4
  <2>5. QED
    BY <2>3, <2>4
<1>2. CASE Flush(r)
  <2>1. proc[r] \in Process /\ pc[r] \in CF
    BY <1>2 DEF TypeInv, TypeOK, Flush
  <2>2. \/ buffer' = [buffer EXCEPT ![proc[r]][pc[r]] = buffer[proc[r]][pc[r]]]
        \/ buffer' = [buffer EXCEPT ![proc[r]][pc[r]] = {}]
    BY <1>2 DEF Flush, SendOk, SendFails
  <2>3. QED
    BY <1>0, <2>1, <2>2
<1>3. CASE UNCHANGED buffer
  BY <1>3
<1>4. QED
  BY <1>1, <1>2, <1>3 DEF Step, Begin, Malformed, Conflict, Accept, Skip, Invalid,
     Summarise, NoSamples, Commit, storeVars

\* The parts of a mutation's name.
LEMMA IdParts ==
    ASSUME TypeInv, NEW m \in Written
    PROVE  /\ m \in MutationSet /\ m.id \in Id
           /\ m.id[1] \in Request /\ m.id[2] \in Nat /\ m.id[3] \in Nat
           /\ m.id = <<m.id[1], m.id[2], m.id[3]>>
<1>1. m \in MutationSet
  BY DEF Written, TypeInv, TypeOK
<1>2. QED
  BY <1>1, TimeSeriesAssumption DEF MutationSet, Id


\* What is due, and what names it, is fixed by the payloads.
LEMMA DueStep ==
    ASSUME payload' = payload, NEW m, NEW r, NEW i, NEW k
    PROVE  /\ Due(r, i, k)' <=> Due(r, i, k)
           /\ IsFor(m, r, i, k)' <=> IsFor(m, r, i, k)
           /\ Target(r, i, k)' = Target(r, i, k)
BY DEF Due, Allowed, Target, SummaryCF, IsFor, Cell, BinTime

\* What a request inserts is due, and behind it once it is inserted.
LEMMA InsertBehind ==
    ASSUME TypeInv, CursorInv, NEW r \in Request, Insert(r), NEW m, m = Mutation(r)
    PROVE  OneBehind(m)'
<1>1. IsFor(m, r, item[r], row[r]) /\ m.cf = Target(r, item[r], row[r])
  BY InsertKeeps
<1>2. m.id[1] = r /\ m.id[2] = item[r] /\ m.id[3] = row[r]
  BY <1>1 DEF IsFor
<1>3. pc[r] = "insert" /\ row[r] <= Len(CurRows(r))
  BY DEF Insert, TypeInv, TypeOK
<1>4. item[r] \in 1..Len(payload[r]) /\ row[r] \in 1..Len(CurRows(r))
  BY <1>3, CurItemType, CurRowType DEF TypeInv
<1>5. Due(r, item[r], row[r])
  BY <1>3, <1>4 DEF Due, CurItem, CurRow, CurRows, CursorInv
<1>6. payload' = payload /\ item' = item /\ row'[r] = row[r] + 1
  BY DEF Insert, TypeInv, TypeOK
<1>7. pc'[r] \in {"rows", "done"}
  BY DEF Insert, NextRow, Finish, TypeInv, TypeOK
<1>8. Behind(m.id[1], m.id[2], m.id[3])'
  BY <1>2, <1>4, <1>6, <1>7 DEF Behind
<1>9. Due(m.id[1], m.id[2], m.id[3]) /\ IsFor(m, m.id[1], m.id[2], m.id[3])
      /\ m.cf = Target(m.id[1], m.id[2], m.id[3])
  BY <1>1, <1>2, <1>5
<1>10. QED
  BY <1>6, <1>8, <1>9, DueStep DEF OneBehind

\* A mutation does not move between batches, and its request does not come back.
LEMMA CursorStep ==
    ASSUME TypeInv, CursorInv, NEW r \in Request, Step(r)
    PROVE  CursorInv'
<1>1. payload' = payload /\ proc' = proc
  BY PayloadUnchanged
<1>2. ASSUME NEW m \in Written' PROVE OneBehind(m)'
  <2>1. CASE m \in Written
    <3>1. OneBehind(m) /\ m.id[1] \in Request /\ m.id[2] \in Nat /\ m.id[3] \in Nat
      BY <2>1, IdParts DEF CursorInv
    <3>2. Behind(m.id[1], m.id[2], m.id[3])'
      BY <3>1, BehindStep DEF OneBehind
    <3>3. QED
      BY <1>1, <3>1, <3>2, DueStep DEF OneBehind
  <2>2. CASE Insert(r) /\ m = Mutation(r)
    BY <2>2, InsertBehind
  <2>3. QED
    BY <1>2, <2>1, <2>2, WrittenStep
<1>3. ASSUME NEW p \in Process, NEW cf \in CF, NEW m \in buffer'[p][cf]
      PROVE  m.cf = cf /\ proc'[m.id[1]] = p
  <2>1. CASE m \in buffer[p][cf]
    BY <1>1, <2>1 DEF CursorInv
  <2>2. CASE Insert(r) /\ m = Mutation(r) /\ p = proc[r] /\ cf = Mutation(r).cf
    BY <1>1, <2>2 DEF Mutation
  <2>3. QED
    BY <1>3, <2>1, <2>2, BufferStep
<1>4. ASSUME NEW q \in Request, pc'[q] = "insert"
      PROVE  Allowed(CurItem(q).series, CurRow(q).type)'
  <2>1. CASE q = r /\ pc[q] # "insert"
    <3>1. Summarise(r)
      BY <1>4, <2>1 DEF Step, Begin, Malformed, Conflict, Accept, Skip, Invalid, NoSamples,
         Insert, NextRow, Commit, Flush, CF, Finish, TypeInv, TypeOK
    <3>2. QED
      BY <1>1, <2>1, <3>1 DEF Summarise, Writing, Allowed, CurItem, CurRow, CurRows
  <2>2. CASE pc[q] = "insert"
    <3>1. q # r
      BY <1>4, <2>2 DEF Step, Begin, Malformed, Conflict, Accept, Skip, Invalid, NoSamples,
         Summarise, Writing, Insert, NextRow, Commit, Flush, CF, Finish, TypeInv, TypeOK
    <3>2. item'[q] = item[q] /\ row'[q] = row[q]
      BY <3>1, OthersUnchanged
    <3>3. QED
      BY <1>1, <2>2, <3>2 DEF CursorInv, Allowed, CurItem, CurRow, CurRows
  <2>3. QED
    BY <1>4, <2>1, <2>2, OthersUnchanged
<1>5. QED
  BY <1>2, <1>3, <1>4 DEF CursorInv

\* The cursors are inductive.
LEMMA CursorNext == TypeInv /\ CursorInv /\ [Next]_vars => CursorInv'
<1> SUFFICES ASSUME TypeInv, CursorInv, [Next]_vars PROVE CursorInv'
  OBVIOUS
<1>1. ASSUME UNCHANGED <<payload, proc, item, row>>, Written' \subseteq Written,
             \A q \in Request : pc'[q] = pc[q] \/ pc'[q] = "done",
             \A p \in Process, cf \in CF : buffer'[p][cf] \subseteq buffer[p][cf]
      PROVE  CursorInv'
  <2>1. ASSUME NEW m \in Written' PROVE OneBehind(m)'
    <3>1. OneBehind(m) /\ m.id[1] \in Request
      BY <1>1, <2>1, IdParts DEF CursorInv
    <3>2. Behind(m.id[1], m.id[2], m.id[3])'
      BY <1>1, <3>1 DEF OneBehind, Behind
    <3>3. QED
      BY <1>1, <3>1, <3>2, DueStep DEF OneBehind
  <2>2. ASSUME NEW p \in Process, NEW cf \in CF, NEW m \in buffer'[p][cf]
        PROVE  m.cf = cf /\ proc'[m.id[1]] = p
    <3>1. m \in buffer[p][cf] /\ proc' = proc
      BY <1>1, <2>2
    <3>2. QED
      BY <3>1 DEF CursorInv
  <2>3. ASSUME NEW q \in Request, pc'[q] = "insert"
        PROVE  Allowed(CurItem(q).series, CurRow(q).type)'
    <3>1. pc[q] = "insert"
      BY <1>1, <2>3
    <3>2. Allowed(CurItem(q).series, CurRow(q).type)
      BY <3>1 DEF CursorInv
    <3>3. CurItem(q)' = CurItem(q) /\ CurRow(q)' = CurRow(q)
      BY <1>1 DEF CurItem, CurRow, CurRows
    <3>4. QED
      BY <3>2, <3>3 DEF Allowed
  <2>4. QED
    BY <2>1, <2>2, <2>3 DEF CursorInv
<1>2. ASSUME NEW p \in Process, Crash(p) PROVE CursorInv'
  <2>1. \A q \in Process, c \in CF : buffer'[q][c] \subseteq buffer[q][c]
    BY <1>2 DEF Crash, TypeInv, TypeOK
  <2>2. \A q \in Request : pc'[q] = pc[q] \/ pc'[q] = "done"
    BY <1>2 DEF Crash
  <2>3. QED
    BY <1>1, <1>2, <2>1, <2>2, WrittenCrash DEF Crash
<1>3. CASE UNCHANGED vars
  BY <1>1, <1>3 DEF vars, requestVars, storeVars, Written
<1>4. QED
  BY <1>2, <1>3, CursorStep DEF Next, AllDone

-------------------------------------------------------------------------------
(* A counter mutation is applied once. *)

\* What is counted is stored, and a mutation still in a batch was applied only by
\* sends that failed.
TimesInv ==
    /\ AppliedAtMostOnce
    /\ \A i \in Id : times[i] > 0 => \E m \in stored : m.id = i
    /\ \A p \in Process, cf \in CF : \A m \in buffer[p][cf] : times[m.id] <= faults

\* The mutations of one batch are in no other, and are known by their names.
LEMMA OneBatch ==
    ASSUME TypeInv, CursorInv, NEW p \in Process, NEW q \in Process, NEW c \in CF,
           NEW d \in CF, NEW m \in buffer[p][c], NEW n \in buffer[q][d], m.id = n.id
    PROVE  p = q /\ c = d
<1>1. m \in Written /\ n \in Written
  BY DEF Written
<1>2. QED
  BY <1>1 DEF CursorInv, OneBehind

\* A request inserts what was never applied and is in no batch.
LEMMA InsertIsNew ==
    ASSUME TypeInv, CursorInv, TimesInv, NEW r \in Request, Insert(r)
    PROVE  /\ Mutation(r).id \in Id /\ times[Mutation(r).id] = 0
           /\ \A m \in Written : m.id # Mutation(r).id
<1>1. Mutation(r) \in MutationSet /\ Mutation(r).id = <<r, item[r], row[r]>>
  BY MutationType DEF Insert, TypeInv, Mutation
<1>2. item[r] \in Int /\ row[r] \in Int
  BY DEF TypeInv, TypeOK
<1>3. ASSUME NEW m \in Written, m.id = Mutation(r).id PROVE FALSE
  <2>1. Behind(r, item[r], row[r])
    BY <1>1, <1>3 DEF CursorInv, OneBehind
  <2>2. QED
    BY <1>2, <2>1 DEF Behind, Insert
<1>4. Mutation(r).id \in Id /\ times[Mutation(r).id] \in Nat
  BY <1>1 DEF MutationSet, TypeInv, TypeOK
<1>5. ~ \E m \in stored : m.id = Mutation(r).id
  BY <1>3 DEF Written
<1>6. QED
  BY <1>3, <1>4, <1>5 DEF TimesInv

\* A send that succeeds takes its batch out of the buffers, and one that fails is
\* itself the fault that lets its batch be applied again.
LEMMA TimesSend ==
    ASSUME TypeInv, CursorInv, TimesInv, NEW p \in Process, NEW cf \in CF,
           NEW b \in SUBSET MutationSet, \A m \in b : times[m.id] <= faults,
           \A q \in Process, c \in CF : \A m \in buffer[q][c], n \in b :
                m.id = n.id => q = p /\ c = cf,
           SendOk(p, cf, b) \/ SendFails(p, cf, b)
    PROVE  TimesInv'
<1>1. /\ buffer \in [Process -> [CF -> SUBSET MutationSet]]
      /\ times \in [Id -> Nat] /\ faults \in Nat
      /\ \A m \in MutationSet : m.id \in Id
  BY DEF TypeInv, TypeOK, MutationSet
<1>2. CASE SendOk(p, cf, b)
  <2>1. /\ stored' = stored \cup b /\ faults' = faults
        /\ \A i \in Id : \/ times'[i] = times[i] /\ ~ \E m \in b : m.id = i
                         \/ times'[i] = times[i] + 1 /\ \E m \in b : m.id = i
    BY <1>1, <1>2 DEF SendOk, Apply
  <2>2. \A i \in Id : times'[i] <= 1 + faults'
    BY <1>1, <2>1 DEF TimesInv, AppliedAtMostOnce
  <2>3. \A i \in Id : times'[i] > 0 => \E m \in stored' : m.id = i
    BY <1>1, <2>1 DEF TimesInv
  <2>4. ASSUME NEW q \in Process, NEW c \in CF, NEW m \in buffer'[q][c]
        PROVE  times'[m.id] <= faults'
    <3>1. m \in buffer[q][c] /\ ~ (q = p /\ c = cf)
      BY <1>1, <1>2, <2>4 DEF SendOk
    <3>2. m.id \in Id /\ ~ \E n \in b : n.id = m.id
      BY <1>1, <3>1
    <3>3. QED
      BY <1>1, <2>1, <3>1, <3>2 DEF TimesInv
  <2>5. QED
    BY <2>2, <2>3, <2>4 DEF TimesInv, AppliedAtMostOnce
<1>3. CASE SendFails(p, cf, b)
  <2>1. /\ faults' = faults + 1
        /\ \/ stored' = stored \cup b
           \/ stored' = stored /\ times' = times
        /\ \A i \in Id : \/ times'[i] = times[i]
                         \/ times'[i] = times[i] + 1 /\ \E m \in stored' : m.id = i
    BY <1>1, <1>3 DEF SendFails, Apply
  <2>2. \A i \in Id : times'[i] <= 1 + faults'
    BY <1>1, <2>1 DEF TimesInv, AppliedAtMostOnce
  <2>3. \A i \in Id : times'[i] > 0 => \E m \in stored' : m.id = i
    BY <1>1, <2>1 DEF TimesInv
  <2>4. ASSUME NEW q \in Process, NEW c \in CF, NEW m \in buffer'[q][c]
        PROVE  times'[m.id] <= faults'
    <3>1. m \in buffer[q][c] \/ m \in b
      BY <1>1, <1>3, <2>4 DEF SendFails
    <3>2. m.id \in Id /\ times[m.id] <= faults
      BY <1>1, <3>1 DEF TimesInv
    <3>3. QED
      BY <1>1, <2>1, <3>2
  <2>5. QED
    BY <2>2, <2>3, <2>4 DEF TimesInv, AppliedAtMostOnce
<1>4. QED
  BY <1>2, <1>3

\* The counts of a step.
LEMMA TimesStep ==
    ASSUME TypeInv, CursorInv, TimesInv, NEW r \in Request, Step(r)
    PROVE  TimesInv'
<1>1. /\ buffer \in [Process -> [CF -> SUBSET MutationSet]]
      /\ times \in [Id -> Nat] /\ faults \in Nat /\ proc[r] \in Process
  BY DEF TypeInv, TypeOK
<1>2. CASE Insert(r)
  <2>1. Mutation(r) \in MutationSet /\ Mutation(r).cf \in CF
    BY <1>2, MutationType DEF Insert, TypeInv, MutationSet
  <2>2. Batch(r) \in SUBSET MutationSet
    BY <1>1, <2>1 DEF Batch
  <2>3. \A m \in Batch(r) : times[m.id] <= faults
    BY <1>1, <1>2, <2>1, InsertIsNew DEF Batch, TimesInv
  <2>4. \A q \in Process, c \in CF : \A m \in buffer[q][c], n \in Batch(r) :
            m.id = n.id => q = proc[r] /\ c = Mutation(r).cf
    BY <1>1, <1>2, <2>1, InsertIsNew, OneBatch DEF Batch, Written
  <2>5. CASE SendOk(proc[r], Mutation(r).cf, Batch(r))
             \/ SendFails(proc[r], Mutation(r).cf, Batch(r))
    BY <1>1, <2>1, <2>2, <2>3, <2>4, <2>5, TimesSend
  <2>6. CASE /\ buffer' = [buffer EXCEPT ![proc[r]][Mutation(r).cf] = Batch(r)]
             /\ UNCHANGED <<stored, times, faults>>
    <3>1. \A q \in Process, c \in CF : \A m \in buffer'[q][c] :
            m \in buffer[q][c] \/ m \in Batch(r)
      BY <1>1, <2>1, <2>6
    <3>2. QED
      BY <2>3, <2>6, <3>1 DEF TimesInv, AppliedAtMostOnce
  <2>7. QED
    BY <1>2, <2>5, <2>6 DEF Insert
<1>3. CASE Flush(r)
  <2> DEFINE b == buffer[proc[r]][pc[r]]
  <2>1. pc[r] \in CF /\ (SendOk(proc[r], pc[r], b) \/ SendFails(proc[r], pc[r], b))
    BY <1>3 DEF Flush
  <2>2. b \in SUBSET MutationSet /\ \A m \in b : times[m.id] <= faults
    BY <1>1, <2>1 DEF TimesInv
  <2>3. \A q \in Process, c \in CF : \A m \in buffer[q][c], n \in b :
            m.id = n.id => q = proc[r] /\ c = pc[r]
    BY <1>1, <2>1, OneBatch
  <2> HIDE DEF b
  <2>4. QED
    BY <1>1, <2>1, <2>2, <2>3, TimesSend
<1>4. CASE UNCHANGED <<stored, buffer, times, faults>>
  BY <1>4 DEF TimesInv, AppliedAtMostOnce
<1>5. QED
  BY <1>2, <1>3, <1>4 DEF Step, Begin, Malformed, Conflict, Accept, Skip, Invalid,
     Summarise, NoSamples, Commit, storeVars

\* The invariant behind AppliedAtMostOnce is inductive.
LEMMA TimesNext == TypeInv /\ CursorInv /\ TimesInv /\ [Next]_vars => TimesInv'
<1> SUFFICES ASSUME TypeInv, CursorInv, TimesInv, [Next]_vars PROVE TimesInv'
  OBVIOUS
<1>1. ASSUME NEW p \in Process, Crash(p) PROVE TimesInv'
  <2>1. /\ \A q \in Process, c \in CF : buffer'[q][c] \subseteq buffer[q][c]
        /\ UNCHANGED <<stored, times>> /\ faults' = faults + 1
    BY <1>1 DEF Crash, TypeInv, TypeOK
  <2>2. times \in [Id -> Nat] /\ faults \in Nat
    BY DEF TypeInv, TypeOK
  <2>3. \A q \in Process, c \in CF : \A m \in buffer[q][c] : m.id \in Id
    BY DEF TypeInv, TypeOK, MutationSet
  <2>4. QED
    BY <2>1, <2>2, <2>3 DEF TimesInv, AppliedAtMostOnce
<1>2. CASE UNCHANGED vars
  BY <1>2 DEF vars, storeVars, TimesInv, AppliedAtMostOnce
<1>3. QED
  BY <1>1, <1>2, TimesStep DEF Next, AllDone

\* The initial state has written nothing.
LEMMA InitCounts == Init => CursorInv /\ TimesInv
<1> SUFFICES ASSUME Init PROVE CursorInv /\ TimesInv
  OBVIOUS
<1>1. Written = {}
  BY DEF Init, Written
<1>2. QED
  BY <1>1 DEF Init, CursorInv, TimesInv, AppliedAtMostOnce

\* However many requests flush the batch a counter mutation is in, and whatever
\* crashes between, Cassandra adds the mutation once; each further time costs a
\* send that failed.
THEOREM CountedOnce == Spec => []AppliedAtMostOnce
<1>1. Spec => [](TypeInv /\ CursorInv /\ TimesInv)
  BY InitType, InitCounts, NextType, CursorNext, TimesNext, PTL DEF Spec
<1>2. TimesInv => AppliedAtMostOnce
  BY DEF TimesInv
<1>3. QED
  BY <1>1, <1>2, PTL

-------------------------------------------------------------------------------
(* A histogram counts the samples of a write once. *)

\* Row k of item i of request r aggregates this window.
Aggregates(r, i, k, win) ==
    /\ k \in 1..Len(Rows[payload[r][i].series])
    /\ Rows[payload[r][i].series][k].type = "aggregation"
    /\ Rows[payload[r][i].series][k].window = win

\* The request of write w has passed the aggregation of this window.
HistBehind(w, win) ==
    \E k \in Nat : Aggregates(w[1], w[2], k, win) /\ Behind(w[1], w[2], k)

\* A write is in an aggregation only if its request has passed that aggregation.
OnceInv ==
    /\ HistogramCountedOnce
    /\ \A m \in Written, w \in Write :
            m.cell.summary = "aggregation" /\ m.hist[w] # 0 => HistBehind(w, m.cell.freq)
    /\ \A r \in Request : pc[r] = "insert" => \A w \in Write :
            /\ got[r].hist[w] <= 1
            /\ CurRow(r).type = "aggregation" /\ got[r].hist[w] # 0 =>
                    w = <<r, item[r]>> \/ HistBehind(w, CurRow(r).window)
    /\ \A r \in Request, win \in Window : \A h \in cache[r][win] : \A w \in Write : h[w] <= 1

\* No event type of a metadata object has the same summary twice.  The table has no
\* such constraint: a client that registers one twice has its samples counted twice.
NoRepeatedRow ==
    \A s \in Series : \A j, k \in 1..Len(Rows[s]) : Rows[s][j] = Rows[s][k] => j = k

\* A passed aggregation stays passed.
LEMMA HistBehindStep ==
    ASSUME TypeInv, NEW r \in Request, Step(r), NEW w \in Write, NEW win, HistBehind(w, win)
    PROVE  HistBehind(w, win)'
<1>1. w[1] \in Request /\ w[2] \in Nat /\ payload' = payload
  BY PayloadUnchanged, TimeSeriesAssumption DEF Write
<1>2. PICK k \in Nat : Aggregates(w[1], w[2], k, win) /\ Behind(w[1], w[2], k)
  BY DEF HistBehind
<1>3. Behind(w[1], w[2], k)'
  BY <1>1, <1>2, BehindStep
<1>4. Aggregates(w[1], w[2], k, win)'
  BY <1>1, <1>2 DEF Aggregates
<1>5. QED
  BY <1>3, <1>4 DEF HistBehind

\* A request at an aggregation has not passed another one of the same window.
LEMMA NotPassedYet ==
    ASSUME TypeInv, NoRepeatedRow, NEW r \in Request, pc[r] = "rows",
           row[r] <= Len(CurRows(r)), CurRow(r).type = "aggregation",
           HistBehind(<<r, item[r]>>, CurRow(r).window)
    PROVE  FALSE
<1>1. PICK k \in Nat : Aggregates(r, item[r], k, CurRow(r).window) /\ Behind(r, item[r], k)
  BY DEF HistBehind
<1>2. row[r] \in 1..Len(CurRows(r)) /\ k \in 1..Len(CurRows(r)) /\ item[r] \in Int
  <2>1. row[r] \in 1..Len(CurRows(r))
    BY CurRowType DEF TypeInv
  <2>2. k \in 1..Len(CurRows(r))
    BY <1>1 DEF Aggregates, CurRows, CurItem
  <2>3. item[r] \in Int
    BY CurItemType DEF TypeInv
  <2>4. QED
    BY <2>1, <2>2, <2>3
<1>3. CurItem(r).series \in Series /\ CurRows(r) \in Seq(Row)
  BY CurItemType DEF TypeInv, Item
<1>4. CurRows(r)[k] \in Row /\ CurRow(r) \in Row
  BY <1>2, <1>3 DEF CurRow
<1>5. CurRows(r)[k].type = CurRow(r).type /\ CurRows(r)[k].window = CurRow(r).window
  BY <1>1 DEF Aggregates, CurRows, CurItem
<1>6. CurRows(r)[k] = CurRows(r)[row[r]]
  BY <1>4, <1>5 DEF Row, CurRow
<1>7. k = row[r]
  BY <1>2, <1>3, <1>6 DEF NoRepeatedRow, CurRows
<1>8. QED
  BY <1>1, <1>2, <1>7 DEF Behind

\* What a request adds of its own: the samples of the item it is at, once.
LEMMA OwnHistOnce ==
    ASSUME TypeInv, NEW r \in Request, NEW w \in Write
    PROVE  /\ OwnHist(r)[w] \in {0, 1}
           /\ OwnHist(r)[w] # 0 => w = <<r, item[r]>>
BY DEF OwnHist, EmptyHist

\* The union of the stored histogram and the item's own counts no write twice.
LEMMA UnionOnce ==
    ASSUME TypeInv, OnceInv, NoRepeatedRow, NEW r \in Request, pc[r] = "rows",
           row[r] <= Len(CurRows(r)), Adds(r), NEW w \in Write
    PROVE  /\ Union(r)[w] <= 1
           /\ Union(r)[w] # 0 => w = <<r, item[r]>> \/ HistBehind(w, CurRow(r).window)
<1> DEFINE m == Latest(CurCell(r))
<1>1. m \in stored /\ m.cell = CurCell(r)
  BY LatestInCell DEF Adds, InCell
<1>2. m \in Written /\ m.hist \in Hist
  BY <1>1 DEF Written, TypeInv, TypeOK, MutationSet
<1>3. m.cell.summary = "aggregation" /\ m.cell.freq = CurRow(r).window
  BY <1>1 DEF CurCell, Cell, Adds
<1>4. Union(r)[w] = OwnHist(r)[w] + m.hist[w]
  BY DEF Union, SumHist
<1>5. /\ m.hist[w] \in Nat /\ m.hist[w] <= 1
      /\ m.hist[w] # 0 => HistBehind(w, CurRow(r).window)
  BY <1>2, <1>3 DEF OnceInv, HistogramCountedOnce, Hist
<1>6. w = <<r, item[r]>> => m.hist[w] = 0
  BY <1>5, NotPassedYet DEF Adds
<1> HIDE DEF m
<1>7. QED
  BY <1>4, <1>5, <1>6, OwnHistOnce

\* What a request is about to insert counts no write twice.
LEMMA SummaryOnce ==
    ASSUME TypeInv, OnceInv, NoRepeatedRow, NEW r \in Request, pc[r] = "rows",
           row[r] <= Len(CurRows(r)), NEW w \in Write
    PROVE  /\ Histogram(r)[w] <= 1
           /\ CurRow(r).type = "aggregation" /\ Histogram(r)[w] # 0 =>
                w = <<r, item[r]>> \/ HistBehind(w, CurRow(r).window)
<1>1. CASE Adds(r)
  <2>1. Histogram(r) = Union(r)
    BY <1>1 DEF Histogram, Adds
  <2>2. QED
    BY <1>1, <2>1, UnionOnce
<1>2. CASE ~ Adds(r) /\ CurRow(r).type = "statistics"
  <2>1. CurRow(r).window \in Window
    BY CurRowType DEF TypeInv, Row
  <2>2. StatisticsInput(r) = OwnHist(r) \/ StatisticsInput(r) \in cache[r][CurRow(r).window]
    BY DEF StatisticsInput
  <2>3. StatisticsInput(r)[w] <= 1
    BY <2>1, <2>2, OwnHistOnce DEF OnceInv
  <2>4. QED
    BY <1>2, <2>3 DEF Histogram
<1>3. CASE ~ Adds(r) /\ CurRow(r).type # "statistics"
  BY <1>3, OwnHistOnce DEF Histogram
<1>4. QED
  BY <1>1, <1>2, <1>3

\* The cursor of the cache: what a step leaves in local_cache.
LEMMA CacheStep ==
    ASSUME TypeInv, NEW r \in Request, Step(r), NEW q \in Request, NEW win \in Window
    PROVE  \/ cache'[q][win] = cache[q][win]
           \/ q = r /\ Accept(r) /\ cache'[q][win] = {}
           \/ /\ q = r /\ Summarise(r) /\ Adds(r) /\ win = CurRow(r).window
              /\ cache'[q][win] = {Union(r)}
<1>1. cache \in [Request -> [Window -> SUBSET Hist]]
  BY DEF TypeInv, TypeOK
<1>2. CASE Accept(r)
  BY <1>1, <1>2 DEF Accept
<1>3. CASE Summarise(r)
  BY <1>1, <1>3 DEF Summarise
<1>4. CASE UNCHANGED cache
  BY <1>4
<1>5. QED
  BY <1>2, <1>3, <1>4 DEF Step, Begin, Malformed, Conflict, Skip, Invalid, NoSamples,
     Insert, Commit, Flush

\* A request comes to an insert by summarising, and keeps what it is about to insert.
LEMMA InsertStep ==
    ASSUME TypeInv, NEW r \in Request, Step(r), NEW q \in Request, pc'[q] = "insert"
    PROVE  /\ CurRow(q)' = CurRow(q) /\ item'[q] = item[q] /\ CurItem(q)' = CurItem(q)
           /\ \/ q # r /\ pc[q] = "insert" /\ got'[q] = got[q]
              \/ q = r /\ Summarise(r) /\ got'[q].hist = Histogram(r)
<1>1. payload' = payload
  BY PayloadUnchanged
<1>2. CASE q = r
  <2>1. Summarise(r)
    BY <1>2 DEF Step, Begin, Malformed, Conflict, Accept, Skip, Invalid, NoSamples,
       Insert, NextRow, Commit, Flush, CF, Finish, TypeInv, TypeOK
  <2>2. UNCHANGED <<item, row>> /\ got'[r].hist = Histogram(r)
    BY <2>1 DEF Summarise, TypeInv, TypeOK
  <2>3. QED
    BY <1>1, <1>2, <2>1, <2>2 DEF CurRow, CurRows, CurItem
<1>3. CASE q # r
  <2>1. pc[q] = "insert" /\ item'[q] = item[q] /\ row'[q] = row[q] /\ got'[q] = got[q]
    BY <1>3, OthersUnchanged
  <2>2. QED
    BY <1>1, <1>3, <2>1 DEF CurRow, CurRows, CurItem
<1>4. QED
  BY <1>2, <1>3

\* A step counts no write twice.
LEMMA OnceStep ==
    ASSUME TypeInv, CursorInv, OnceInv, NoRepeatedRow, NEW r \in Request, Step(r)
    PROVE  OnceInv'
<1>1. payload' = payload
  BY PayloadUnchanged
<1>2. ASSUME NEW m \in Written', NEW w \in Write
      PROVE  /\ m.hist[w] <= 1
             /\ m.cell.summary = "aggregation" /\ m.hist[w] # 0 => HistBehind(w, m.cell.freq)'
  <2>1. CASE m \in Written
    BY <2>1, HistBehindStep DEF OnceInv, HistogramCountedOnce
  <2>2. CASE Insert(r) /\ m = Mutation(r)
    <3>1. /\ pc[r] = "insert" /\ m.hist = got[r].hist
          /\ m.cell.summary = CurRow(r).type /\ m.cell.freq = CurRow(r).window
      BY <2>2 DEF Insert, Mutation, CurCell, Cell
    <3>2. m.hist[w] <= 1
      BY <3>1 DEF OnceInv
    <3>3. ASSUME m.cell.summary = "aggregation", m.hist[w] # 0
          PROVE  HistBehind(w, m.cell.freq)'
      <4>1. CASE HistBehind(w, m.cell.freq)
        BY <4>1, HistBehindStep
      <4>2. CASE w = <<r, item[r]>>
        <5>1. OneBehind(m)' /\ m.id = <<r, item[r], row[r]>>
          BY <2>2, InsertBehind DEF Mutation
        <5>2. row[r] \in Nat /\ row[r] \in 1..Len(CurRows(r))
          BY <3>1, CurRowType DEF TypeInv, TypeOK
        <5>3. Aggregates(r, item[r], row[r], m.cell.freq)
          BY <3>1, <3>3, <5>2 DEF Aggregates, CurRow, CurRows, CurItem
        <5>4. m.id[3] \in Nat /\ Aggregates(w[1], w[2], m.id[3], m.cell.freq)'
          <6>1. PICK i, k, win : i = item[r] /\ k = row[r] /\ win = m.cell.freq
            OBVIOUS
          <6>2. w[1] = r /\ w[2] = i /\ m.id[3] = k /\ k \in Nat
            BY <4>2, <5>1, <5>2, <6>1
          <6>3. Aggregates(r, i, k, win)
            BY <5>3, <6>1
          <6>4. Aggregates(r, i, k, win)'
            BY <1>1, <6>3 DEF Aggregates
          <6>5. QED
            BY <6>1, <6>2, <6>4
        <5>5. Behind(w[1], w[2], m.id[3])'
          BY <4>2, <5>1 DEF OneBehind
        <5>6. QED
          BY <5>4, <5>5 DEF HistBehind
      <4>3. QED
        BY <3>1, <3>3, <4>1, <4>2 DEF OnceInv
    <3>4. QED
      BY <3>2, <3>3
  <2>3. QED
    BY <1>2, <2>1, <2>2, WrittenStep
<1>3. ASSUME NEW q \in Request, pc'[q] = "insert", NEW w \in Write
      PROVE  /\ got'[q].hist[w] <= 1
             /\ CurRow(q)'.type = "aggregation" /\ got'[q].hist[w] # 0 =>
                    w = <<q, item'[q]>> \/ HistBehind(w, CurRow(q).window)'
  <2>1. CurRow(q)' = CurRow(q) /\ item'[q] = item[q]
    BY <1>3, InsertStep
  <2>2. /\ got'[q].hist[w] <= 1
        /\ CurRow(q).type = "aggregation" /\ got'[q].hist[w] # 0 =>
              w = <<q, item[q]>> \/ HistBehind(w, CurRow(q).window)
    <3>1. CASE q # r /\ pc[q] = "insert" /\ got'[q] = got[q]
      BY <3>1 DEF OnceInv
    <3>2. CASE q = r /\ Summarise(r) /\ got'[q].hist = Histogram(r)
      BY <3>2, SummaryOnce DEF Summarise, Writing
    <3>3. QED
      BY <1>3, <3>1, <3>2, InsertStep
  <2>3. PICK win : win = CurRow(q).window
    OBVIOUS
  <2>4. CurRow(q)'.window = win
    BY <2>1, <2>3
  <2>5. HistBehind(w, win) => HistBehind(w, CurRow(q).window)'
    BY <2>4, HistBehindStep DEF HistBehind
  <2>6. QED
    BY <2>1, <2>2, <2>3, <2>5
<1>4. ASSUME NEW q \in Request, NEW win \in Window, NEW h \in cache'[q][win], NEW w \in Write
      PROVE  h[w] <= 1
  <2>1. CASE h \in cache[q][win]
    BY <2>1 DEF OnceInv
  <2>2. CASE Summarise(r) /\ Adds(r) /\ h = Union(r)
    BY <2>2, UnionOnce DEF Summarise, Writing
  <2>3. QED
    BY <1>4, <2>1, <2>2, CacheStep
<1>5. QED
  BY <1>2, <1>3, <1>4 DEF OnceInv, HistogramCountedOnce

\* A passed aggregation stays passed when requests end.
LEMMA HistBehindEnd ==
    ASSUME UNCHANGED <<payload, item, row>>,
           \A q \in Request : pc'[q] = pc[q] \/ pc'[q] = "done",
           NEW w \in Write, NEW win, HistBehind(w, win)
    PROVE  HistBehind(w, win)'
<1>1. w[1] \in Request
  BY DEF Write
<1>2. PICK k \in Nat : Aggregates(w[1], w[2], k, win) /\ Behind(w[1], w[2], k)
  BY DEF HistBehind
<1>3. Behind(w[1], w[2], k)' /\ Aggregates(w[1], w[2], k, win)'
  BY <1>1, <1>2 DEF Behind, Aggregates
<1>4. QED
  BY <1>3 DEF HistBehind

\* What a crash leaves of the requests and the stores.
LEMMA EndOnly ==
    ASSUME TypeInv, (\E p \in Process : Crash(p)) \/ UNCHANGED vars
    PROVE  /\ UNCHANGED <<payload, item, row, got, cache>> /\ Written' \subseteq Written
           /\ \A q \in Request : pc'[q] = pc[q] \/ pc'[q] = "done"
<1>1. ASSUME NEW p \in Process, Crash(p)
      PROVE  /\ UNCHANGED <<payload, item, row, got, cache>> /\ Written' \subseteq Written
             /\ \A q \in Request : pc'[q] = pc[q] \/ pc'[q] = "done"
  BY <1>1, WrittenCrash DEF Crash
<1>2. CASE UNCHANGED vars
  BY <1>2 DEF vars, requestVars, storeVars, Written
<1>3. QED
  BY <1>1, <1>2

\* The invariant behind HistogramCountedOnce is inductive.
LEMMA OnceNext ==
    ASSUME NoRepeatedRow
    PROVE  TypeInv /\ CursorInv /\ OnceInv /\ [Next]_vars => OnceInv'
<1> SUFFICES ASSUME TypeInv, CursorInv, OnceInv, [Next]_vars PROVE OnceInv'
  OBVIOUS
<1>1. CASE (\E p \in Process : Crash(p)) \/ UNCHANGED vars
  <2>1. /\ UNCHANGED <<payload, item, row, got, cache>> /\ Written' \subseteq Written
        /\ \A q \in Request : pc'[q] = pc[q] \/ pc'[q] = "done"
    BY <1>1, EndOnly
  <2>2. \A w \in Write : \A win : HistBehind(w, win) => HistBehind(w, win)'
    BY <2>1, HistBehindEnd
  <2>3. ASSUME NEW r \in Request, pc'[r] = "insert", NEW w \in Write
        PROVE  /\ got'[r].hist[w] <= 1
               /\ CurRow(r)'.type = "aggregation" /\ got'[r].hist[w] # 0 =>
                      w = <<r, item'[r]>> \/ HistBehind(w, CurRow(r).window)'
    <3>1. PICK win : win = CurRow(r).window
      OBVIOUS
    <3>2. CurRow(r)' = CurRow(r) /\ CurRow(r)'.window = win
      BY <2>1, <3>1 DEF CurRow, CurRows, CurItem
    <3>3. HistBehind(w, win) => HistBehind(w, CurRow(r).window)'
      BY <2>2, <3>2 DEF HistBehind
    <3>4. QED
      BY <2>1, <2>3, <3>1, <3>2, <3>3 DEF OnceInv
  <2>4. \A m \in Written', w \in Write :
            m.cell.summary = "aggregation" /\ m.hist[w] # 0 => HistBehind(w, m.cell.freq)'
    BY <2>1, <2>2 DEF OnceInv
  <2>5. QED
    BY <2>1, <2>3, <2>4 DEF OnceInv, HistogramCountedOnce
<1>2. QED
  BY <1>1, OnceStep DEF Next, AllDone

\* At the start no histogram is written, about to be inserted or cached.
LEMMA InitOnce == Init => OnceInv
<1> SUFFICES ASSUME Init PROVE OnceInv
  OBVIOUS
<1>1. Written = {}
  BY DEF Init, Written
<1>2. QED
  BY <1>1 DEF Init, OnceInv, HistogramCountedOnce

\* Although aggregation() reads the stored histogram and inserts the union only
\* later, with other requests' reads and sends between, no histogram ever counts the
\* samples of a write twice, as long as no summary is registered twice.
THEOREM SamplesCountedOnce == NoRepeatedRow => (Spec => []HistogramCountedOnce)
<1> SUFFICES ASSUME NoRepeatedRow PROVE Spec => []HistogramCountedOnce
  OBVIOUS
<1>1. TypeInv /\ CursorInv /\ OnceInv /\ [Next]_vars => OnceInv'
  BY OnceNext
<1>2. Spec => [](TypeInv /\ CursorInv /\ OnceInv)
  BY <1>1, InitType, InitCounts, InitOnce, NextType, CursorNext, PTL DEF Spec
<1>3. OnceInv => HistogramCountedOnce
  BY DEF OnceInv
<1>4. QED
  BY <1>2, <1>3, PTL

-------------------------------------------------------------------------------
(* Statistics describe what was aggregated. *)

\* What statistics() of this window would take as its histogram now.
StatHist(r, win) ==
    IF cache[r][win] # {} THEN CHOOSE h \in cache[r][win] : TRUE ELSE OwnHist(r)

\* local_cache holds the union of a window only after the item's aggregation of
\* that window ...
CacheInv ==
    \A r \in Request, win \in Window :
        pc[r] \in {"rows", "insert"} /\ cache[r][win] # {} =>
            \E k \in Nat : /\ Aggregates(r, item[r], k, win)
                           /\ k < row[r] \/ (pc[r] = "insert" /\ k = row[r])

\* ... and the summaries of a window that the item has written so far, or is about
\* to write, hold what statistics() would take.
StatInv ==
    /\ CacheInv
    /\ StatisticsMatchAggregation
    /\ \A r \in Request, m \in Written :
            /\ pc[r] \in {"rows", "insert"} /\ CurType(r) = "histogram"
            /\ m.id[1] = r /\ m.id[2] = item[r]
            /\ m.cell.summary \in {"aggregation", "statistics"} /\ m.cell.freq # 0
            => m.hist = StatHist(r, m.cell.freq)
    /\ \A r \in Request :
            /\ pc[r] = "insert" /\ CurType(r) = "histogram"
            /\ CurRow(r).type \in {"aggregation", "statistics"} /\ CurRow(r).window # 0
            => got[r].hist = StatHist(r, CurRow(r).window)

\* An aggregation that is kept raw is one of histograms.
LEMMA RawAggregation ==
    ASSUME TypeInv, NEW r \in Request, NEW i \in Nat, NEW k \in Nat, Due(r, i, k),
           Target(r, i, k) = "raw", Rows[payload[r][i].series][k].type = "aggregation"
    PROVE  DataType[payload[r][i].series] = "histogram"
<1>1. payload[r] \in Seq(Item) /\ i \in 1..Len(payload[r])
  BY TimeSeriesAssumption DEF TypeInv, TypeOK, Due
<1>2. payload[r][i] \in Item
  BY <1>1
<1>3. DataType[payload[r][i].series] \in DOMAIN EVENT_TYPE_CF_MAP
  BY <1>2, TimeSeriesAssumption DEF Item
<1>4. QED
  BY <1>3 DEF Due, Allowed, Target, SummaryCF, EVENT_TYPE_CF_MAP, ALLOWED_SUMMARIES

\* At an aggregation, the item has written no summary of that window yet, nor
\* cached its union.
LEMMA FirstOfWindow ==
    ASSUME TypeInv, CursorInv, CacheInv, NoRepeatedRow, NEW r \in Request, pc[r] = "rows",
           row[r] <= Len(CurRows(r)), CurRow(r).type = "aggregation"
    PROVE  /\ cache[r][CurRow(r).window] = {}
           /\ \A m \in Written :
                /\ m.id[1] = r /\ m.id[2] = item[r]
                /\ m.cell.summary \in {"aggregation", "statistics"}
                => m.cell.freq # CurRow(r).window
<1>1. row[r] \in 1..Len(CurRows(r)) /\ CurRow(r) \in Row /\ item[r] \in Nat
  BY CurRowType DEF TypeInv, TypeOK
<1>2. CurItem(r).series \in Series /\ CurRows(r) \in Seq(Row)
  BY CurItemType DEF TypeInv, Item
<1>3. ASSUME NEW k \in Nat, Aggregates(r, item[r], k, CurRow(r).window), k < row[r]
      PROVE  FALSE
  <2>1. Behind(r, item[r], k)
    BY <1>3 DEF Behind
  <2>2. HistBehind(<<r, item[r]>>, CurRow(r).window)
    BY <1>3, <2>1 DEF HistBehind
  <2>3. QED
    BY <2>2, NotPassedYet
<1>4. cache[r][CurRow(r).window] = {}
  BY <1>1, <1>3 DEF CacheInv, Row
<1>5. ASSUME NEW m \in Written, m.id[1] = r, m.id[2] = item[r],
             m.cell.summary \in {"aggregation", "statistics"},
             m.cell.freq = CurRow(r).window
      PROVE  FALSE
  <2> DEFINE k == m.id[3]
  <2>1. k \in Nat /\ Due(r, item[r], k) /\ IsFor(m, r, item[r], k) /\ Behind(r, item[r], k)
    BY <1>5, IdParts DEF CursorInv, OneBehind
  <2> HIDE DEF k
  <2>2. k < row[r]
    BY <1>1, <2>1 DEF Behind
  <2>3. k \in 1..Len(CurRows(r))
    BY <2>1 DEF Due, CurRows, CurItem
  <2>4. CurRows(r)[k].type = m.cell.summary /\ CurRows(r)[k].window = m.cell.freq
    BY <2>1 DEF IsFor, Cell, CurRows, CurItem
  <2>5. /\ k \in 1..Len(CurRows(r)) /\ k < row[r]
        /\ CurRows(r)[k].type = m.cell.summary /\ CurRows(r)[k].window = m.cell.freq
    BY <2>2, <2>3, <2>4
  <2>6. CurRows(r)[k].type = "aggregation"
    BY <1>1, <1>2, <2>5, RowOrderAssumption DEF CurRows, CurRow
  <2>7. Aggregates(r, item[r], k, CurRow(r).window)
    BY <1>5, <2>5, <2>6 DEF Aggregates, CurRows, CurItem
  <2>8. QED
    BY <1>3, <2>1, <2>5, <2>7
<1>6. QED
  BY <1>4, <1>5

\* What a step does to local_cache, and to where it was filled.
LEMMA CacheInvStep ==
    ASSUME TypeInv, CacheInv, NEW r \in Request, Step(r)
    PROVE  CacheInv'
<1>1. payload' = payload
  BY PayloadUnchanged
<1>2. SUFFICES ASSUME NEW q \in Request, NEW win \in Window,
                      pc'[q] \in {"rows", "insert"}, cache'[q][win] # {}
               PROVE  \E k \in Nat : /\ Aggregates(q, item[q], k, win)'
                                     /\ k < row'[q] \/ (pc'[q] = "insert" /\ k = row'[q])
  BY DEF CacheInv
<1>3. ASSUME pc[q] \in {"rows", "insert"}, cache[q][win] # {}, item'[q] = item[q],
             \/ row'[q] = row[q] + 1
             \/ row'[q] = row[q] /\ (pc[q] = "insert" => pc'[q] = "insert")
      PROVE  \E k \in Nat : /\ Aggregates(q, item[q], k, win)'
                            /\ k < row'[q] \/ (pc'[q] = "insert" /\ k = row'[q])
  <2>1. PICK k \in Nat : /\ Aggregates(q, item[q], k, win)
                         /\ k < row[q] \/ (pc[q] = "insert" /\ k = row[q])
    BY <1>3 DEF CacheInv
  <2>2. Aggregates(q, item[q], k, win)'
    BY <1>1, <1>3, <2>1 DEF Aggregates
  <2>3. row[q] \in Nat
    BY DEF TypeInv, TypeOK
  <2>4. QED
    BY <1>3, <2>1, <2>2, <2>3
<1>4. CASE q # r
  BY <1>2, <1>3, <1>4, OthersUnchanged, CacheStep
<1>5. CASE q = r
  <2>1. CASE Accept(r)
    BY <1>2, <1>5, <2>1 DEF Accept, TypeInv, TypeOK
  <2>2. CASE Summarise(r)
    <3>1. /\ pc[r] = "rows" /\ pc'[r] = "insert" /\ UNCHANGED <<item, row>>
          /\ row[r] <= Len(CurRows(r))
      BY <2>2 DEF Summarise, Writing, TypeInv, TypeOK
    <3>2. CASE cache'[q][win] = cache[q][win]
      BY <1>2, <1>3, <1>5, <3>1, <3>2
    <3>3. CASE Adds(r) /\ win = CurRow(r).window
      <4>1. row[r] \in Nat /\ row[r] \in 1..Len(CurRows(r))
        BY <3>1, CurRowType DEF TypeInv, TypeOK
      <4>2. Aggregates(r, item[r], row[r], win)
        BY <3>3, <4>1 DEF Aggregates, Adds, CurRow, CurRows, CurItem
      <4>3. \A k : k = row[r] => Aggregates(r, item[r], k, win)'
        BY <1>1, <3>1, <4>2 DEF Aggregates
      <4>4. QED
        BY <1>5, <3>1, <4>1, <4>3
    <3>4. QED
      BY <1>2, <1>5, <2>2, <3>2, <3>3, CacheStep DEF Accept, Summarise, Writing
  <2>3. CASE Skip(r) \/ Insert(r)
    <3>1. /\ UNCHANGED <<item, cache>> /\ row'[r] = row[r] + 1
          /\ pc[r] \in {"rows", "insert"}
      BY <2>3 DEF Skip, Insert, TypeInv, TypeOK
    <3>2. QED
      BY <1>2, <1>3, <1>5, <3>1
  <2>4. CASE pc'[r] \notin {"rows", "insert"}
    BY <1>2, <1>5, <2>4
  <2>5. QED
    BY <2>1, <2>2, <2>3, <2>4 DEF Step, Begin, Malformed, Conflict, Invalid, NoSamples,
       Commit, Flush, CF, Finish, TypeInv, TypeOK
<1>6. QED
  BY <1>4, <1>5

\* What statistics() would take changes only at an aggregation of its window.
LEMMA StatHistStep ==
    ASSUME TypeInv, NEW r \in Request, Step(r), NEW q \in Request, NEW win \in Window,
           pc[q] \in {"rows", "insert"}, pc'[q] \in {"rows", "insert"},
           ~ (q = r /\ Summarise(r) /\ Adds(r) /\ win = CurRow(r).window)
    PROVE  /\ StatHist(q, win)' = StatHist(q, win) /\ item'[q] = item[q]
           /\ CurItem(q)' = CurItem(q) /\ CurType(q)' = CurType(q)
<1>1. payload' = payload
  BY PayloadUnchanged
<1>2. item'[q] = item[q]
  <2>1. CASE q # r
    BY <2>1, OthersUnchanged
  <2>2. CASE q = r
    BY <2>2 DEF Step, Begin, Malformed, Conflict, Accept, Skip, Invalid, Summarise, NoSamples,
       Insert, Commit, Flush, TypeInv, TypeOK
  <2>3. QED
    BY <2>1, <2>2
<1>3. CurItem(q)' = CurItem(q) /\ CurType(q)' = CurType(q)
  BY <1>1, <1>2 DEF CurItem, CurType
<1>4. OwnHist(q)' = OwnHist(q)
  BY <1>2, <1>3 DEF OwnHist
<1>5. cache'[q][win] = cache[q][win]
  BY CacheStep DEF Accept
<1>6. QED
  BY <1>2, <1>3, <1>4, <1>5 DEF StatHist

\* What is about to be inserted for a window is what statistics() would take.
LEMMA SummaryStat ==
    ASSUME TypeInv, CursorInv, StatInv, NoRepeatedRow, NEW r \in Request, Summarise(r),
           CurRow(r).type \in {"aggregation", "statistics"}, CurRow(r).window # 0,
           CurType(r) = "histogram"
    PROVE  Histogram(r) = StatHist(r, CurRow(r).window)'
<1>1. pc[r] = "rows" /\ row[r] <= Len(CurRows(r)) /\ UNCHANGED <<payload, item>>
  BY DEF Summarise, Writing
<1>2. CurRow(r).window \in Window
  BY <1>1, CurRowType DEF TypeInv, Row
<1>3. OwnHist(r)' = OwnHist(r) /\ CurRow(r)' = CurRow(r)
  BY <1>1 DEF OwnHist, CurItem, Summarise, CurRow, CurRows
<1>4. cache \in [Request -> [Window -> SUBSET Hist]]
  BY DEF TypeInv, TypeOK
<1>5. CASE Adds(r)
  <2>1. cache'[r][CurRow(r).window] = {Union(r)}
    BY <1>2, <1>4, <1>5 DEF Summarise
  <2>2. Histogram(r) = Union(r)
    BY <1>5 DEF Histogram, Adds
  <2>3. QED
    BY <1>3, <2>1, <2>2 DEF StatHist
<1>6. CASE ~ Adds(r) /\ CurRow(r).type = "aggregation"
  <2>1. cache' = cache /\ cache[r][CurRow(r).window] = {}
    BY <1>1, <1>6, FirstOfWindow DEF Summarise, StatInv
  <2>2. Histogram(r) = OwnHist(r)
    BY <1>6 DEF Histogram
  <2>3. QED
    BY <1>3, <2>1, <2>2 DEF StatHist
<1>7. CASE CurRow(r).type = "statistics"
  <2>1. cache' = cache /\ Histogram(r) = StatisticsInput(r)
    BY <1>7 DEF Summarise, Adds, Histogram
  <2>2. QED
    BY <1>3, <2>1 DEF StatHist, StatisticsInput
<1>8. QED
  BY <1>5, <1>6, <1>7

\* The row of what is written.
LEMMA WrittenRow ==
    ASSUME TypeInv, NEW m, m \in MutationSet, OneBehind(m)
    PROVE  /\ m.cell.freq \in Window
           /\ m.cell.summary = Rows[payload[m.id[1]][m.id[2]].series][m.id[3]].type
           /\ m.cell.series = payload[m.id[1]][m.id[2]].series
           /\ m.cf = "raw" /\ m.cell.summary = "aggregation" =>
                DataType[payload[m.id[1]][m.id[2]].series] = "histogram"
<1> DEFINE r == m.id[1]  i == m.id[2]  k == m.id[3]  s == payload[r][i].series
<1>1. r \in Request /\ i \in Nat /\ k \in Nat
  BY TimeSeriesAssumption DEF MutationSet, Id
<1>2. Due(r, i, k) /\ IsFor(m, r, i, k) /\ m.cf = Target(r, i, k)
  BY DEF OneBehind
<1> HIDE DEF r, i, k
<1>3. payload[r] \in Seq(Item) /\ i \in 1..Len(payload[r])
  BY <1>1, <1>2, TimeSeriesAssumption DEF TypeInv, TypeOK, Due
<1>4. payload[r][i] \in Item
  BY <1>3
<1>5. s \in Series /\ k \in 1..Len(Rows[s])
  BY <1>2, <1>4 DEF Item, Due
<1>6. Rows[s][k] \in Row
  BY <1>5, TimeSeriesAssumption
<1>7. m.cell.freq = Rows[s][k].window /\ m.cell.summary = Rows[s][k].type /\ m.cell.series = s
  BY <1>2 DEF IsFor, Cell
<1>8. m.cf = "raw" /\ m.cell.summary = "aggregation" => DataType[s] = "histogram"
  BY <1>1, <1>2, <1>7, RawAggregation
<1>9. QED
  BY <1>6, <1>7, <1>8 DEF Row, r, i, k

\* A request is at the rows of an item if it was there before, or has just accepted it.
LEMMA RowsStep ==
    ASSUME TypeInv, NEW r \in Request, Step(r), NEW q \in Request,
           pc'[q] \in {"rows", "insert"}
    PROVE  pc[q] \in {"rows", "insert"} \/ (q = r /\ Accept(r))
<1>1. CASE q # r
  BY <1>1, OthersUnchanged
<1>2. CASE q = r
  BY <1>2 DEF Step, Begin, Malformed, Conflict, Skip, Invalid, Summarise, Writing, NoSamples,
     Insert, Commit, Flush, CF, Finish, TypeInv, TypeOK
<1>3. QED
  BY <1>1, <1>2

\* What an item has written and what it is about to write, against local_cache.
LEMMA StatStepItem ==
    ASSUME TypeInv, CursorInv, StatInv, NoRepeatedRow, NEW r \in Request, Step(r),
           NEW q \in Request, NEW m \in Written', pc'[q] \in {"rows", "insert"},
           CurType(q)' = "histogram", m.id[1] = q, m.id[2] = item'[q],
           m.cell.summary \in {"aggregation", "statistics"}, m.cell.freq # 0
    PROVE  m.hist = StatHist(q, m.cell.freq)'
<1>1. CASE m \in Written
  <2>1. m.cell.freq \in Window /\ OneBehind(m) /\ m.id[2] \in Nat
    BY <1>1, IdParts, WrittenRow DEF CursorInv
  <2>2. ~ (q = r /\ Accept(r))
    <3>1. SUFFICES ASSUME q = r, Accept(r) PROVE FALSE
      OBVIOUS
    <3>2. pc[r] = "check" /\ item' = item
      BY <3>1 DEF Accept
    <3>3. m.id[2] < item[r] /\ item[r] \in Int
      BY <2>1, <3>1, <3>2 DEF OneBehind, Behind, TypeInv, TypeOK
    <3>4. QED
      BY <3>1, <3>2, <3>3
  <2>3. pc[q] \in {"rows", "insert"}
    BY <2>2, RowsStep
  <2>4. CASE q = r /\ Summarise(r) /\ Adds(r) /\ m.cell.freq = CurRow(r).window
    <3>1. pc[r] = "rows" /\ row[r] <= Len(CurRows(r)) /\ item' = item
      BY <2>4 DEF Summarise, Writing
    <3>2. CurRow(r).type = "aggregation"
      BY <2>4 DEF Adds
    <3>3. QED
      BY <1>1, <2>4, <3>1, <3>2, FirstOfWindow DEF StatInv
  <2>5. CASE ~ (q = r /\ Summarise(r) /\ Adds(r) /\ m.cell.freq = CurRow(r).window)
    <3>1. /\ StatHist(q, m.cell.freq)' = StatHist(q, m.cell.freq) /\ item'[q] = item[q]
          /\ CurType(q)' = CurType(q)
      BY <2>1, <2>3, <2>5, StatHistStep
    <3>2. QED
      BY <1>1, <2>3, <3>1 DEF StatInv
  <2>6. QED
    BY <2>4, <2>5
<1>2. CASE Insert(r) /\ m = Mutation(r)
  <2>1. /\ pc[r] = "insert" /\ q = r /\ m.hist = got[r].hist
        /\ m.cell.summary = CurRow(r).type /\ m.cell.freq = CurRow(r).window
    BY <1>2 DEF Insert, Mutation, CurCell, Cell
  <2>2. m.cell.freq \in Window
    BY <2>1, CurRowType DEF TypeInv, TypeOK, Row
  <2>3. ~ Summarise(r)
    BY <2>1 DEF Summarise, Writing
  <2>4. StatHist(q, m.cell.freq)' = StatHist(q, m.cell.freq) /\ CurType(q)' = CurType(q)
    BY <2>1, <2>2, <2>3, StatHistStep
  <2>5. QED
    BY <2>1, <2>4 DEF StatInv
<1>3. QED
  BY <1>1, <1>2, WrittenStep

\* The same for what a request is about to insert.
LEMMA StatStepGot ==
    ASSUME TypeInv, CursorInv, StatInv, NoRepeatedRow, NEW r \in Request, Step(r),
           NEW q \in Request, pc'[q] = "insert", CurType(q)' = "histogram",
           CurRow(q)'.type \in {"aggregation", "statistics"}, CurRow(q)'.window # 0
    PROVE  got'[q].hist = StatHist(q, CurRow(q).window)'
<1>1. CurRow(q)' = CurRow(q) /\ CurType(q)' = CurType(q)
  BY InsertStep DEF CurType
<1>2. CASE q # r /\ pc[q] = "insert" /\ got'[q] = got[q]
  <2>1. PICK win : win = CurRow(q).window
    OBVIOUS
  <2>2. win \in Window
    BY <1>2, <2>1, CurRowType DEF TypeInv, TypeOK, Row
  <2>3. StatHist(q, win)' = StatHist(q, win)
    BY <1>2, <2>2, StatHistStep
  <2>4. CurRow(q)'.window = win
    BY <1>1, <2>1
  <2>5. StatHist(q, CurRow(q).window)' = StatHist(q, win)'
    BY <2>4 DEF StatHist
  <2>6. QED
    BY <1>1, <1>2, <2>1, <2>3, <2>5 DEF StatInv
<1>3. CASE q = r /\ Summarise(r) /\ got'[q].hist = Histogram(r)
  BY <1>1, <1>3, SummaryStat
<1>4. QED
  BY <1>2, <1>3, InsertStep

\* The statistics and the aggregation of one item, one of them just inserted.
LEMMA StatStepPair ==
    ASSUME TypeInv, CursorInv, StatInv, NEW r \in Request, Insert(r),
           NEW m \in Written, NEW n, n = Mutation(r),
           CurType(r) = "histogram",
           m.cell.summary \in {"aggregation", "statistics"},
           n.cell.summary \in {"aggregation", "statistics"},
           m.id[1] = n.id[1], m.id[2] = n.id[2], m.cell.freq = n.cell.freq, m.cell.freq # 0
    PROVE  m.hist = n.hist
<1>1. /\ pc[r] = "insert" /\ n.hist = got[r].hist /\ n.id[1] = r /\ n.id[2] = item[r]
      /\ n.cell.summary = CurRow(r).type /\ n.cell.freq = CurRow(r).window
  BY DEF Insert, Mutation, CurCell, Cell
<1>2. n.hist = StatHist(r, n.cell.freq)
  BY <1>1 DEF StatInv
<1>3. m.hist = StatHist(r, m.cell.freq)
  BY <1>1 DEF StatInv
<1>4. QED
  BY <1>2, <1>3

\* A step keeps the statistics of an item to its aggregation.
LEMMA StatStep ==
    ASSUME TypeInv, CursorInv, StatInv, NoRepeatedRow, NEW r \in Request, Step(r)
    PROVE  StatInv'
<1>1. CacheInv'
  BY CacheInvStep DEF StatInv
<1>2. ASSUME NEW m \in Written', NEW n \in Written',
             m.cell.summary = "aggregation", n.cell.summary = "statistics",
             m.cell.series = n.cell.series,
             <<m.id[1], m.id[2]>> = <<n.id[1], n.id[2]>>,
             m.cell.freq = n.cell.freq, m.cell.freq # 0, m.cf = "raw"
      PROVE  m.hist = n.hist
  <2>1. CASE m \in Written /\ n \in Written
    BY <1>2, <2>1 DEF StatInv, StatisticsMatchAggregation
  <2>2. CASE Insert(r) /\ m \in Written /\ n = Mutation(r)
    <3>1. n.id[1] = r /\ n.id[2] = item[r] /\ m.id[1] = n.id[1] /\ m.id[2] = n.id[2]
      BY <1>2, <2>2 DEF Mutation
    <3>2. OneBehind(m) /\ m \in MutationSet
      BY <2>2, IdParts DEF CursorInv
    <3>3. DataType[payload[m.id[1]][m.id[2]].series] = "histogram"
      BY <1>2, <3>2, WrittenRow
    <3>4. CurType(r) = "histogram"
      BY <3>1, <3>3 DEF CurType, CurItem
    <3>5. QED
      BY <1>2, <2>2, <3>1, <3>4, StatStepPair
  <2>3. CASE Insert(r) /\ m = Mutation(r) /\ n \in Written
    <3>1. m.id[1] = r /\ m.id[2] = item[r] /\ m.id[1] = n.id[1] /\ m.id[2] = n.id[2]
      BY <1>2, <2>3 DEF Mutation
    <3>2. CurRow(r).type = "aggregation" /\ pc[r] = "insert"
      BY <1>2, <2>3 DEF Mutation, CurCell, Cell, Insert
    <3>3. CurType(r) \in DOMAIN EVENT_TYPE_CF_MAP
      BY <3>2, CurItemType DEF TypeInv
    <3>4. Allowed(CurItem(r).series, "aggregation")
      BY <3>2 DEF CursorInv
    <3>5. SummaryCF(CurItem(r).series, "aggregation") = "raw"
      BY <1>2, <2>3, <3>2 DEF Mutation
    <3>6. CurType(r) = "histogram"
      BY <3>3, <3>4, <3>5 DEF Allowed, SummaryCF, CurType, EVENT_TYPE_CF_MAP, ALLOWED_SUMMARIES
    <3>7. QED
      BY <1>2, <2>3, <3>1, <3>6, StatStepPair
  <2>4. QED
    BY <1>2, <2>1, <2>2, <2>3, WrittenStep
<1>3. ASSUME NEW q \in Request, NEW m \in Written', pc'[q] \in {"rows", "insert"},
             CurType(q)' = "histogram", m.id[1] = q, m.id[2] = item'[q],
             m.cell.summary \in {"aggregation", "statistics"}, m.cell.freq # 0
      PROVE  m.hist = StatHist(q, m.cell.freq)'
  BY <1>3, StatStepItem
<1>4. ASSUME NEW q \in Request, pc'[q] = "insert", CurType(q)' = "histogram",
             CurRow(q)'.type \in {"aggregation", "statistics"}, CurRow(q)'.window # 0
      PROVE  got'[q].hist = StatHist(q, CurRow(q).window)'
  BY <1>4, StatStepGot
<1>5. QED
  BY <1>1, <1>2, <1>3, <1>4 DEF StatInv, StatisticsMatchAggregation

\* The invariant behind StatisticsMatchAggregation is inductive.
LEMMA StatNext ==
    ASSUME NoRepeatedRow
    PROVE  TypeInv /\ CursorInv /\ StatInv /\ [Next]_vars => StatInv'
<1> SUFFICES ASSUME TypeInv, CursorInv, StatInv, [Next]_vars PROVE StatInv'
  OBVIOUS
<1>1. CASE (\E p \in Process : Crash(p)) \/ UNCHANGED vars
  <2>1. /\ UNCHANGED <<payload, item, row, got, cache>> /\ Written' \subseteq Written
        /\ \A q \in Request : pc'[q] = pc[q] \/ pc'[q] = "done"
    BY <1>1, EndOnly
  <2>2. CacheInv'
    <3>1. ASSUME NEW q \in Request, NEW win \in Window, pc'[q] \in {"rows", "insert"},
                 cache'[q][win] # {}
          PROVE  \E k \in Nat : /\ Aggregates(q, item[q], k, win)'
                                /\ k < row'[q] \/ (pc'[q] = "insert" /\ k = row'[q])
      <4>1. pc'[q] = pc[q] /\ cache[q][win] # {} /\ item'[q] = item[q] /\ row'[q] = row[q]
        BY <2>1, <3>1
      <4>2. PICK k \in Nat : /\ Aggregates(q, item[q], k, win)
                             /\ k < row[q] \/ (pc[q] = "insert" /\ k = row[q])
        BY <3>1, <4>1 DEF StatInv, CacheInv
      <4>3. Aggregates(q, item[q], k, win)'
        BY <2>1, <4>1, <4>2 DEF Aggregates
      <4>4. QED
        BY <4>1, <4>2, <4>3
    <3>2. QED
      BY <3>1 DEF CacheInv
  <2>3. \A q : /\ CurItem(q)' = CurItem(q) /\ CurRow(q)' = CurRow(q) /\ CurType(q)' = CurType(q)
               /\ OwnHist(q)' = OwnHist(q)
    BY <2>1 DEF CurItem, CurRow, CurRows, CurType, OwnHist
  <2>4. \A q, win : StatHist(q, win)' = StatHist(q, win)
    BY <2>1, <2>3 DEF StatHist
  <2>5. ASSUME NEW q PROVE StatHist(q, CurRow(q).window)' = StatHist(q, CurRow(q).window)
    <3>1. CurRow(q)' = CurRow(q) /\ OwnHist(q)' = OwnHist(q) /\ cache' = cache
      BY <2>1, <2>3
    <3>2. QED
      BY <3>1 DEF StatHist
  <2>6. QED
    BY <2>1, <2>2, <2>3, <2>4, <2>5 DEF StatInv, StatisticsMatchAggregation
<1>2. QED
  BY <1>1, StatStep DEF Next, AllDone

\* The statistics an item stores for a window describe the aggregation it stores for
\* that window, although save() reads the stored histogram for the one only, and other
\* requests change it before the other is computed.
THEOREM StatisticsDescribeAggregation ==
    NoRepeatedRow => (Spec => []StatisticsMatchAggregation)
<1> SUFFICES ASSUME NoRepeatedRow PROVE Spec => []StatisticsMatchAggregation
  OBVIOUS
<1>1. Init => StatInv
  <2> SUFFICES ASSUME Init PROVE StatInv
    OBVIOUS
  <2>1. Written = {}
    BY DEF Init, Written
  <2>2. QED
    BY <2>1 DEF Init, StatInv, CacheInv, StatisticsMatchAggregation
<1>2. TypeInv /\ CursorInv /\ StatInv /\ [Next]_vars => StatInv'
  BY StatNext
<1>3. Spec => [](TypeInv /\ CursorInv /\ StatInv)
  BY <1>1, <1>2, InitType, InitCounts, NextType, CursorNext, PTL DEF Spec
<1>4. StatInv => StatisticsMatchAggregation
  BY DEF StatInv
<1>5. QED
  BY <1>3, <1>4, PTL

-------------------------------------------------------------------------------
(* The summaries of a numeric series and its base points. *)

\* The times that lie in a bin.
LEMMA Binning ==
    ASSUME NEW rw \in Row, rw.type # "base", rw.window > 0, NEW t \in Time, NEW b,
           b = t - (t % rw.window)
    PROVE  /\ BinTime(rw, b) = b
           /\ \A v \in Time : (b <= v /\ v < b + rw.window) <=> BinTime(rw, v) = b
<1>1. Window \subseteq Nat /\ Time \subseteq Nat
  BY TimeSeriesAssumption
<1>2. PICK w \in Nat \ {0} : w = rw.window
  <2>1. PICK w \in Window : w = rw.window /\ w > 0
    BY DEF Row
  <2>2. QED
    BY <1>1, <2>1
<1>3. ASSUME NEW q \in Nat, NEW u \in Nat
      PROVE  /\ q * w <= u /\ u < q * w + w <=> u \div w = q
             /\ u - (u % w) = (u \div w) * w
  OBVIOUS
<1>4. PICK q \in Nat : q = t \div w
  BY <1>1
<1>5. b = q * w /\ b \in Nat
  <2>1. t \in Nat /\ b = t - (t % w)
    BY <1>1, <1>2
  <2>2. t - (t % w) = (t \div w) * w
    BY <1>3, <2>1
  <2>3. QED
    BY <1>4, <2>1, <2>2
<1>6. \A v : BinTime(rw, v) = (v \div w) * w
  BY <1>2 DEF BinTime
<1>7. BinTime(rw, b) = b
  <2>1. b \div w = q
    BY <1>3, <1>5
  <2>2. QED
    BY <1>5, <1>6, <2>1
<1>8. ASSUME NEW v \in Time
      PROVE  (b <= v /\ v < b + rw.window) <=> BinTime(rw, v) = b
  <2>1. v \in Nat
    BY <1>1
  <2>2. PICK d \in Nat : d = v \div w
    BY <2>1
  <2>3. (b <= v /\ v < b + w) <=> d = q
    <3>1. (q * w <= v /\ v < q * w + w) <=> v \div w = q
      BY <1>3, <2>1
    <3>2. QED
      BY <1>5, <2>2, <3>1
  <2>4. d * w = q * w => d = q
    OBVIOUS
  <2>5. BinTime(rw, v) = d * w
    BY <1>6, <2>2
  <2>6. QED
    BY <1>2, <1>5, <2>3, <2>4, <2>5
<1>9. QED
  BY <1>7, <1>8

\* Nothing is written of a value its validator refuses, and without faults a request
\* that is over has written all of the numeric items it has written anything of.
WholeInv ==
    /\ \A r \in Request : pc[r] = "insert" => CurItem(r).val # "invalid"
    /\ \A m \in Written : payload[m.id[1]][m.id[2]].val # "invalid"
    /\ faults = 0 => \A m \in Written :
            pc[m.id[1]] = "done" /\ Numeric(payload[m.id[1]][m.id[2]].series) =>
                \A k \in Nat : Due(m.id[1], m.id[2], k) =>
                    \E n \in Written : IsFor(n, m.id[1], m.id[2], k)

\* Nothing that is written is lost by a step.
LEMMA WrittenStays ==
    ASSUME TypeInv, NEW r \in Request, Step(r)
    PROVE  Written \subseteq Written'
<1>1. stored \subseteq stored'
  BY WrittenStep
<1>2. \A p \in Process, cf \in CF : buffer[p][cf] \subseteq buffer'[p][cf] \cup stored'
  BY BatchKept
<1>3. QED
  BY <1>1, <1>2 DEF Written

\* What a running request has passed is written.
LEMMA PassedIsWritten ==
    ASSUME TypeInv, DurableInv, NEW r \in Request, NEW i \in Nat, NEW k \in Nat,
           Due(r, i, k), Passed(r, i, k)
    PROVE  \E n \in Written : IsFor(n, r, i, k)
<1>1. Kept(r, i, k) /\ Target(r, i, k) \in CF /\ proc[r] \in Process
  BY DueType DEF DurableInv
<1>2. QED
  BY <1>1 DEF Kept, Written

\* A request that ends without a fault has passed every numeric item it wrote of.
LEMMA EndsWhole ==
    ASSUME TypeInv, CursorInv, WholeInv, NEW r \in Request, Step(r), faults' = 0,
           pc[r] # "done", pc'[r] = "done", NEW m \in Written, m.id[1] = r,
           Numeric(payload[r][m.id[2]].series), NEW k \in Nat
    PROVE  Passed(r, m.id[2], k)
<1> DEFINE i == m.id[2]
<1>1. /\ Behind(r, i, m.id[3]) /\ Due(r, i, m.id[3]) /\ i \in Nat
      /\ payload[r][i].val # "invalid"
  BY IdParts DEF CursorInv, OneBehind, WholeInv
<1>2. faults \in Nat /\ item[r] \in Nat /\ row[r] \in Nat
  BY DEF TypeInv, TypeOK
<1> HIDE DEF i
<1>3. CASE i < item[r] /\ pc[r] \in {"check", "rows", "insert"}
  BY <1>3 DEF Passed, i
<1>4. CASE pc[r] \in CF
  BY <1>4 DEF Passed
<1>5. CASE i = item[r] /\ pc[r] \in {"rows", "insert"}
  <2>1. ~ Invalid(r)
    BY <1>1, <1>5 DEF Invalid, CurItem
  <2>2. ~ NoSamples(r)
    <3>1. SUFFICES ASSUME NoSamples(r) PROVE FALSE
      OBVIOUS
    <3>2. Allowed(CurItem(r).series, "statistics")
      BY <3>1 DEF NoSamples, Writing
    <3>3. DataType[CurItem(r).series] \in {"integer", "float", "percentage"}
      BY <1>5 DEF Numeric, CurItem, i
    <3>4. QED
      BY <3>2, <3>3 DEF Allowed, ALLOWED_SUMMARIES
  <2>3. ~ Insert(r)
    BY <1>2 DEF Insert, SendOk, SendFails, NextRow, TypeInv, TypeOK
  <2>4. QED
    BY <1>5, <2>1, <2>2, <2>3 DEF Step, Begin, Malformed, Conflict, Accept, Skip, Summarise,
       Writing, Commit, Flush, CF, Finish, TypeInv, TypeOK
<1>6. QED
  BY <1>1, <1>2, <1>3, <1>4, <1>5 DEF Behind, TypeInv, TypeOK

\* The faults of a run are never taken back.
LEMMA FaultsStay ==
    ASSUME NEW r \in Request, Step(r)
    PROVE  faults' = faults \/ faults' = faults + 1
<1>1. CASE Insert(r)
  BY <1>1 DEF Insert, SendOk, SendFails
<1>2. CASE Flush(r)
  BY <1>2 DEF Flush, SendOk, SendFails
<1>3. QED
  BY <1>1, <1>2 DEF Step, Begin, Malformed, Conflict, Accept, Skip, Invalid, Summarise,
     NoSamples, Commit, storeVars

\* A step leaves no numeric item half written.
LEMMA WholeStep ==
    ASSUME TypeInv, CursorInv, DurableInv, WholeInv, NEW r \in Request, Step(r)
    PROVE  WholeInv'
<1>1. payload' = payload /\ Written \subseteq Written'
  BY PayloadUnchanged, WrittenStays
<1>2. ASSUME NEW q \in Request, pc'[q] = "insert" PROVE CurItem(q)'.val # "invalid"
  <2>1. CurItem(q)' = CurItem(q)
    BY <1>2, InsertStep
  <2>2. QED
    BY <1>2, <2>1, InsertStep DEF WholeInv, Summarise
<1>3. ASSUME NEW m \in Written' PROVE payload'[m.id[1]][m.id[2]].val # "invalid"
  <2>1. CASE m \in Written
    BY <1>1, <2>1 DEF WholeInv
  <2>2. CASE Insert(r) /\ m = Mutation(r)
    BY <1>1, <2>2 DEF WholeInv, Insert, Mutation, CurItem
  <2>3. QED
    BY <1>3, <2>1, <2>2, WrittenStep
<1>4. ASSUME faults' = 0, NEW m \in Written', pc'[m.id[1]] = "done",
             Numeric(payload[m.id[1]][m.id[2]].series), NEW k \in Nat, Due(m.id[1], m.id[2], k)
      PROVE  \E n \in Written : IsFor(n, m.id[1], m.id[2], k)
  <2>1. m \in Written
    <3>1. SUFFICES ASSUME Insert(r), m = Mutation(r) PROVE FALSE
      BY <1>4, WrittenStep
    <3>2. faults \in Nat /\ m.id[1] = r
      BY <3>1 DEF TypeInv, TypeOK, Mutation
    <3>3. pc'[r] = "rows"
      BY <1>4, <3>1, <3>2 DEF Insert, SendFails, SendOk, NextRow, TypeInv, TypeOK
    <3>4. QED
      BY <1>4, <3>2, <3>3
  <2>2. m.id[1] \in Request /\ m.id[2] \in Nat
    BY <2>1, IdParts
  <2>3. CASE pc[m.id[1]] = "done"
    <3>1. faults = 0
      BY <1>4, FaultsStay DEF TypeInv, TypeOK
    <3>2. QED
      BY <1>4, <2>1, <2>3, <3>1 DEF WholeInv
  <2>4. CASE pc[m.id[1]] # "done"
    <3>1. m.id[1] = r
      BY <1>4, <2>2, <2>4, OthersUnchanged
    <3>2. Passed(r, m.id[2], k)
      BY <1>4, <2>1, <2>4, <3>1, EndsWhole
    <3>3. QED
      BY <1>4, <2>2, <3>1, <3>2, PassedIsWritten
  <2>5. QED
    BY <2>3, <2>4
<1>5. QED
  BY <1>1, <1>2, <1>3, <1>4, DueStep DEF WholeInv, Numeric

\* The invariant behind SummariesMatchBase is inductive.
LEMMA WholeNext ==
    TypeInv /\ CursorInv /\ DurableInv /\ WholeInv /\ [Next]_vars => WholeInv'
<1> SUFFICES ASSUME TypeInv, CursorInv, DurableInv, WholeInv, [Next]_vars PROVE WholeInv'
  OBVIOUS
<1>1. CASE \E p \in Process : Crash(p)
  <2>1. /\ UNCHANGED <<payload, item>> /\ Written' \subseteq Written
        /\ \A q \in Request : pc'[q] = pc[q] \/ pc'[q] = "done"
    BY <1>1, EndOnly
  <2>2. faults' # 0
    BY <1>1 DEF Crash, TypeInv, TypeOK
  <2>3. QED
    BY <2>1, <2>2 DEF WholeInv, CurItem
<1>2. CASE UNCHANGED vars
  <2>1. UNCHANGED <<payload, item, pc, faults>> /\ Written' = Written
    BY <1>2 DEF vars, requestVars, storeVars, Written
  <2>2. QED
    BY <2>1, DueStep DEF WholeInv, CurItem, Numeric
<1>3. QED
  BY <1>1, <1>2, WholeStep DEF Next, AllDone

\* With nothing in flight and nothing lost, whatever has one mutation of a numeric item
\* has all of them.
LEMMA AllOrNothing ==
    ASSUME TypeInv, CursorInv, DurableInv, WholeInv, faults = 0, Quiescent, NEW m \in stored,
           Numeric(payload[m.id[1]][m.id[2]].series), NEW k \in Nat, Due(m.id[1], m.id[2], k)
    PROVE  \E n \in stored : IsFor(n, m.id[1], m.id[2], k)
<1>1. Written = stored
  BY DEF Written, Quiescent
<1>2. /\ m.id[1] \in Request /\ m.id[2] \in Nat /\ m.id[3] \in Nat
      /\ Behind(m.id[1], m.id[2], m.id[3])
  BY <1>1, IdParts DEF CursorInv, OneBehind
<1>3. CASE pc[m.id[1]] = "done"
  BY <1>1, <1>3 DEF WholeInv
<1>4. CASE pc[m.id[1]] # "done"
  <2>1. pc[m.id[1]] \in {"idle", "check"} \cup CF
    BY <1>2, <1>4 DEF Quiescent, TypeInv, TypeOK
  <2>2. Passed(m.id[1], m.id[2], k)
    BY <1>2, <2>1 DEF Behind, Passed, CF
  <2>3. QED
    BY <1>1, <1>2, <2>2, PassedIsWritten
<1>5. QED
  BY <1>3, <1>4

\* The values in a bin are those whose base points lie in its window.
FollowsBase(s, k, b) ==
    Contributors(Cell(s, Rows[s][k], b)) =
        UNION {Contributors(BaseCell(s, u)) :
                   u \in {v \in Time : b <= v /\ v < b + Rows[s][k].window}}

\* Every bin of a numeric series follows its base, once nothing is in flight.
LEMMA BinMatchesBase ==
    ASSUME TypeInv, CursorInv, DurableInv, WholeInv, faults = 0, Quiescent,
           NEW s \in Series, NEW k \in 1..Len(Rows[s]), Numeric(s), Rows[s][k].type # "base",
           Allowed(s, Rows[s][k].type), Rows[s][k].window > 0, NEW t \in Time, NEW b,
           b = t - (t % Rows[s][k].window)
    PROVE  FollowsBase(s, k, b)
<1> DEFINE rw == Rows[s][k]
           bin == {v \in Time : b <= v /\ v < b + rw.window}
<1>1. Rows[s] \in Seq(Row) /\ k \in Nat /\ Len(Rows[s]) \in Nat
  BY TimeSeriesAssumption
<1>2. rw \in Row
  BY <1>1
<1>3. /\ BinTime(rw, b) = b
      /\ \A v \in Time : (b <= v /\ v < b + rw.window) <=> BinTime(rw, v) = b
  BY <1>2, Binning
<1>4. ASSUME NEW m \in stored, m.cell.series = s
      PROVE  /\ payload[m.id[1]][m.id[2]].series = s /\ payload[m.id[1]][m.id[2]].ts \in Time
             /\ m.id[2] \in 1..Len(payload[m.id[1]])
             /\ m.cell = Cell(s, Rows[s][m.id[3]], payload[m.id[1]][m.id[2]].ts)
  <2>1. /\ Due(m.id[1], m.id[2], m.id[3]) /\ IsFor(m, m.id[1], m.id[2], m.id[3])
        /\ m.id[1] \in Request
    BY IdParts DEF CursorInv, OneBehind, Written
  <2>2. payload[m.id[1]] \in Seq(Item) /\ m.id[2] \in 1..Len(payload[m.id[1]])
    BY <2>1, TimeSeriesAssumption DEF Due, TypeInv, TypeOK
  <2>3. payload[m.id[1]][m.id[2]] \in Item
    BY <2>2
  <2>4. QED
    <3>1. m.cell = Cell(payload[m.id[1]][m.id[2]].series,
                        Rows[payload[m.id[1]][m.id[2]].series][m.id[3]],
                        payload[m.id[1]][m.id[2]].ts)
      BY <2>1 DEF IsFor
    <3>2. \A x, y, z : Cell(x, y, z).series = x
      BY DEF Cell
    <3>3. payload[m.id[1]][m.id[2]].series = s
      <4>1. PICK x, y, z : /\ m.cell = Cell(x, y, z)
                           /\ x = payload[m.id[1]][m.id[2]].series
        BY <3>1
      <4>2. m.cell.series = x
        BY <3>2, <4>1
      <4>3. QED
        BY <1>4, <4>1, <4>2
    <3>4. QED
      BY <2>2, <2>3, <3>1, <3>3 DEF Item
<1>5. ASSUME NEW m \in stored, m.cell = Cell(s, rw, b)
      PROVE  \E u \in bin : <<m.id[1], m.id[2]>> \in Contributors(BaseCell(s, u))
  <2> DEFINE r == m.id[1]  i == m.id[2]  u == payload[r][i].ts
  <2>1. /\ payload[r][i].series = s /\ u \in Time /\ i \in 1..Len(payload[r])
        /\ Cell(s, rw, b) = Cell(s, Rows[s][m.id[3]], u)
    <3>1. m.cell.series = s
      BY <1>5 DEF Cell
    <3>2. QED
      BY <1>4, <1>5, <3>1
  <2>2. u \in bin
    <3>1. rw.type = Rows[s][m.id[3]].type /\ rw.window = Rows[s][m.id[3]].window
          /\ BinTime(rw, b) = BinTime(Rows[s][m.id[3]], u)
      BY <2>1 DEF Cell
    <3>2. BinTime(Rows[s][m.id[3]], u) = BinTime(rw, u)
      BY <3>1 DEF BinTime
    <3>3. QED
      BY <1>3, <2>1, <3>1, <3>2
  <2>3. PICK j \in 1..Len(Rows[s]) : Rows[s][j].type = "base"
    BY <1>1, BaseRowAssumption
  <2>4. j \in Nat /\ Rows[s][j].window = 0
    BY <1>1, <2>3, TimeSeriesAssumption
  <2>5. Due(r, i, j)
    BY <2>1, <2>3 DEF Due, Allowed
  <2>6. PICK n \in stored : IsFor(n, r, i, j)
    BY <2>1, <2>4, <2>5, AllOrNothing
  <2>7. n.cell = BaseCell(s, u) /\ n.id[1] = r /\ n.id[2] = i
    <3>1. n.id = <<r, i, j>> /\ n.cell = Cell(s, Rows[s][j], u)
      BY <2>1, <2>6 DEF IsFor
    <3>2. PICK y, t1 : y = Rows[s][j] /\ t1 = u
      OBVIOUS
    <3>3. y.type = "base" /\ y.window = 0
      BY <2>3, <2>4, <3>2
    <3>4. Cell(s, y, t1) = BaseCell(s, t1)
      BY <3>3 DEF Cell, BaseCell, BinTime
    <3>5. QED
      BY <3>1, <3>2, <3>4
  <2>8. QED
    BY <2>2, <2>7 DEF Contributors, InCell
<1>6. ASSUME NEW u \in bin, NEW m \in stored, m.cell = BaseCell(s, u)
      PROVE  <<m.id[1], m.id[2]>> \in Contributors(Cell(s, rw, b))
  <2> DEFINE r == m.id[1]  i == m.id[2]
  <2>1. /\ payload[r][i].series = s /\ i \in 1..Len(payload[r])
        /\ BaseCell(s, u) = Cell(s, Rows[s][m.id[3]], payload[r][i].ts)
    <3>1. m.cell.series = s
      BY <1>6 DEF BaseCell
    <3>2. QED
      BY <1>4, <1>6, <3>1
  <2>2. payload[r][i].ts = u
    BY <2>1 DEF BaseCell, Cell, BinTime
  <2>3. Due(r, i, k)
    BY <2>1 DEF Due
  <2>4. PICK n \in stored : IsFor(n, r, i, k)
    BY <1>1, <2>1, <2>3, AllOrNothing
  <2>5. BinTime(rw, u) = BinTime(rw, b)
    BY <1>3
  <2>6. n.cell = Cell(s, rw, b) /\ n.id[1] = r /\ n.id[2] = i
    BY <2>1, <2>2, <2>4, <2>5 DEF IsFor, Cell
  <2>7. QED
    BY <2>6 DEF Contributors, InCell
<1>7. ASSUME NEW x \in Contributors(Cell(s, rw, b))
      PROVE  \E u \in bin : x \in Contributors(BaseCell(s, u))
  BY <1>5 DEF Contributors, InCell
<1>8. ASSUME NEW u \in bin, NEW x \in Contributors(BaseCell(s, u))
      PROVE  x \in Contributors(Cell(s, rw, b))
  BY <1>6 DEF Contributors, InCell
<1>9. QED
  <2>1. Contributors(Cell(s, rw, b)) = UNION {Contributors(BaseCell(s, u)) : u \in bin}
    BY <1>7, <1>8
  <2>2. QED
    BY <2>1 DEF FollowsBase

\* Whatever requests interleave, conflict or are refused half way, a bin of a numeric
\* series holds exactly the values whose base points lie in its window, once nothing is
\* in flight, unless a process died or a send failed.
THEOREM SummariesFollowBase == Spec => []SummariesMatchBase
<1>1. Init => DurableInv /\ WholeInv
  <2> SUFFICES ASSUME Init PROVE DurableInv /\ WholeInv
    OBVIOUS
  <2>1. Written = {}
    BY DEF Init, Written
  <2>2. QED
    BY <2>1 DEF Init, DurableInv, Passed, CF, WholeInv
<1>2. Spec => [](TypeInv /\ CursorInv /\ DurableInv /\ WholeInv)
  BY <1>1, InitType, InitCounts, NextType, CursorNext, DurableNext, WholeNext, PTL DEF Spec
<1>3. TypeInv /\ CursorInv /\ DurableInv /\ WholeInv => SummariesMatchBase
  <2> SUFFICES ASSUME TypeInv, CursorInv, DurableInv, WholeInv PROVE SummariesMatchBase
    OBVIOUS
  <2>1. ASSUME faults = 0, Quiescent, NEW s \in Series, NEW k \in 1..Len(Rows[s]),
               Numeric(s), Rows[s][k].type # "base", Allowed(s, Rows[s][k].type),
               Rows[s][k].window > 0, NEW b \in {t - (t % Rows[s][k].window) : t \in Time}
        PROVE  FollowsBase(s, k, b)
    <3>1. PICK t \in Time : b = t - (t % Rows[s][k].window)
      BY <2>1
    <3>2. QED
      BY <2>1, <3>1, BinMatchesBase
  <2>2. QED
    BY <2>1, Zenon DEF SummariesMatchBase, FollowsBase
<1>4. QED
  BY <1>2, <1>3, PTL
===============================================================================
