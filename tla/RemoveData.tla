------------------------------ MODULE RemoveData ------------------------------
(***************************************************************************)
(* The cleaner, util/ps_remove_data.py: it walks the ps_event_types rows   *)
(* it read at its start, deletes the expired columns of each from          *)
(* Cassandra in chunks of time going back, and at the end deletes every    *)
(* metadata object whose rows have all expired.  Measurements keep being   *)
(* published while it runs.                                                *)
(***************************************************************************)
EXTENDS Integers, Sequences, SequencesExt, FiniteSets

CONSTANTS
    RowOrder,     \* the rows of ps_event_types: [md, type, summary, window]
    PolicyLists,  \* the "policies" of a config file: sequences of policies
    Histories,    \* what was published before: [data, updated]
    Starts,       \* values of option -s: {} or a set of one time
    TimeChunk,    \* option -t
    MaxMisses,    \* option -m
    FirstNow,     \* the time when the cleaner may start
    MaxNow,       \* bound on the clock
    MaxWrites,    \* bound on what is published meanwhile
    MaxFaults     \* bound on failing queries and deletes

\* The expire of a policy: days, or never.
Never == -1
Policy == [type : STRING, summary : STRING, window : STRING, expire : Nat \cup {Never}]

EventRows == ToSet(RowOrder)
Metadata == {et.md : et \in EventRows}
Time == 0..MaxNow

ASSUME RemoveDataAssumption ==
    /\ TimeChunk \in Nat \ {0} /\ MaxMisses \in Nat \ {0}
    /\ FirstNow \in Nat /\ MaxNow \in Nat /\ MaxWrites \in Nat /\ MaxFaults \in Nat
    /\ RowOrder \in Seq(EventRows) /\ \A et \in EventRows : et.window \in Nat
    /\ PolicyLists \subseteq Seq(Policy)
    /\ \A s \in Starts : s \subseteq Time
    /\ \A h \in Histories :
        /\ h.data \in [EventRows -> SUBSET Time]
        /\ h.updated \in [EventRows -> SUBSET Time]

VARIABLES
    policies,  \* the policies of the config file
    start,     \* option -s
    now,       \* the clock
    data,      \* the columns each row has in Cassandra
    updated,   \* time_updated: {} for NULL, else a set of one time
    alive,     \* the metadata objects there are
    writes, faults,
    pc,        \* where the cleaner is
    todo,      \* rows still to visit, the first one at hand
    snapshot,  \* updated, as it was when the rows were read
    counts,    \* metadata_counts
    upto,      \* the row's expire_time
    begin, end, misses,
    expired,   \* what the last query returned
    removed    \* history: metadata objects deleted

options == <<policies, start>>
world == <<now, data, updated, alive, writes, faults>>
walk == <<upto, begin, end, misses, expired>>
vars == <<options, world, pc, todo, snapshot, counts, walk, removed>>

-------------------------------------------------------------------------------
(* The policy of a row. *)

Fields(p) == <<p.type, p.summary, p.window>>

\* What the row is matched by: every field as a string.
Attributes(et) == <<et.type, et.summary, ToString(et.window)>>

\* A nested dictionary, as the set of the policies that were put into it: here the
\* one found in it under a key, {} when the key is missing.
Under(dict, f, key) == {i \in dict : Fields(policies[i])[f] = key}

\* build_policy_action: a later policy for the same keys replaces the earlier.
Action(dict) == {policies[i].expire : i \in {j \in dict : \A k \in dict : k <= j}}

\* get_policy, one call for each match field: what is found under the value of the
\* field comes before what is found under '*'; {} stands for None.
FirstFound(exact, any) == IF exact # {} THEN exact ELSE any

ByWindow(et, dict) ==
    FirstFound(Action(Under(dict, 3, Attributes(et)[3])), Action(Under(dict, 3, "*")))
BySummary(et, dict) ==
    FirstFound(ByWindow(et, Under(dict, 2, Attributes(et)[2])), ByWindow(et, Under(dict, 2, "*")))

\* Mutant of GetPolicy: no way back from an event type that leads nowhere.
GetPolicyGreedy(et) ==
    LET all == 1..Len(policies)
        exact == Under(all, 1, Attributes(et)[1])
    IN  BySummary(et, IF exact # {} THEN exact ELSE Under(all, 1, "*"))

GetPolicy(et) ==
    LET all == 1..Len(policies)
    IN  FirstFound(BySummary(et, Under(all, 1, Attributes(et)[1])),
                   BySummary(et, Under(all, 1, "*")))

Expiry(et) == GetPolicy(et) \ {Never}

\* The time up to which data of the row has expired by its policy.
PolicyTime(et) == {now - days : days \in Expiry(et)}

\* Mutant of ExpireTime: option -s is taken as it is.
ExpireTimeStart(et) ==
    IF start = {} \/ PolicyTime(et) = {} THEN PolicyTime(et) ELSE start

\* Option -s can only move it back; a row that it does not bind has none.
ExpireTime(et) ==
    IF start = {} THEN PolicyTime(et)
    ELSE {s \in start : \E e \in PolicyTime(et) : s <= e}

-------------------------------------------------------------------------------
Init ==
    /\ policies \in PolicyLists
    /\ start \in Starts
    /\ \E h \in Histories : data = h.data /\ updated = h.updated
    /\ now = FirstNow
    /\ alive = Metadata
    /\ writes = 0 /\ faults = 0
    /\ pc = "load"
    /\ todo = <<>>
    /\ snapshot = [et \in EventRows |-> {}]
    /\ counts = [m \in Metadata |-> [expired |-> 0, total |-> 0]]
    /\ upto = 0 /\ begin = 0 /\ end = 0 /\ misses = 0
    /\ expired = {}
    /\ removed = {}

\* Time passes.
Tick ==
    /\ now < MaxNow
    /\ now' = now + 1
    /\ UNCHANGED <<options, data, updated, alive, writes, faults,
                   pc, todo, snapshot, counts, walk, removed>>

Bin(et, t) == IF et.window > 0 THEN t - (t % et.window) ELSE t

\* A value of time t is published: save() writes every row of the event type
\* and sets its time_updated.
Publish(m, type, t) ==
    /\ writes < MaxWrites
    /\ writes' = writes + 1
    /\ m \in alive /\ t <= now
    /\ LET hit(et) == et.md = m /\ et.type = type
       IN  /\ data' = [et \in EventRows |->
                  IF hit(et) THEN data[et] \cup {Bin(et, t)} ELSE data[et]]
           /\ updated' = [et \in EventRows |->
                  IF hit(et) THEN {now} ELSE updated[et]]
    /\ UNCHANGED <<options, now, alive, faults, pc, todo, snapshot, counts, walk, removed>>

\* PSEventTypes.objects.all(): the rows, of which none is deleted yet, and their
\* time_updated, as they are now.
Load ==
    /\ pc = "load"
    /\ todo' = RowOrder
    /\ snapshot' = updated
    /\ pc' = "row"
    /\ UNCHANGED <<options, world, counts, walk, removed>>

Skipped(et) == ExpireTime(et) = {}

\* No policy, a policy that says never, or an option -s that does not bind:
\* continue, without counting the row.
SkipRow ==
    /\ pc = "row" /\ todo # <<>>
    /\ Skipped(Head(todo))
    /\ todo' = Tail(todo)
    /\ UNCHANGED <<options, world, pc, snapshot, counts, walk, removed>>

\* A row that was never written counts as expired.
HasExpired(et, e) == \A u \in snapshot[et] : u <= e

\* Where the walk starts: data has expired up to the policy's time, or up to the
\* last update when that is older.
Ending(et, e) ==
    IF snapshot[et] # {} /\ HasExpired(et, e) THEN CHOOSE u \in snapshot[et] : TRUE ELSE e

\* Mutant of VisitRow: one expired row is enough.
VisitRowAny ==
    /\ pc = "row" /\ todo # <<>>
    /\ LET et == Head(todo)
       IN  \E e \in ExpireTime(et) :
             /\ counts' = IF HasExpired(et, e)
                          THEN [counts EXCEPT ![et.md] =
                                    [expired |-> @.expired + 1, total |-> @.total + 1]]
                          ELSE counts
             /\ upto' = Ending(et, e)
             /\ end' = upto' /\ begin' = upto' - TimeChunk
    /\ misses' = 0
    /\ pc' = "query"
    /\ UNCHANGED <<options, world, todo, snapshot, expired, removed>>

\* The row, which has a time up to which it expires, is counted, and its walk begins.
VisitRow ==
    /\ pc = "row" /\ todo # <<>>
    /\ LET et == Head(todo)
       IN  \E e \in ExpireTime(et) :
             /\ counts' = [counts EXCEPT ![et.md] =
                    [expired |-> @.expired + IF HasExpired(et, e) THEN 1 ELSE 0,
                     total |-> @.total + 1]]
             /\ upto' = Ending(et, e)
             /\ end' = upto' /\ begin' = upto' - TimeChunk
    /\ misses' = 0
    /\ pc' = "query"
    /\ UNCHANGED <<options, world, todo, snapshot, expired, removed>>

\* The while loop: begin_time at or below 0 makes this chunk the last one.
From == IF begin < 0 THEN 0 ELSE begin
MissesNow == IF begin <= 0 THEN MaxMisses ELSE misses

\* query_data: the columns of a row of ps_event_types, both ends included.
QueryData(et, from, to) == {t \in data[et] : from <= t /\ t <= to}

\* Mutant of Query: the next chunk ends one chunk too early.
QuerySkips ==
    /\ pc = "query" /\ misses < MaxMisses
    /\ LET found == QueryData(Head(todo), From, end)
       IN  /\ expired' = found
           /\ end' = From - TimeChunk
           /\ begin' = From - 2 * TimeChunk
           /\ misses' = MissesNow + IF found = {} THEN 1 ELSE 0
           /\ pc' = IF found = {} THEN "query" ELSE "delete"
    /\ UNCHANGED <<options, world, todo, snapshot, counts, upto, removed>>

\* Mutant of Query: a chunk without data is neither counted nor passed.
QueryNoMiss ==
    /\ pc = "query" /\ misses < MaxMisses
    /\ LET found == QueryData(Head(todo), From, end)
       IN  /\ expired' = found
           /\ end' = From
           /\ begin' = IF found = {} THEN begin ELSE From - TimeChunk
           /\ misses' = misses
           /\ pc' = IF found = {} THEN "query" ELSE "delete"
    /\ UNCHANGED <<options, world, todo, snapshot, counts, upto, removed>>

\* The chunk is queried; the next one ends where this one begins.
Query ==
    /\ pc = "query" /\ misses < MaxMisses
    /\ LET found == QueryData(Head(todo), From, end)
       IN  /\ expired' = found
           /\ end' = From
           /\ begin' = From - TimeChunk
           /\ misses' = MissesNow + IF found = {} THEN 1 ELSE 0
           /\ pc' = IF found = {} THEN "query" ELSE "delete"
    /\ UNCHANGED <<options, world, todo, snapshot, counts, upto, removed>>

\* A query that fails ends the row.
QueryFails ==
    /\ pc = "query" /\ misses < MaxMisses
    /\ faults < MaxFaults
    /\ faults' = faults + 1
    /\ pc' = "row" /\ todo' = Tail(todo)
    /\ UNCHANGED <<options, now, data, updated, alive, writes,
                   snapshot, counts, walk, removed>>

\* The columns are removed and the batch sent; errors are only reported.  The columns
\* of a failed send stay, although the batch keeps their deletion for the next send,
\* which may come: they were expired, and a row that is left behind is what matters.
DeleteData ==
    /\ pc = "delete"
    /\ pc' = "query"
    /\ \/ /\ data' = [data EXCEPT ![Head(todo)] = @ \ expired]
          /\ UNCHANGED faults
       \/ /\ faults < MaxFaults
          /\ faults' = faults + 1
          /\ UNCHANGED data
    /\ UNCHANGED <<options, now, updated, alive, writes,
                   todo, snapshot, counts, walk, removed>>

\* The loop ends.
RowDone ==
    /\ pc = "query" /\ misses >= MaxMisses
    /\ pc' = "row" /\ todo' = Tail(todo)
    /\ UNCHANGED <<options, world, snapshot, counts, walk, removed>>

\* All rows are visited.
RowsDone ==
    /\ pc = "row" /\ todo = <<>>
    /\ pc' = "metadata"
    /\ UNCHANGED <<options, world, todo, snapshot, counts, walk, removed>>

\* An object counted, with as many rows expired as counted, is deleted; its rows
\* in Cassandra stay as they are.
Doomed == {m \in alive : counts[m].total > 0 /\ counts[m].total = counts[m].expired}

DeleteMetadata(m) ==
    /\ pc = "metadata"
    /\ m \in Doomed
    /\ alive' = alive \ {m}
    /\ removed' = removed \cup {m}
    /\ UNCHANGED <<options, now, data, updated, writes, faults,
                   pc, todo, snapshot, counts, walk>>

Exit ==
    /\ pc = "metadata" /\ Doomed = {}
    /\ pc' = "done"
    /\ UNCHANGED <<options, world, todo, snapshot, counts, walk, removed>>

Cleaner ==
    \/ Load \/ SkipRow \/ VisitRow \/ Query \/ QueryFails \/ DeleteData \/ RowDone
    \/ RowsDone \/ Exit
    \/ \E m \in Metadata : DeleteMetadata(m)

Environment ==
    \/ Tick
    \/ \E m \in Metadata, type \in {et.type : et \in EventRows}, t \in Time :
            Publish(m, type, t)

Stopped == pc = "done" /\ UNCHANGED vars

Next == Cleaner \/ Environment \/ Stopped

Spec == Init /\ [][Next]_vars

\* The cleaner is a process of its own: it goes on until it is done.
FairSpec == Spec /\ WF_vars(Cleaner)

-------------------------------------------------------------------------------
(* Properties. *)

\* "the policy with the most specific match with a preference order of
\* event_type, summary_type and then summary_window", stated over the list.
Matches(et, i) == \A f \in 1..3 : Fields(policies[i])[f] \in {"*", Attributes(et)[f]}
Weight(i) ==
    LET exact(f, w) == IF Fields(policies[i])[f] = "*" THEN 0 ELSE w
    IN  exact(1, 4) + exact(2, 2) + exact(3, 1)
MostSpecific(et) ==
    {policies[i].expire : i \in {j \in 1..Len(policies) :
        /\ Matches(et, j)
        /\ \A k \in 1..Len(policies) : Matches(et, k) =>
                Weight(k) < Weight(j) \/ (Weight(k) = Weight(j) /\ k <= j)}}

\* The recursive search for a policy finds the most specific one, also when an
\* exact match of the first field leads to none.
PolicyIsMostSpecific == \A et \in EventRows : GetPolicy(et) = MostSpecific(et)

\* No step deletes a value younger than its policy allows, under any option -s,
\* and none of a row whose policy is never or missing.
OnlyExpiredIsDeleted ==
    [][\A et \in EventRows : \A t \in data[et] \ data'[et] :
            \E e \in PolicyTime(et) : t <= e]_vars

\* Without -s, a metadata object is deleted only when each of its rows with an expiry
\* had, when the cleaner read the rows, not been written since the time it names; what
\* was written after that reading does not count.
OnlyIdleIsRemoved ==
    \A m \in removed : \A et \in EventRows :
        et.md = m /\ start = {} =>
            \A u \in snapshot[et], e \in PolicyTime(et) : u <= e

\* The row is behind the cleaner, in a run without option -s.
Visited(et) == pc # "load" /\ et \notin ToSet(todo) /\ start = {}

\* The walk leaves no hole: without failures and with nothing published
\* meanwhile, a row that was visited has nothing left within max_misses chunks of
\* where the walk began.
NothingLeftBehind ==
    (faults = 0 /\ writes = 0 /\ now = FirstNow) =>
        \A et \in EventRows : Visited(et) =>
            \A e \in PolicyTime(et) :
                LET to == IF snapshot[et] # {} /\ HasExpired(et, e)
                          THEN CHOOSE u \in snapshot[et] : TRUE ELSE e
                IN  \A t \in data[et] : t > to \/ t < to - MaxMisses * TimeChunk

\* The cleaner ends, also when it gets to time 0, whatever is published meanwhile.
Terminates == <>(pc = "done")

-------------------------------------------------------------------------------
(* What the script's own documentation says, and the code does not do. *)

\* "A value of "never" means to always keep data": the object its rows belong to
\* stays.
NeverMeansKept ==
    \A et \in EventRows : GetPolicy(et) = {Never} => et.md \notin removed
===============================================================================
