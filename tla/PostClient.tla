------------------------------ MODULE PostClient ------------------------------
(***************************************************************************)
(* A program that publishes with esmond/api/client/perfsonar/post.py: it   *)
(* describes a measurement to a MetadataPost, posts it, and then posts     *)
(* values with an EventTypePost, one request for each, or gathers them in  *)
(* an EventTypeBulkPost.  The archive stores the rows that the description *)
(* gives (Description), and counts a value once for each base row of its   *)
(* event type.  A request may fail before it has done anything, be stored  *)
(* and not be answered, or end in an error that leaves its mutations in a  *)
(* batch of the server's process, to be sent by a later request of anyone; *)
(* the program may post again.                                             *)
(***************************************************************************)
EXTENDS Description, FiniteSets, FiniteSetsExt

CONSTANTS
    Summaries,        \* the pairs <<summary type, windows>> the program may add
    Keys, Optional,   \* keys of parameters; those that are arguments of the constructor
    Texts,            \* values of parameters; the empty one counts as none
    Timestamps,
    MaxCalls, MaxPoints, MaxPosts, MaxFaults

ASSUME PostAssumption ==
    /\ Optional \subseteq Keys
    /\ MaxCalls \in Nat /\ MaxPoints \in Nat /\ MaxPosts \in Nat /\ MaxFaults \in Nat

VARIABLES
    phase,       \* "describe", "posted", "refused", "publish"
    args,        \* the optional arguments that were given, with their values
    entries,     \* event-types of the payload of the MetadataPost
    params,      \* the other keys of that payload
    asked,       \* the windows last asked for, by event type and summary type
    bases,       \* the base rows asked for, by event type
    given,       \* the value first given to each key, unless empty
    calls,
    rows,        \* the rows of ps_event_types of the object
    etype,       \* the event type of the EventTypePost, 0 for an EventTypeBulkPost
    payload,     \* its payload
    points,      \* the points as they were added
    at,          \* the point being posted, 0 between two calls of post_data
    outcome,     \* how the last call ended
    count,       \* how often the value of a time was counted in its base cell
    left,        \* the mutations of a time that wait in batches of the archive
    unsure,      \* the mutations of a time of which a send failed that kept them
    posts, faults

description == <<args, entries, params, asked, bases, given, calls>>
archive == <<count, left, unsure>>
publishing == <<etype, payload, points, at, outcome, archive, posts, faults>>
vars == <<phase, description, rows, publishing>>

Nothing == [x \in {} |-> 0]
Set(f, k, v) == [x \in DOMAIN f \cup {k} |-> IF x = k THEN v ELSE f[x]]

Init ==
    /\ phase = "describe"
    /\ \E S \in SUBSET Optional : args \in [S -> Texts \ {""}]
    /\ entries = <<>> /\ params = args /\ asked = Nothing /\ given = args /\ calls = 0
    /\ bases = [et \in DOMAIN EventType |-> 0]
    /\ rows = <<>>
    /\ etype = 0 /\ payload = <<>> /\ points = <<>> /\ at = 0 /\ outcome = "none"
    /\ count = [t \in Timestamps |-> 0]
    /\ left = [t \in Timestamps |-> 0] /\ unsure = [t \in Timestamps |-> 0]
    /\ posts = 0 /\ faults = 0

-------------------------------------------------------------------------------
(* MetadataPost *)

Call ==
    /\ phase = "describe" /\ calls < MaxCalls
    /\ calls' = calls + 1
    /\ UNCHANGED <<phase, args, rows, publishing>>

\* It warns that it skips an event type that is there, and adds it.
AddEventType ==
    /\ Call
    /\ \E et \in DOMAIN EventType :
        /\ entries' = Append(entries, [type |-> et, summaries |-> <<>>])
        /\ bases' = [bases EXCEPT ![et] = @ + 1]
    /\ UNCHANGED <<params, asked, given>>

Summarised(sm) ==
    [i \in 1..Len(sm[2]) |-> [type |-> sm[1], window |-> sm[2][i]]]

\* Mutant of Replaced: the summaries of the type that were there stay.
ReplacedKeeps(old, sm) == Summarised(sm) \o old

\* New summaries take the place of those of the same type.
Replaced(old, sm) == Summarised(sm) \o SelectSeq(old, LAMBDA x : x.type # sm[1])

\* The first entry of the event type gets them, or a new one; without windows, a
\* warning is all.
AddSummaryType ==
    /\ Call
    /\ \E et \in DOMAIN EventType, sm \in Summaries :
        LET same == {i \in DOMAIN entries : entries[i].type = et}
        IN  IF sm[2] = <<>> THEN UNCHANGED <<entries, asked, bases>>
            ELSE /\ entries' =
                       IF same = {}
                       THEN Append(entries, [type |-> et, summaries |-> Summarised(sm)])
                       ELSE [entries EXCEPT ![Min(same)].summaries = Replaced(@, sm)]
                 /\ asked' = Set(asked, <<et, sm[1]>>, sm[2])
                 /\ bases' = [bases EXCEPT ![et] = Max({@, 1})]
    /\ UNCHANGED <<params, given>>

\* A key keeps its first value that is not empty.
Unset(f, k) == k \notin DOMAIN f \/ f[k] = ""
Accepts(k) == Unset(params, k)

AddFreeformKeyValue ==
    /\ Call
    /\ \E k \in Keys, v \in Texts :
        /\ params' = IF Accepts(k) THEN Set(params, k, v) ELSE params
        /\ given' = IF Unset(given, k) THEN Set(given, k, v) ELSE given
    /\ UNCHANGED <<entries, asked, bases>>

\* _validate drops the optional keys that were no arguments, whoever set them.
Validated == [k \in {x \in DOMAIN params : x \in Optional => x \in DOMAIN args} |-> params[k]]

\* post_metadata: the archive refuses the description, or stores its rows.
PostMetadata ==
    /\ phase = "describe"
    /\ LET b == [entries |-> entries]
       IN  IF Valid(b) THEN phase' = "posted" /\ rows' = EventRows(b)
           ELSE phase' = "refused" /\ UNCHANGED rows
    /\ params' = Validated
    /\ UNCHANGED <<args, entries, asked, bases, given, calls, publishing>>

\* The archive is not reached or does not answer: the exception leaves the validated
\* payload, and the program may go on with it.
PostMetadataFails ==
    /\ phase = "describe" /\ faults < MaxFaults
    /\ faults' = faults + 1
    /\ params' = Validated
    /\ UNCHANGED <<phase, args, entries, asked, bases, given, calls, rows>>
    /\ UNCHANGED <<etype, payload, points, at, outcome, archive, posts>>

-------------------------------------------------------------------------------
(* EventTypePost and EventTypeBulkPost *)

\* The object is made; what was said of the description is forgotten.
Publish ==
    /\ phase = "posted"
    /\ phase' = "publish"
    /\ etype' \in DOMAIN EventType \cup {0}
    /\ args' = Nothing /\ entries' = <<>> /\ params' = Nothing /\ asked' = Nothing
    /\ given' = Nothing /\ calls' = 0 /\ bases' = [et \in DOMAIN EventType |-> 0]
    /\ UNCHANGED <<rows, payload, points, at, outcome, archive, posts, faults>>

Idle == phase = "publish" /\ at = 0 /\ Len(points) < MaxPoints

AddDataPoint ==
    /\ Idle /\ etype # 0
    /\ \E t \in Timestamps :
        payload' = Append(payload, t) /\ points' = Append(points, <<etype, t>>)
    /\ outcome' = "none"
    /\ UNCHANGED <<phase, description, rows, etype, at, archive, posts, faults>>

\* _get_ts_payload_entry: the entry of that time.
Entry(t) == {i \in DOMAIN payload : payload[i].ts = t}

AddBulkPoint ==
    /\ Idle /\ etype = 0
    /\ \E et \in DOMAIN EventType, t \in Timestamps :
        /\ points' = Append(points, <<et, t>>)
        /\ payload' = IF Entry(t) = {} THEN Append(payload, [ts |-> t, val |-> <<et>>])
                      ELSE [payload EXCEPT ![Max(Entry(t))].val = Append(@, et)]
    /\ UNCHANGED <<phase, description, rows, etype, at, outcome, archive, posts, faults>>

\* post_data starts with the first point, whatever came of an earlier call.
PostData ==
    /\ phase = "publish" /\ etype # 0 /\ at = 0 /\ posts < MaxPosts
    /\ posts' = posts + 1
    /\ at' = 1 /\ outcome' = "none"
    /\ UNCHANGED <<phase, description, rows, etype, payload, points, archive, faults>>

BaseRows(et) == Cardinality({i \in DOMAIN rows : rows[i].type = et /\ rows[i].summary = "base"})
Raw(et) == EventType[et] \in {"histogram", "json", "subinterval"}

\* Mutant of Exists: the archive takes what it has.
ExistsNever(t) == FALSE

Exists(t) == ~ Raw(etype) /\ count[t] > 0

\* n mutations of a time are applied: counters add up, raw values overwrite.
Applied(t, n) == IF Raw(etype) THEN Min({1, count[t] + n}) ELSE count[t] + n

\* save() inserts once for each base row of the event type, and the flush sends it.
Store(t) == count' = [count EXCEPT ![t] = Applied(t, BaseRows(etype))]

\* A send that failed on the way: some of the mutations were applied, perhaps all, and
\* the rest and perhaps some of those stay in their batches.
Leave(t) ==
    \E done \in 0..BaseRows(etype) : \E kept \in (BaseRows(etype) - done)..BaseRows(etype) :
        /\ count' = [count EXCEPT ![t] = Applied(t, done)]
        /\ left' = [left EXCEPT ![t] = @ + kept]
        /\ unsure' = [unsure EXCEPT ![t] = @ + kept]

\* Mutant of Raise: only the failure of the last point ends the loop.
RaiseLate ==
    IF at < Len(payload) THEN at' = at + 1 /\ UNCHANGED outcome
    ELSE at' = 0 /\ outcome' = "raised"

\* A status that is not 201, or no answer.
Raise == at' = 0 /\ outcome' = "raised"

Send ==
    /\ at \in DOMAIN payload
    /\ IF Exists(payload[at]) THEN Raise /\ UNCHANGED count
       ELSE Store(payload[at]) /\ at' = at + 1 /\ UNCHANGED outcome
    /\ UNCHANGED <<phase, description, rows, etype, payload, points, left, unsure, posts, faults>>

\* The archive cannot be reached, stores the value and its answer is lost, or answers
\* 500 for a send that failed.
SendFails ==
    /\ at \in DOMAIN payload /\ faults < MaxFaults
    /\ faults' = faults + 1
    /\ Raise
    /\ \/ UNCHANGED archive
       \/ ~ Exists(payload[at]) /\ Leave(payload[at])
    /\ UNCHANGED <<phase, description, rows, etype, payload, points, posts>>

\* Another request on the process that holds what was left: its flush sends it, ...
Flush ==
    /\ \E t \in Timestamps : \E n \in 1..left[t] :
        count' = [count EXCEPT ![t] = Applied(t, n)] /\ left' = [left EXCEPT ![t] = @ - n]
    /\ UNCHANGED <<phase, description, rows, etype, payload, points, at, outcome, unsure>>
    /\ UNCHANGED <<posts, faults>>

\* ... or fails after some of it was applied, and keeps it, ...
FlushFails ==
    /\ faults < MaxFaults
    /\ faults' = faults + 1
    /\ \E t \in Timestamps : \E n \in 1..left[t] :
        /\ count' = [count EXCEPT ![t] = Applied(t, n)]
        /\ unsure' = [unsure EXCEPT ![t] = @ + n]
    /\ UNCHANGED <<phase, description, rows, etype, payload, points, at, outcome, left, posts>>

\* ... or the process ends first.
ProcessEnds ==
    /\ faults < MaxFaults
    /\ faults' = faults + 1
    /\ \E t \in Timestamps : \E n \in 1..left[t] : left' = [left EXCEPT ![t] = @ - n]
    /\ UNCHANGED <<phase, description, rows, etype, payload, points, at, outcome>>
    /\ UNCHANGED <<count, unsure, posts>>

\* Mutant of AllSent: one too few.
AllSentButOne == at > 0 /\ at >= Len(payload)

AllSent == at > Len(payload)

\* The end of the loop.
Return ==
    /\ AllSent
    /\ at' = 0 /\ outcome' = "ok"
    /\ UNCHANGED <<phase, description, rows, etype, payload, points, archive, posts, faults>>

\* EventTypeBulkPost.post_data: one PUT, for all of them; what the archive makes of
\* it is in TimeSeries.
PostBulkData ==
    /\ phase = "publish" /\ etype = 0 /\ posts < MaxPosts
    /\ posts' = posts + 1
    /\ outcome' \in {"ok", "raised"}
    /\ UNCHANGED <<phase, description, rows, etype, payload, points, at, archive, faults>>

Next ==
    \/ AddEventType \/ AddSummaryType \/ AddFreeformKeyValue
    \/ PostMetadata \/ PostMetadataFails
    \/ Publish \/ AddDataPoint \/ AddBulkPoint
    \/ PostData \/ Send \/ SendFails \/ Return \/ PostBulkData
    \/ Flush \/ FlushFails \/ ProcessEnds

Spec == Init /\ [][Next]_vars

-------------------------------------------------------------------------------
(* Properties *)

\* The windows of the rows of one summary of an event type, in a canonical order.
Windows(et, s) ==
    SortSeq(SelectSeq(rows, LAMBDA r : r.type = et /\ r.summary = s),
            LAMBDA x, y : x.window < y.window)

\* The archive has, for each event type and summary type, exactly the windows of the
\* last add_summary_type that named any, and a base row for each add_event_type, or one
\* if add_summary_type named the event type first.  That is one base row too many for
\* each time an event type is added that is there already (AddedOnce).
SummariesAsAsked ==
    phase = "posted" =>
        /\ \A et \in DOMAIN EventType, s \in {sm[1] : sm \in Summaries} \ {"base"} :
               LET w == IF <<et, s>> \in DOMAIN asked THEN SortSeq(asked[<<et, s>>], <) ELSE <<>>
               IN  [i \in DOMAIN Windows(et, s) |-> Windows(et, s)[i].window] = w
        /\ \A et \in DOMAIN EventType : BaseRows(et) = bases[et]

\* What the warning of add_event_type says, "already exists - skipping": an event type
\* that is there is not added again, and the object has one base row of it at most.
AddedOnce == phase = "posted" => \A et \in DOMAIN EventType : BaseRows(et) <= 1

\* Each parameter is posted with the value it was given first, not counting empty ones,
\* also when the call is repeated after an error; only the optional
\* arguments of the constructor are not posted when set in another way.
ParametersAsGiven ==
    phase \in {"posted", "refused"} =>
        params = [k \in {x \in DOMAIN given : x \in Optional => x \in DOMAIN args} |-> given[k]]

\* A bulk payload has one entry for each time, and all the points of that time in the
\* order they were added.
BulkIsGrouped ==
    etype = 0 =>
        /\ \A i, j \in DOMAIN payload : payload[i].ts = payload[j].ts => i = j
        /\ \A t \in Timestamps :
               LET of == SelectSeq(points, LAMBDA p : p[2] = t)
               IN  {payload[i].val : i \in {j \in DOMAIN payload : payload[j].ts = t}} =
                       IF of = <<>> THEN {} ELSE {[i \in DOMAIN of |-> of[i][1]]}

\* Whatever the order of the calls, the archive's rows are those that the calls asked for,
\* an event type that was added twice included twice; the parameters are posted as they
\* were first given; and a bulk payload groups its points by time.
PayloadAsAsked == SummariesAsAsked /\ ParametersAsGiven /\ BulkIsGrouped

\* If post_data ends without an exception, each of its values is stored, provided
\* that the object has its event type: of any other type the archive acknowledges
\* all the values and stores none.
ReturnIsStored ==
    etype # 0 /\ outcome = "ok" =>
        \A i \in DOMAIN payload : count[payload[i]] > 0 <=> BaseRows(etype) > 0

\* Whatever fails and however often the payload is posted again, what is stored of it
\* is what comes first: the value of a time is never stored without those that were
\* added before it.
PrefixIsStored ==
    etype # 0 =>
        \A j \in DOMAIN payload :
            (\A i \in 1..(j - 1) : payload[i] # payload[j]) /\ count[payload[j]] > 0
                => \A i \in 1..j : count[payload[i]] > 0

\* However often the payload is posted, a value is counted once for each base row of its
\* event type, and again only for a mutation that a failed send left in a batch: the
\* next attempt does not see it and stores the value, and a flush of anyone counts it a
\* second time.  An answer that was lost, or a request that failed before it reached
\* the batches, never counts a value again.
CountedOncePerRow ==
    etype # 0 =>
        \A t \in Timestamps :
            IF Raw(etype) THEN count[t] <= Min({1, BaseRows(etype)})
            ELSE /\ count[t] + left[t] <= BaseRows(etype) + unsure[t]
                 /\ unsure[t] = 0 => count[t] \in {0, BaseRows(etype)}
===============================================================================
