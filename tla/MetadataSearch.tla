---------------------------- MODULE MetadataSearch ----------------------------
(***************************************************************************)
(* Searching for measurements: ApiConnect.get_metadata of the client asks  *)
(* GET /archive/ page after page, and ArchiveViewset.list answers from the *)
(* tables with three kinds of queries for every page (count, slice, and    *)
(* the event types of each object), while measurements are registered,     *)
(* updated and removed.                                                    *)
(*                                                                         *)
(* A metadata key is a number: pages follow the order of the keys, and a   *)
(* new key, a random uuid, may fall anywhere.  Texts are strings, a        *)
(* summary window too.                                                     *)
(***************************************************************************)
EXTENDS QueryAPI, SequencesExt

CONSTANTS
    Catalog,      \* by metadata key: subject_type, subject, params, rows in order of insertion
    Tables,       \* the possible contents of the tables before the search
    Dns,          \* the v4 and the v6 addresses that a host name has: at most one each
    MetadataValues, TimeValues,   \* the values the user may give to each filter
    FirstNow, MaxTime, MaxFilters, MaxChanges, MaxFaults

ASSUME SearchAssumption ==
    /\ DOMAIN Catalog \subseteq Nat /\ IsFiniteSet(DOMAIN Catalog)
    /\ FirstNow \in Nat /\ MaxTime \in Nat /\ MaxFilters \in Nat
    /\ MaxChanges \in Nat /\ MaxFaults \in Nat

\* A row of ps_event_types, and one that has not been stored yet.
EventRow == [type : STRING, summary : STRING, window : STRING, updated : Int]
PlannedRow == [type : STRING, summary : STRING, window : STRING]

\* The first rows of the object with key k, in the order of their insertion.
RowsOf(k, rows) ==
    /\ rows \in Seq(EventRow) /\ Len(rows) <= Len(Catalog[k].rows)
    /\ \A i \in 1..Len(rows) : /\ rows[i].type = Catalog[k].rows[i].type
                                /\ rows[i].summary = Catalog[k].rows[i].summary
                                /\ rows[i].window = Catalog[k].rows[i].window

\* The base row of an event type is stored with window 0.
ASSUME CatalogAssumption ==
    /\ \A k \in DOMAIN Catalog :
           /\ Catalog[k].rows \in Seq(PlannedRow)
           /\ \A i \in 1..Len(Catalog[k].rows) :
                  Catalog[k].rows[i].summary = "base" => Catalog[k].rows[i].window = "0"
    /\ \A t \in Tables : /\ DOMAIN t \subseteq DOMAIN Catalog
                         /\ \A k \in DOMAIN t : RowsOf(k, t[k])

VARIABLES
    objects,           \* the rows of each stored object: [type, summary, window, updated]
    now,
    metadata_filters, time_filters,   \* of the ApiFilters object
    pc,                \* "idle", "count", "slice", "show", "done", "failed"
    offset, initial_offset, m_total, data,   \* locals of get_metadata
    asked, count, page, reply,       \* of the request being answered
    changes, faults,
    steady, entered, left             \* what happened to the result since the first count

request == <<asked, count, page, reply>>
client == <<offset, initial_offset, m_total, data>>
seen == <<steady, entered, left>>
vars == <<objects, now, metadata_filters, time_filters, pc, client, request,
          changes, faults, seen>>

-------------------------------------------------------------------------------
(* ArchiveViewset.get_queryset *)

SubjectFields == {"source", "destination", "tool-name", "measurement-agent",
                  "input-source", "input-destination"}
IpFields == {"source", "destination", "measurement-agent"}
OtherFilters == {"event-type", "summary-type", "summary-window", "subject-type",
                 "metadata-key", "dns-match-rule"}
MatchRules == {"prefer-v6", "prefer-v4", "only-v6", "only-v4", "v4v6"}

\* prepare_ip, with lookup_hostname for each family the rule asks for.
PrepareIp(host, rule) ==
    LET v4 == Dns[host].v4
        v6 == Dns[host].v6
    IN  CASE rule = "only-v6"   -> v6
          [] rule = "only-v4"   -> v4
          [] rule = "prefer-v6" -> IF v6 # {} THEN v6 ELSE v4
          [] rule = "prefer-v4" -> IF v4 # {} THEN v4 ELSE v6
          [] rule = "v4v6"      -> v4 \cup v6

Rule(f) == IF "dns-match-rule" \in DOMAIN f THEN f["dns-match-rule"] ELSE "v4v6"

\* ParseError: an address that cannot be had, a rule that does not exist, a range
\* that ends before it begins.
BadRequest(f, w) ==
    \/ ~ ValidRange(w)
    \/ \E k \in DOMAIN f \cap IpFields :
           Rule(f) \notin MatchRules \/ PrepareIp(f[k], Rule(f)) = {}

\* All the conditions on event types are conditions on one row.
RowMatches(r, f, w) ==
    /\ "event-type" \in DOMAIN f => r.type = f["event-type"]
    /\ "summary-type" \in DOMAIN f => r.summary = f["summary-type"]
    /\ "summary-window" \in DOMAIN f => r.window = f["summary-window"]
    /\ w.given => /\ r.updated # None
                  /\ r.updated >= w.begin
                  /\ w.end # None => r.updated <= w.end

RowAsked(f, w) ==
    w.given \/ {"event-type", "summary-type", "summary-window"} \cap DOMAIN f # {}

\* Mutant of EventTypesMatch: each condition may be met by a row of its own.
EventTypesMatchApart(rows, f, w) ==
    \A k \in DOMAIN f \cap {"event-type", "summary-type", "summary-window"} :
        \E i \in DOMAIN rows : RowMatches(rows[i], [x \in {k} |-> f[x]], w)

EventTypesMatch(rows, f, w) ==
    RowAsked(f, w) => \E i \in DOMAIN rows : RowMatches(rows[i], f, w)

SubjectMatches(o, f) ==
    \A k \in DOMAIN f \cap SubjectFields :
        /\ k \in DOMAIN o.subject
        /\ IF k \in IpFields THEN o.subject[k] \in PrepareIp(f[k], Rule(f))
           ELSE o.subject[k] = f[k]

\* Any other filter is a parameter.
ParametersMatch(o, f) ==
    \A k \in DOMAIN f \ (SubjectFields \cup OtherFilters) :
        k \in DOMAIN o.params /\ o.params[k] = f[k]

Matching ==
    LET f == metadata_filters
    IN  {k \in DOMAIN objects :
            /\ EventTypesMatch(objects[k], f, asked)
            /\ ParametersMatch(Catalog[k], f)
            /\ SubjectMatches(Catalog[k], f)
            /\ "subject-type" \in DOMAIN f => Catalog[k].subject_type = f["subject-type"]
            /\ "metadata-key" \in DOMAIN f => ToString(k) = f["metadata-key"]}

\* handle_time_filters, once for each request.
Window(t) ==
    LET w == TimeFilters(t, now)
    IN  [begin |-> w.begin, end |-> w.end, given |-> \E k \in DOMAIN t : t[k] # None]

\* build_event_type_list, as to_representation shows it.
BuildEventTypeList(rows) ==
    {[type |-> et,
      updated |-> LET base == {i \in DOMAIN rows : rows[i].type = et /\ rows[i].summary = "base"}
                  IN  IF base = {} THEN None ELSE rows[Max(base)].updated,
      summaries |-> {[type |-> rows[i].summary, window |-> rows[i].window,
                      updated |-> rows[i].updated] :
                     i \in {j \in DOMAIN rows : rows[j].type = et /\ rows[j].summary # "base"}}] :
     et \in {rows[i].type : i \in DOMAIN rows}}

-------------------------------------------------------------------------------
NoWindow == [begin |-> 0, end |-> None, given |-> FALSE]
NoFilters == [k \in {} |-> None]
Set(f, k, v) == [x \in DOMAIN f \cup {k} |-> IF x = k THEN v ELSE f[x]]
Without(f, k) == [x \in DOMAIN f \ {k} |-> f[x]]

Init ==
    /\ objects \in Tables
    /\ now = FirstNow
    /\ metadata_filters = NoFilters /\ time_filters = NoFilters
    /\ pc = "idle"
    /\ offset = 0 /\ initial_offset = None /\ m_total = None /\ data = <<>>
    /\ asked = NoWindow /\ count = 0 /\ page = <<>> /\ reply = <<>>
    /\ steady = {} /\ entered = 0 /\ left = 0
    /\ changes = 0 /\ faults = 0

\* How the result of the search has changed in a step.
Observe ==
    IF pc \in {"slice", "show"} \/ (pc = "count" /\ initial_offset # None)
    THEN /\ steady' = steady \cap Matching'
         /\ entered' = entered + Cardinality(Matching' \ Matching)
         /\ left' = left + Cardinality(Matching \ Matching')
    ELSE UNCHANGED seen

-------------------------------------------------------------------------------
(* The user's program *)

\* The setters and deleters of ApiFilters.
SetFilter ==
    /\ pc = "idle"
    /\ \/ /\ \E k \in DOMAIN MetadataValues : \E v \in MetadataValues[k] :
                metadata_filters' = Set(metadata_filters, k, v)
          /\ UNCHANGED time_filters
       \/ /\ \E k \in DOMAIN TimeValues : \E v \in TimeValues[k] :
                time_filters' = Set(time_filters, k, v)
          /\ UNCHANGED metadata_filters
    /\ Cardinality(DOMAIN metadata_filters') + Cardinality(DOMAIN time_filters') <= MaxFilters
    /\ UNCHANGED <<objects, now, pc, client, request, changes, faults, seen>>

DelFilter ==
    /\ pc = "idle"
    /\ \/ /\ \E k \in DOMAIN metadata_filters : metadata_filters' = Without(metadata_filters, k)
          /\ UNCHANGED time_filters
       \/ /\ \E k \in DOMAIN time_filters : time_filters' = Without(time_filters, k)
          /\ UNCHANGED metadata_filters
    /\ UNCHANGED <<objects, now, pc, client, request, changes, faults, seen>>

GetMetadata ==
    /\ pc = "idle"
    /\ pc' = "count"
    /\ UNCHANGED <<objects, now, metadata_filters, time_filters, client, request,
                   changes, faults, seen>>

\* The program has seen the objects, or the exception.
Continue ==
    /\ pc \in {"done", "failed"}
    /\ pc' = "idle"
    /\ offset' = 0 /\ initial_offset' = None /\ m_total' = None /\ data' = <<>>
    /\ asked' = NoWindow /\ count' = 0 /\ page' = <<>> /\ reply' = <<>>
    /\ steady' = {} /\ entered' = 0 /\ left' = 0
    /\ UNCHANGED <<objects, now, metadata_filters, time_filters, changes, faults>>

-------------------------------------------------------------------------------
(* A page, on the server *)

Fail == pc' = "failed" /\ data' = <<>>

\* The filters, and the paginator's count().
Count ==
    /\ pc = "count"
    /\ UNCHANGED <<objects, now, metadata_filters, time_filters, changes, faults>>
    /\ asked' = Window(time_filters)
    /\ IF BadRequest(metadata_filters, asked')
       THEN /\ Fail
            /\ UNCHANGED <<count, page, reply, offset, initial_offset, m_total, seen>>
       ELSE /\ pc' = "slice"
            /\ count' = Cardinality(Matching')
            /\ page' = <<>> /\ reply' = <<>>
            /\ IF initial_offset = None
               THEN steady' = Matching' /\ UNCHANGED <<entered, left>>
               ELSE Observe
            /\ UNCHANGED client

\* The objects of the page; none is looked for beyond the count.
Slice ==
    /\ pc = "slice"
    /\ pc' = "show"
    /\ page' = IF count = 0 \/ offset > count THEN <<>>
               ELSE Ascending(Paginate(Matching, [k \in {"offset"} |-> offset]))
    /\ UNCHANGED <<objects, now, metadata_filters, time_filters, client, asked, count,
                   reply, changes, faults, seen>>

\* The event types of an object; one that is gone by now has none.  With it goes,
\* for the properties only, the range of the request that it answers.
Show ==
    /\ pc = "show" /\ page # <<>>
    /\ LET k == Head(page)
           rows == IF k \in DOMAIN objects THEN objects[k] ELSE <<>>
       IN  reply' = Append(reply, [key |-> k, event_types |-> BuildEventTypeList(rows),
                                   range |-> asked])
    /\ page' = Tail(page)
    /\ UNCHANGED <<objects, now, metadata_filters, time_filters, pc, client, asked, count,
                   changes, faults, seen>>

-------------------------------------------------------------------------------
(* A page, on the client *)

\* metadata-count-total of the first object.
Total(got) == IF got = <<>> THEN 0 ELSE count

\* Mutant of NextOffset: go on after the objects of this page.
NextOffsetByPage(got) == offset + Len(got)

\* Mutant of NextOffset: offsets counted from one.
NextOffsetFromOne(got) ==
    IF initial_offset = None THEN Len(got) + 1 ELSE offset + initial_offset

\* Every page is taken to be as long as the first one was.
NextOffset(got) == IF initial_offset = None THEN Len(got) ELSE offset + initial_offset

Reply ==
    /\ pc = "show" /\ page = <<>>
    /\ data' = data \o reply
    /\ m_total' = IF initial_offset = None THEN Total(reply) ELSE m_total
    /\ initial_offset' = IF initial_offset = None THEN Len(reply) ELSE initial_offset
    /\ offset' = NextOffset(reply)
    /\ pc' = IF offset' < m_total' THEN "count" ELSE "done"
    /\ UNCHANGED <<objects, now, metadata_filters, time_filters, request, changes, faults, seen>>

\* No answer, or an error status: the generator dies, without an object.
Unanswered ==
    /\ pc \in {"count", "slice", "show"} /\ faults < MaxFaults
    /\ faults' = faults + 1
    /\ Fail
    /\ UNCHANGED <<objects, now, metadata_filters, time_filters, offset, initial_offset,
                   m_total, request, changes, seen>>

-------------------------------------------------------------------------------
(* The rest of the archive *)

Change ==
    /\ changes < MaxChanges
    /\ changes' = changes + 1
    /\ UNCHANGED <<now, metadata_filters, time_filters, pc, client, request, faults>>
    /\ Observe

\* A POST stores the object and then its event types, one by one.
Register ==
    /\ \E k \in DOMAIN Catalog \ DOMAIN objects : objects' = Set(objects, k, <<>>)
    /\ Change

Declare ==
    /\ \E k \in DOMAIN objects :
        /\ Len(objects[k]) < Len(Catalog[k].rows)
        /\ objects' = [objects EXCEPT ![k] =
                          Append(@, Set(Catalog[k].rows[Len(@) + 1], "updated", None))]
    /\ Change

\* A value: its event type is updated, summaries and all.
Update ==
    /\ \E k \in DOMAIN objects : \E et \in {objects[k][i].type : i \in DOMAIN objects[k]} :
        objects' = [objects EXCEPT ![k] =
            [i \in DOMAIN @ |-> IF @[i].type = et THEN [@[i] EXCEPT !.updated = now] ELSE @[i]]]
    /\ objects' # objects
    /\ Change

\* The cleaner removes an object, and the tables with it.
Delete ==
    /\ \E k \in DOMAIN objects : objects' = Without(objects, k)
    /\ Change

Tick ==
    /\ now < MaxTime
    /\ now' = now + 1
    /\ UNCHANGED <<objects, metadata_filters, time_filters, pc, client, request, changes,
                   faults, seen>>

Serve == Count \/ Slice \/ Show \/ Reply

Next ==
    \/ SetFilter \/ DelFilter \/ GetMetadata \/ Continue
    \/ Count \/ Slice \/ Show \/ Reply \/ Unanswered
    \/ Register \/ Declare \/ Update \/ Delete \/ Tick

Spec == Init /\ [][Next]_vars

\* The archive answers, or the client's timeout ends the wait.
FairSpec == Spec /\ WF_vars(Serve)

-------------------------------------------------------------------------------
(* The objects as the client sees them: Metadata, EventType and Summary *)

GetEventType(o, et) == {e \in o.event_types : e.type = et}
GetSummary(e, s, w) == {x \in e.summaries : x.type = s /\ x.window = w}

-------------------------------------------------------------------------------
(* Properties *)

Found == {data[i].key : i \in DOMAIN data}

\* How many pages hold the same place of the result: one, unless objects left it
\* between the count and the slice of the first page, which made that one too short.
Overlap(first) == IF first > 0 THEN (DefaultLimit + first - 1) \div first ELSE 1

\* Each object that leaves the result while get_metadata turns the pages, or each
\* that enters it, costs at most one other object that was in it all the time, and
\* only one that enters can make others come again, at most one for each page that
\* holds the same place: with a quiet archive the answer is exact, whatever the
\* offsets and the first page's length.
DriftIsBounded ==
    pc = "done" =>
        /\ Cardinality(steady \ Found) <= Max({entered, left})
        /\ Len(data) - Cardinality(Found) <= entered * Overlap(initial_offset)

InRange(t, w) == w.given => t # None /\ t >= w.begin /\ (w.end # None => t <= w.end)

\* An object that matched all the time offers, through get_event_type and
\* get_summary of the client, one series that meets all the conditions on event
\* types together: the type, the summary, its window and the time of its update.
FoundIsUsable ==
    pc = "done" =>
        \A i \in DOMAIN data :
            /\ data[i].key \in steady
            /\ RowAsked(metadata_filters, asked)
            => LET f == metadata_filters
                   types == IF "event-type" \in DOMAIN f THEN GetEventType(data[i], f["event-type"])
                            ELSE data[i].event_types
               IN  \E e \in types :
                     \/ /\ "summary-type" \in DOMAIN f => f["summary-type"] = "base"
                        /\ "summary-window" \in DOMAIN f => f["summary-window"] = "0"
                        /\ InRange(e.updated, data[i].range)
                     \/ \E x \in e.summaries :
                           /\ "summary-type" \in DOMAIN f => x.type = f["summary-type"]
                           /\ "summary-window" \in DOMAIN f => x.window = f["summary-window"]
                           /\ GetSummary(e, x.type, x.window) # {}
                           /\ InRange(x.updated, data[i].range)

\* get_metadata comes to an end, although objects come and go between the pages.
Ends == pc = "count" ~> pc \in {"done", "failed"}
===============================================================================
