-------------------------------- MODULE Archive --------------------------------
(***************************************************************************)
(* Registering a measurement: POST /archive/, that is ArchiveSerializer    *)
(* .create on the relational tables, and the object the answer shows.      *)
(*                                                                         *)
(* The handler runs without a transaction: every ORM call commits by       *)
(* itself, so requests of all threads and processes interleave between     *)
(* any two of them, and a failure leaves what was stored so far.  The      *)
(* metadata_key is a fresh uuid, known here by the request that drew it.   *)
(***************************************************************************)
EXTENDS Description, FiniteSets

CONSTANTS
    Request,     \* the POST requests
    MaxFaults,   \* bound on requests that die half way
    MaxDeletes   \* bound on objects the cleaner removes

ASSUME ArchiveAssumption ==
    /\ MaxFaults \in Nat /\ MaxDeletes \in Nat
    /\ \A b \in Body : b.entries \in Seq([type : Nat, summaries : Seq([type : STRING, window : Nat])])

\* The parameters of a body, key and text.
Parameter == Nat \X [text : STRING, upper : BOOLEAN]

\* A body that is accepted describes lists of rows: what SortSeq and SelectSeq,
\* which the provers have no definition of, return for it.
ASSUME RowsAssumption ==
    \A b \in Body : Valid(b) =>
        EventRows(b) \in Seq(EventRow) /\ Parameters(b) \in Seq(Parameter)

VARIABLES
    body,      \* what each request posts
    pc,        \* where each request is
    key,       \* the object a request has in hand, {} or a set of one key
    idx,       \* loop counter of the two loops of create()
    shown,     \* the object as the answer shows it
    answer,    \* the HTTP status
    metadata,  \* ps_metadata: [key, checksum]
    subjects,  \* keys with a row in the subject table
    events,    \* ps_event_types, in the order of insertion, by key
    params,    \* ps_metadata_parameters, likewise
    deleted,   \* keys removed by the cleaner
    faults     \* requests that died half way

localVars == <<body, pc, key, idx, shown, answer>>
tables == <<metadata, subjects, events, params>>
vars == <<localVars, tables, deleted, faults>>

Nothing == [subject |-> FALSE, events |-> <<>>, params |-> <<>>]

Init ==
    /\ body \in [Request -> Body]
    /\ pc = [r \in Request |-> "post"]
    /\ key = [r \in Request |-> {}]
    /\ idx = [r \in Request |-> 1]
    /\ shown = [r \in Request |-> Nothing]
    /\ answer = [r \in Request |-> "none"]
    /\ metadata = {}
    /\ subjects = {}
    /\ events = [k \in Request |-> <<>>]
    /\ params = [k \in Request |-> <<>>]
    /\ deleted = {}
    /\ faults = 0

-------------------------------------------------------------------------------
Goto(r, l) == pc' = [pc EXCEPT ![r] = l]

Finish(r, code) ==
    /\ pc' = [pc EXCEPT ![r] = "done"]
    /\ answer' = [answer EXCEPT ![r] = code]

Key(r) == CHOOSE k \in key[r] : TRUE
Keys == {o.key : o \in metadata}
Existing(r) == {o \in metadata : o.checksum = Checksum(body[r])}

\* to_internal_value raises.
Reject(r) ==
    /\ pc[r] = "post"
    /\ ~ Valid(body[r])
    /\ Finish(r, "400")
    /\ UNCHANGED <<body, key, idx, shown, tables, deleted, faults>>

\* existing_md.count()
Count(r) ==
    /\ pc[r] = "post"
    /\ Valid(body[r])
    /\ Goto(r, IF Existing(r) # {} THEN "fetch" ELSE "create")
    /\ UNCHANGED <<body, key, idx, shown, answer, tables, deleted, faults>>

\* Mutant of Fetch: the filter is lost.
FetchAny(r) ==
    /\ pc[r] = "fetch"
    /\ \/ /\ \E o \in metadata : key' = [key EXCEPT ![r] = {o.key}]
          /\ Goto(r, "showEvents")
          /\ UNCHANGED answer
       \/ /\ metadata = {}
          /\ Finish(r, "500")
          /\ UNCHANGED key
    /\ UNCHANGED <<body, idx, shown, tables, deleted, faults>>

\* existing_md[0], a second query: an IndexError when the object is gone.
Fetch(r) ==
    /\ pc[r] = "fetch"
    /\ \/ /\ \E o \in Existing(r) : key' = [key EXCEPT ![r] = {o.key}]
          /\ Goto(r, "showEvents")
          /\ UNCHANGED answer
       \/ /\ Existing(r) = {}
          /\ Finish(r, "500")
          /\ UNCHANGED key
    /\ UNCHANGED <<body, idx, shown, tables, deleted, faults>>

\* Mutant of CreateMetadata: the checksum is not unique.
CreateMetadataTwice(r) ==
    /\ pc[r] = "create"
    /\ metadata' = metadata \cup {[key |-> r, checksum |-> Checksum(body[r])]}
    /\ key' = [key EXCEPT ![r] = {r}]
    /\ Goto(r, "subject")
    /\ UNCHANGED <<body, idx, shown, answer, subjects, events, params, deleted, faults>>

\* Mutant of CreateMetadata: the loser of the race goes on with the winner's
\* object.
CreateMetadataReuses(r) ==
    /\ pc[r] = "create"
    /\ \/ /\ Existing(r) = {}
          /\ metadata' = metadata \cup {[key |-> r, checksum |-> Checksum(body[r])]}
          /\ key' = [key EXCEPT ![r] = {r}]
       \/ /\ \E o \in Existing(r) : key' = [key EXCEPT ![r] = {o.key}]
          /\ UNCHANGED metadata
    /\ Goto(r, "subject")
    /\ UNCHANGED <<body, idx, shown, answer, subjects, events, params, deleted, faults>>

\* PSMetadata.objects.create: the checksum is unique, the loser of a race gets an
\* IntegrityError that nobody catches.
CreateMetadata(r) ==
    /\ pc[r] = "create"
    /\ \/ /\ Existing(r) = {}
          /\ metadata' = metadata \cup {[key |-> r, checksum |-> Checksum(body[r])]}
          /\ key' = [key EXCEPT ![r] = {r}]
          /\ Goto(r, "subject")
          /\ UNCHANGED answer
       \/ /\ Existing(r) # {}
          /\ Finish(r, "500")
          /\ UNCHANGED <<metadata, key>>
    /\ UNCHANGED <<body, idx, shown, subjects, events, params, deleted, faults>>

\* The row that refers to the object of r is refused by the foreign key.
Dangling(r) == Key(r) \notin Keys

\* The subject model refuses a subject without its address fields.
CreateSubject(r) ==
    /\ pc[r] = "subject"
    /\ \/ /\ ~ Dangling(r) /\ body[r].subject # "incomplete"
          /\ subjects' = subjects \cup key[r]
          /\ Goto(r, "events")
          /\ UNCHANGED answer
       \/ /\ Dangling(r) \/ body[r].subject = "incomplete"
          /\ Finish(r, "500")
          /\ UNCHANGED subjects
    /\ UNCHANGED <<body, key, idx, shown, metadata, events, params, deleted, faults>>

\* The loop over event_types; after the last one the parameters follow.
CreateEvent(r) ==
    /\ pc[r] = "events"
    /\ \/ /\ idx[r] <= Len(EventRows(body[r])) /\ ~ Dangling(r)
          /\ events' = [events EXCEPT ![Key(r)] = Append(@, EventRows(body[r])[idx[r]])]
          /\ idx' = [idx EXCEPT ![r] = @ + 1]
          /\ UNCHANGED <<pc, answer>>
       \/ /\ idx[r] <= Len(EventRows(body[r])) /\ Dangling(r)
          /\ Finish(r, "500")
          /\ UNCHANGED <<events, idx>>
       \/ /\ idx[r] > Len(EventRows(body[r]))
          /\ Goto(r, "params")
          /\ idx' = [idx EXCEPT ![r] = 1]
          /\ UNCHANGED <<events, answer>>
    /\ UNCHANGED <<body, key, shown, metadata, subjects, params, deleted, faults>>

\* Mutant of CreateParameter: off by one at the end of the loop.
CreateParameterShort(r) ==
    /\ pc[r] = "params"
    /\ LET ps == Parameters(body[r])
           good == ~ Dangling(r) /\ ps[idx[r]][2] # Null
       IN  \/ /\ idx[r] < Len(ps) /\ good
              /\ params' = [params EXCEPT ![Key(r)] = Append(@, ps[idx[r]])]
              /\ idx' = [idx EXCEPT ![r] = @ + 1]
              /\ UNCHANGED <<pc, answer>>
           \/ /\ idx[r] < Len(ps) /\ ~ good
              /\ Finish(r, "500")
              /\ UNCHANGED <<params, idx>>
           \/ /\ idx[r] >= Len(ps)
              /\ Goto(r, "showEvents")
              /\ UNCHANGED <<params, idx, answer>>
    /\ UNCHANGED <<body, key, shown, metadata, subjects, events, deleted, faults>>

\* The loop over md_params; a null value is refused by the table.
CreateParameter(r) ==
    /\ pc[r] = "params"
    /\ LET ps == Parameters(body[r])
           good == ~ Dangling(r) /\ ps[idx[r]][2] # Null
       IN  \/ /\ idx[r] <= Len(ps) /\ good
              /\ params' = [params EXCEPT ![Key(r)] = Append(@, ps[idx[r]])]
              /\ idx' = [idx EXCEPT ![r] = @ + 1]
              /\ UNCHANGED <<pc, answer>>
           \/ /\ idx[r] <= Len(ps) /\ ~ good
              /\ Finish(r, "500")
              /\ UNCHANGED <<params, idx>>
           \/ /\ idx[r] > Len(ps)
              /\ Goto(r, "showEvents")
              /\ UNCHANGED <<params, idx, answer>>
    /\ UNCHANGED <<body, key, shown, metadata, subjects, events, deleted, faults>>

\* to_representation reads the tables again, one query after another, whether
\* the object is new or not.
ShowEvents(r) ==
    /\ pc[r] = "showEvents"
    /\ shown' = [shown EXCEPT ![r].events = events[Key(r)]]
    /\ Goto(r, "showSubject")
    /\ UNCHANGED <<body, key, idx, answer, tables, deleted, faults>>

\* A subject that is not there is left out.
ShowSubject(r) ==
    /\ pc[r] = "showSubject"
    /\ shown' = [shown EXCEPT ![r].subject = Key(r) \in subjects]
    /\ Goto(r, "showParameters")
    /\ UNCHANGED <<body, key, idx, answer, tables, deleted, faults>>

ShowParameters(r) ==
    /\ pc[r] = "showParameters"
    /\ shown' = [shown EXCEPT ![r].params = params[Key(r)]]
    /\ Finish(r, "201")
    /\ UNCHANGED <<body, key, idx, tables, deleted, faults>>

\* The process of the request dies, or its database connection.
Die(r) ==
    /\ faults < MaxFaults
    /\ pc[r] \notin {"post", "done"}
    /\ faults' = faults + 1
    /\ Finish(r, "died")
    /\ UNCHANGED <<body, key, idx, shown, tables, deleted>>

\* ps_remove_data deletes an object of which it saw an event type, and with it
\* every row that refers to it, in one transaction.
Delete(o) ==
    /\ Cardinality(deleted) < MaxDeletes
    /\ events[o.key] # <<>>
    /\ metadata' = metadata \ {o}
    /\ subjects' = subjects \ {o.key}
    /\ events' = [events EXCEPT ![o.key] = <<>>]
    /\ params' = [params EXCEPT ![o.key] = <<>>]
    /\ deleted' = deleted \cup {o.key}
    /\ UNCHANGED <<localVars, faults>>

Step(r) ==
    \/ Reject(r) \/ Count(r) \/ Fetch(r)
    \/ CreateMetadata(r) \/ CreateSubject(r) \/ CreateEvent(r) \/ CreateParameter(r)
    \/ ShowEvents(r) \/ ShowSubject(r) \/ ShowParameters(r)

AllDone == (\A r \in Request : pc[r] = "done") /\ UNCHANGED vars

Next ==
    \/ \E r \in Request : Step(r) \/ Die(r)
    \/ \E o \in metadata : Delete(o)
    \/ AllDone

Spec == Init /\ [][Next]_vars

-------------------------------------------------------------------------------
(* Properties. *)

\* Two clients that register the same measurement get the same metadata key,
\* whatever the race between them, unless the object was removed between.
OneObjectPerDescription ==
    \A r, q \in Request :
        /\ answer[r] = "201" /\ answer[q] = "201"
        /\ Checksum(body[r]) = Checksum(body[q])
        => key[r] = key[q] \/ (key[r] \cup key[q]) \cap deleted # {}

\* The tables hold no row twice and none that was not asked for: the rows of an
\* object are the first ones of the description it was made from, whoever else
\* registered the same description meanwhile.
RowsAreThoseAskedFor ==
    \A o \in metadata :
        /\ IsPrefix(events[o.key], o.checksum.events)
        /\ \A r \in Request : o.key = r =>
                IsPrefix(params[o.key], Parameters(body[r]))

\* The request that made the object is shown all it asked for, unless the
\* cleaner removed the object meanwhile.
MakerIsShownAll ==
    \A r \in Request :
        /\ answer[r] = "201" /\ key[r] = {r} /\ r \notin deleted
        => /\ shown[r].subject
           /\ shown[r].events = EventRows(body[r])
           /\ shown[r].params = Parameters(body[r])

ReplyOf(r) ==
    CASE answer[r] = "none" -> "none"
      [] answer[r] = "201" -> Key(r)
      [] OTHER -> "failed"

Reg == INSTANCE Registry WITH
    wanted  <- [r \in Request |-> Checksum(body[r])],
    objects <- metadata,
    handle  <- key,
    reply   <- [r \in Request |-> ReplyOf(r)]

\* create() implements the registry: the insert into ps_metadata, or the query
\* that finds the object, is the one step that binds a request to its object.
Implements == Reg!RegSpec
===============================================================================
