----------------------------- MODULE ArchiveProofs -----------------------------
(***************************************************************************)
(* One object per description, with the rows it was asked for, for any     *)
(* number of requests.  The invariant ties an object to the request that   *)
(* drew its key: until the insert nobody knows the key, afterwards only    *)
(* that request adds rows, one after the other, and only the cleaner takes *)
(* the object away.                                                        *)
(***************************************************************************)
EXTENDS Archive, SequenceTheorems, TLAPS

Unbound == {"post", "fetch", "create"}
Making == {"subject", "events", "params"}
Showing == {"showEvents", "showSubject", "showParameters"}

Types ==
    /\ body \in [Request -> Body]
    /\ pc \in [Request -> Unbound \cup Making \cup Showing \cup {"done"}]
    /\ key \in [Request -> SUBSET Request]
    /\ idx \in [Request -> Nat]
    /\ shown \in [Request -> [subject : BOOLEAN, events : Seq(EventRow), params : Seq(Parameter)]]
    /\ answer \in [Request -> {"none", "201", "400", "500", "died"}]
    /\ metadata \subseteq [key : Request, checksum : {Checksum(b) : b \in Body}]
    /\ subjects \subseteq Request
    /\ events \in [Request -> Seq(EventRow)] /\ params \in [Request -> Seq(Parameter)]
    /\ deleted \subseteq Request

\* A request that is not done has no answer; one that was accepted is valid.
RunningAt(r) ==
    /\ answer[r] = "none" <=> pc[r] # "done"
    /\ pc[r] \notin {"post", "done"} => Valid(body[r])

\* Until a request is bound to an object nobody knows its key.
FreshAt(r) ==
    pc[r] \in Unbound => key[r] = {} /\ idx[r] = 1 /\ r \notin Keys /\ r \notin deleted

\* A request that has an object in hand: one of its own description, unless it
\* was deleted.
HeldAt(r) ==
    /\ pc[r] \in Making => key[r] = {r}
    /\ pc[r] \in Making \cup Showing \/ answer[r] = "201" =>
            \E k \in Request :
                /\ key[r] = {k}
                /\ k \in deleted \/ [key |-> k, checksum |-> Checksum(body[r])] \in metadata

\* An object is that of the request that drew its key.
Owned ==
    \A o \in metadata :
        /\ o.checksum = Checksum(body[o.key]) /\ Valid(body[o.key])
        /\ pc[o.key] \notin Unbound /\ key[o.key] = {o.key} /\ o.key \notin deleted

Unique == \A o, p \in metadata : o.checksum = p.checksum => o = p

First(s, n) == SubSeq(s, 1, n)
Asked(r) == EventRows(body[r])
AskedParams(r) == Parameters(body[r])

\* The rows of an object are the first ones that its request asked for, as many
\* as its loops have been through.
RowsAt(r) ==
    /\ \E n \in 0..Len(Asked(r)) : events[r] = First(Asked(r), n)
    /\ \E n \in 0..Len(AskedParams(r)) : params[r] = First(AskedParams(r), n)
    /\ pc[r] = "subject" => idx[r] = 1 /\ events[r] = <<>> /\ params[r] = <<>>
    /\ pc[r] = "events" =>
            /\ idx[r] \in 1..(Len(Asked(r)) + 1) /\ events[r] = First(Asked(r), idx[r] - 1)
            /\ params[r] = <<>> /\ r \in subjects
    /\ pc[r] = "params" =>
            /\ idx[r] \in 1..(Len(AskedParams(r)) + 1)
            /\ params[r] = First(AskedParams(r), idx[r] - 1)
            /\ events[r] = Asked(r) /\ r \in subjects
    /\ pc[r] \in Showing \/ answer[r] = "201" =>
            events[r] = Asked(r) /\ params[r] = AskedParams(r) /\ r \in subjects

NoRowsAt(r) == events[r] = <<>> /\ params[r] = <<>>

\* What the maker of an object has been shown of it so far.
ShownAt(r) ==
    /\ pc[r] \in {"showSubject", "showParameters"} \/ answer[r] = "201" =>
            shown[r].events = Asked(r)
    /\ pc[r] = "showParameters" \/ answer[r] = "201" => shown[r].subject
    /\ answer[r] = "201" => shown[r].params = AskedParams(r)

\* The part of the invariant about one request, and the object it made.
At(r) ==
    /\ RunningAt(r) /\ FreshAt(r) /\ HeldAt(r)
    /\ IF r \in Keys THEN RowsAt(r) /\ ShownAt(r) ELSE NoRowsAt(r)

ArchiveInv == Types /\ Owned /\ Unique /\ \A r \in Request : At(r)

\* The loops append the next row of a description to those they have stored.
LEMMA FirstGrows ==
    ASSUME NEW S, NEW s \in Seq(S), NEW n \in 1..Len(s)
    PROVE  Append(First(s, n - 1), s[n]) = First(s, n)
<1>1. First(s, n - 1) \in Seq(S) /\ s[n] \in S
  BY DEF First
<1>2. First(s, n) \in Seq(S) /\ Len(First(s,n)) = n
  BY DEF First
<1>4. Len(First(s, n-1)) = n - 1
  BY DEF First
<1>3. QED
  BY <1>1, <1>2, <1>4 DEF First

\* No rows before a loop, all rows after it.
LEMMA FirstEnds ==
    ASSUME NEW S, NEW s \in Seq(S)
    PROVE  First(s, 0) = <<>> /\ First(s, Len(s)) = s
<1>1. SubSeq(s, 1, Len(s)) = s
  BY SubSeqFull
<1>2. SubSeq(s, 1, 0) = <<>>
  BY SubSeqEmpty
<1>3. QED
  BY <1>1, <1>2 DEF First

\* The rows a loop has stored are a prefix of those asked for.
LEMMA FirstIsPrefix ==
    ASSUME NEW S, NEW s \in Seq(S), NEW n \in 0..Len(s)
    PROVE  IsPrefix(First(s, n), s)
<1>1. First(s, n) \in Seq(S) /\ Len(First(s, n)) = n
  BY DEF First
<1>2. SubSeq(First(s, n), 1, n) = First(s, n)
  BY <1>1, SubSeqFull
<1>3. QED
  BY <1>1, <1>2 DEF IsPrefix, First

\* No request has been handled.
LEMMA InitInv == Init => ArchiveInv
<1> SUFFICES ASSUME Init PROVE ArchiveInv
  OBVIOUS
<1>1. Types
  BY DEF Init, Types, Unbound, Making, Showing, Nothing
<1>2. Owned /\ Unique /\ Keys = {}
  BY DEF Init, Owned, Unique, Keys
<1>3. \A r \in Request : At(r)
  BY <1>1, <1>2 DEF Init, At, RunningAt, FreshAt, HeldAt, NoRowsAt, Making, Showing, Types
<1>4. QED
  BY <1>1, <1>2, <1>3 DEF ArchiveInv

\* The request q is not touched by a step of another one.
Untouched(q) ==
    /\ pc'[q] = pc[q] /\ key'[q] = key[q] /\ idx'[q] = idx[q]
    /\ shown'[q] = shown[q] /\ answer'[q] = answer[q]
    /\ events'[q] = events[q] /\ params'[q] = params[q]
    /\ q \in subjects' <=> q \in subjects

\* A step of a request that inserts no object: the invariant of the others is
\* kept when their rows are left alone.
LEMMA OwnStep ==
    ASSUME ArchiveInv, NEW r \in Request, Types', At(r)',
           UNCHANGED <<body, metadata, deleted>>,
           \A q \in Request : q # r => Untouched(q),
           r \in Keys => key'[r] = key[r] /\ pc'[r] \notin Unbound
    PROVE  ArchiveInv'
<1>1. Types /\ Owned /\ Unique /\ \A q \in Request : At(q)
  BY DEF ArchiveInv
<1>2. Keys' = Keys
  BY DEF Keys
<1>3. Owned' /\ Unique'
  <2>1. Unique'
    BY <1>1 DEF Unique
  <2>2. ASSUME NEW o \in metadata
        PROVE  /\ o.checksum = Checksum(body[o.key]) /\ Valid(body[o.key])
               /\ pc'[o.key] \notin Unbound /\ key'[o.key] = {o.key} /\ o.key \notin deleted
    <3>1. o.key \in Request /\ o.key \in Keys
      BY <1>1 DEF Types, Keys
    <3>2. QED
      BY <1>1, <3>1 DEF Owned, Untouched
  <2>3. QED
    BY <2>1, <2>2 DEF Owned
<1>4. ASSUME NEW q \in Request, q # r PROVE At(q)'
  <2>1. At(q) /\ Untouched(q)
    BY <1>1, <1>4
  <2>2. RunningAt(q)' /\ FreshAt(q)' /\ HeldAt(q)'
    BY <1>2, <2>1 DEF At, Untouched, RunningAt, FreshAt, HeldAt
  <2>3. IF q \in Keys' THEN RowsAt(q)' /\ ShownAt(q)' ELSE NoRowsAt(q)'
    BY <1>2, <2>1 DEF At, Untouched, RowsAt, ShownAt, NoRowsAt, Asked, AskedParams
  <2>4. QED
    BY <2>2, <2>3 DEF At
<1>5. QED
  BY <1>1, <1>3, <1>4 DEF ArchiveInv

\* What the rows of an accepted body are.
LEMMA AskedTypes ==
    ASSUME Types, NEW r \in Request, Valid(body[r])
    PROVE  Asked(r) \in Seq(EventRow) /\ AskedParams(r) \in Seq(Parameter)
BY RowsAssumption DEF Types, Asked, AskedParams

\* A request in hand of one object.
LEMMA KeyIs ==
    ASSUME NEW r, NEW k, key[r] = {k}
    PROVE  Key(r) = k
BY DEF Key

\* to_internal_value refuses the body.
LEMMA RejectInv ==
    ASSUME ArchiveInv, NEW r \in Request, Reject(r)
    PROVE  ArchiveInv'
<1>0. Types /\ Owned /\ Unique /\ At(r)
  BY DEF ArchiveInv
<1> USE DEF Unbound, Making, Showing
<1>1. Types'
  BY <1>0 DEF Reject, Goto, Finish, Types, tables, Existing
<1>2. /\ UNCHANGED <<body, metadata, deleted>> /\ Keys' = Keys
      /\ \A q \in Request : q # r => Untouched(q)
  BY <1>0 DEF Reject, Goto, Finish, Types, tables, Untouched, Keys
<1>3. r \notin Keys /\ NoRowsAt(r)'
  BY <1>0, <1>2 DEF Reject, At, FreshAt, NoRowsAt, tables
<1>4. RunningAt(r)' /\ FreshAt(r)' /\ HeldAt(r)' /\ Keys' = Keys
  BY <1>0, <1>2 DEF Reject, Finish, Types, RunningAt, FreshAt, HeldAt
<1>5. At(r)'
  BY <1>3, <1>4 DEF At
<1>6. QED
  BY <1>1, <1>2, <1>3, <1>5, OwnStep
\* The count of the objects with the checksum.
LEMMA CountInv ==
    ASSUME ArchiveInv, NEW r \in Request, Count(r)
    PROVE  ArchiveInv'
<1>0. Types /\ Owned /\ Unique /\ At(r)
  BY DEF ArchiveInv
<1> USE DEF Unbound, Making, Showing
<1>1. Types'
  BY <1>0 DEF Count, Goto, Finish, Types, tables, Existing
<1>2. /\ UNCHANGED <<body, metadata, deleted>> /\ Keys' = Keys
      /\ \A q \in Request : q # r => Untouched(q)
  BY <1>0 DEF Count, Goto, Finish, Types, tables, Untouched, Keys
<1>3. r \notin Keys /\ NoRowsAt(r)'
  BY <1>0, <1>2 DEF Count, At, FreshAt, NoRowsAt, tables
<1>4. RunningAt(r)' /\ FreshAt(r)' /\ HeldAt(r)'
  BY <1>0, <1>2 DEF Count, Goto, Types, At, RunningAt, FreshAt, HeldAt
<1>5. At(r)'
  BY <1>2, <1>3, <1>4 DEF At
<1>6. QED
  BY <1>1, <1>2, <1>3, <1>5, OwnStep
\* The query for the object, which may be gone.
LEMMA FetchInv ==
    ASSUME ArchiveInv, NEW r \in Request, Fetch(r)
    PROVE  ArchiveInv'
<1>0. Types /\ Owned /\ Unique /\ At(r)
  BY DEF ArchiveInv
<1> USE DEF Unbound, Making, Showing
<1>1. Types'
  <2>1. \A o \in Existing(r) : {o.key} \in SUBSET Request
    BY <1>0 DEF Types, Existing
  <2>2. key' \in [Request -> SUBSET Request]
    <3>1. CASE Existing(r) = {}
      BY <1>0, <3>1 DEF Fetch, Types
    <3>2. ASSUME NEW o \in Existing(r), key' = [key EXCEPT ![r] = {o.key}]
          PROVE  key' \in [Request -> SUBSET Request]
      BY <1>0, <2>1, <3>2 DEF Types
    <3>3. QED
      BY <3>1, <3>2 DEF Fetch
  <2>3. QED
    BY <1>0, <2>2 DEF Fetch, Goto, Finish, Types, tables
<1>2. /\ UNCHANGED <<body, metadata, deleted>> /\ Keys' = Keys
      /\ \A q \in Request : q # r => Untouched(q)
  BY <1>0 DEF Fetch, Goto, Finish, Types, tables, Untouched, Keys
<1>3. r \notin Keys /\ NoRowsAt(r)'
  BY <1>0, <1>2 DEF Fetch, At, FreshAt, NoRowsAt, tables
<1>4. RunningAt(r)' /\ FreshAt(r)'
  BY <1>0, <1>2 DEF Fetch, Goto, Finish, Types, At, RunningAt, FreshAt
<1>5. HeldAt(r)'
  <2>1. CASE Existing(r) = {}
    BY <1>0, <1>2, <2>1 DEF Fetch, Finish, Types, HeldAt
  <2>2. CASE Existing(r) # {}
    <3>1. PICK o \in Existing(r) : key' = [key EXCEPT ![r] = {o.key}]
      BY <2>2 DEF Fetch
    <3>2. o.key \in Request /\ o = [key |-> o.key, checksum |-> Checksum(body[r])]
      BY <1>0, <3>1 DEF Types, Existing
    <3>3. o \in metadata /\ key'[r] = {o.key} /\ pc'[r] = "showEvents"
      BY <1>0, <2>2, <3>1 DEF Fetch, Goto, Types, Existing
    <3>4. QED
      BY <1>2, <3>2, <3>3 DEF HeldAt
  <2>3. QED
    BY <2>1, <2>2
<1>6. At(r)'
  BY <1>2, <1>3, <1>4, <1>5 DEF At
<1>7. QED
  BY <1>1, <1>2, <1>3, <1>6, OwnStep
\* The maker of an object has it in hand.
LEMMA MakerHolds ==
    ASSUME ArchiveInv, NEW r \in Request, pc[r] \in Making \/ r \in Keys
    PROVE  key[r] = {r} /\ Key(r) = r
<1>1. key[r] = {r}
  BY DEF ArchiveInv, At, HeldAt, Owned, Keys
<1>2. QED
  BY <1>1, KeyIs

Label == Unbound \cup Making \cup Showing \cup {"done"}
Code == {"none", "201", "400", "500", "died"}

\* Where a request goes on, and how it ends, has its type.
LEMMA ControlTyped ==
    ASSUME Types, NEW r \in Request
    PROVE  /\ \A l \in Label : Goto(r, l) => pc' \in [Request -> Label]
           /\ \A c \in Code : Finish(r, c) => /\ pc' \in [Request -> Label]
                                              /\ answer' \in [Request -> Code]
<1>1. pc \in [Request -> Label] /\ answer \in [Request -> Code] /\ "done" \in Label
  BY DEF Types, Label, Code
<1>2. ASSUME NEW l \in Label, Goto(r, l) PROVE pc' \in [Request -> Label]
  BY <1>1, <1>2 DEF Goto
<1>3. ASSUME NEW c \in Code, Finish(r, c)
      PROVE  pc' \in [Request -> Label] /\ answer' \in [Request -> Code]
  BY <1>1, <1>3 DEF Finish
<1>4. QED
  BY <1>2, <1>3

\* The subject row.
LEMMA CreateSubjectInv ==
    ASSUME ArchiveInv, NEW r \in Request, CreateSubject(r)
    PROVE  ArchiveInv'
<1> USE DEF Unbound, Making, Showing
<1>0. Types /\ Owned /\ Unique /\ At(r)
  BY DEF ArchiveInv
<1>a. key[r] = {r} /\ Key(r) = r
  BY MakerHolds DEF CreateSubject
<1>1. Types'
  <2>1. pc' \in [Request -> Label] /\ answer' \in [Request -> Code]
    <3>1. /\ pc \in [Request -> Label] /\ answer \in [Request -> Code]
          /\ "events" \in Label /\ "500" \in Code
      BY <1>0 DEF Types, Label, Code
    <3>2. \/ Goto(r, "events") /\ answer' = answer
          \/ Finish(r, "500")
      BY DEF CreateSubject
    <3>3. QED
      BY <1>0, <3>1, <3>2, ControlTyped
  <2>2. subjects' \subseteq Request
    BY <1>0, <1>a DEF CreateSubject, Types
  <2>3. UNCHANGED <<body, key, idx, shown, metadata, events, params, deleted>>
    BY DEF CreateSubject
  <2>4. QED
    BY <1>0, <2>1, <2>2, <2>3 DEF Types, Label, Code
<1>2. /\ UNCHANGED <<body, metadata, deleted>> /\ Keys' = Keys
      /\ \A q \in Request : q # r => Untouched(q)
  BY <1>0, <1>a DEF CreateSubject, Goto, Finish, Types, Untouched, Keys
<1>3. key' = key /\ pc'[r] \notin Unbound /\ RunningAt(r)' /\ FreshAt(r)'
  BY <1>0, <1>2 DEF CreateSubject, Goto, Finish, Types, At, RunningAt, FreshAt
<1>4. HeldAt(r)'
  BY <1>0, <1>2 DEF CreateSubject, Goto, Finish, Types, At, HeldAt
<1>5. ASSUME r \notin Keys PROVE NoRowsAt(r)'
  BY <1>0, <1>2, <1>5 DEF CreateSubject, At, NoRowsAt
<1>6. ASSUME r \in Keys PROVE RowsAt(r)' /\ ShownAt(r)'
  <2>1. Valid(body[r]) /\ RowsAt(r)
    BY <1>0, <1>6 DEF CreateSubject, At, RunningAt
  <2>2. Asked(r) \in Seq(EventRow) /\ AskedParams(r) \in Seq(Parameter)
    BY <1>0, <2>1, AskedTypes
  <2>3. First(Asked(r), 0) = <<>> /\ First(AskedParams(r), 0) = <<>>
    BY <2>2, FirstEnds
  <2>4. RowsAt(r)'
    BY <1>0, <1>2, <2>1, <2>2, <2>3 DEF CreateSubject, Goto, Finish, Types, RowsAt, At, HeldAt,
       Asked, AskedParams
  <2>5. ShownAt(r)'
    BY <1>0, <1>2 DEF CreateSubject, Goto, Finish, Types, ShownAt, At, RunningAt
  <2>6. QED
    BY <2>4, <2>5
<1>7. At(r)'
  BY <1>2, <1>3, <1>4, <1>5, <1>6 DEF At
<1>8. QED
  BY <1>1, <1>2, <1>3, <1>7, OwnStep

\* One row of the loop over the event types, or its end.
LEMMA CreateEventInv ==
    ASSUME ArchiveInv, NEW r \in Request, CreateEvent(r)
    PROVE  ArchiveInv'
<1> USE DEF Unbound, Making, Showing
<1>0. Types /\ Owned /\ Unique /\ At(r)
  BY DEF ArchiveInv
<1>a. key[r] = {r} /\ Key(r) = r
  BY MakerHolds DEF CreateEvent
<1>b. Asked(r) \in Seq(EventRow) /\ AskedParams(r) \in Seq(Parameter)
  BY <1>0, AskedTypes DEF CreateEvent, At, RunningAt
<1>c. ASSUME idx[r] <= Len(Asked(r)), r \in Keys
      PROVE  Append(events[r], Asked(r)[idx[r]]) = First(Asked(r), idx[r])
  <2>1. idx[r] \in 1..Len(Asked(r)) /\ events[r] = First(Asked(r), idx[r] - 1)
    BY <1>0, <1>b, <1>c DEF CreateEvent, At, RowsAt
  <2>2. QED
    BY <1>b, <2>1, FirstGrows
<1>d. ASSUME idx[r] <= Len(Asked(r)), r \in Keys
      PROVE  First(Asked(r), idx[r]) \in Seq(EventRow)
  <2>1. idx[r] \in 1..Len(Asked(r))
    BY <1>0, <1>b, <1>d DEF CreateEvent, At, RowsAt
  <2>2. QED
    BY <1>b, <2>1 DEF First
<1>1. Types'
  <2>1. events' \in [Request -> Seq(EventRow)]
    <3>1. CASE idx[r] <= Len(Asked(r)) /\ r \in Keys
      <4>1. \/ events' = events
            \/ events' = [events EXCEPT ![r] = Append(events[r], Asked(r)[idx[r]])]
        BY <1>a DEF CreateEvent, Asked
      <4>2. QED
        <5>1. events \in [Request -> Seq(EventRow)]
          BY <1>0 DEF Types
        <5>2. QED
          BY <1>c, <1>d, <3>1, <4>1, <5>1
    <3>2. CASE ~ (idx[r] <= Len(Asked(r)) /\ r \in Keys)
      BY <1>0, <1>a, <3>2 DEF CreateEvent, Types, Dangling, Asked
    <3>3. QED
      BY <3>1, <3>2
  <2>2. idx' \in [Request -> Nat]
    <3>1. idx \in [Request -> Nat]
      BY <1>0 DEF Types
    <3>2. \/ idx' = idx
          \/ idx' = [idx EXCEPT ![r] = idx[r] + 1]
          \/ idx' = [idx EXCEPT ![r] = 1]
      BY DEF CreateEvent
    <3>3. QED
      BY <3>1, <3>2
  <2>3. pc' \in [Request -> Label] /\ answer' \in [Request -> Code]
    <3>1. /\ pc \in [Request -> Label] /\ answer \in [Request -> Code]
          /\ "params" \in Label /\ "500" \in Code
      BY <1>0 DEF Types, Label, Code
    <3>2. \/ Goto(r, "params") /\ answer' = answer
          \/ Finish(r, "500")
          \/ pc' = pc /\ answer' = answer
      BY DEF CreateEvent
    <3>3. QED
      BY <1>0, <3>1, <3>2, ControlTyped
  <2>4. QED
    BY <1>0, <2>1, <2>2, <2>3 DEF CreateEvent, Types, Label, Code
<1>2. /\ UNCHANGED <<body, metadata, deleted>> /\ Keys' = Keys
      /\ \A q \in Request : q # r => Untouched(q)
  BY <1>0, <1>a DEF CreateEvent, Goto, Finish, Types, Untouched, Keys
<1>3. key' = key /\ pc'[r] \notin Unbound /\ RunningAt(r)' /\ FreshAt(r)'
  BY <1>0, <1>2 DEF CreateEvent, Goto, Finish, Types, At, RunningAt, FreshAt
<1>4. HeldAt(r)'
  BY <1>0, <1>2 DEF CreateEvent, Goto, Finish, Types, At, HeldAt
<1>5. ASSUME r \notin Keys PROVE NoRowsAt(r)'
  BY <1>0, <1>2, <1>5, <1>a DEF CreateEvent, At, NoRowsAt, Dangling
<1>6. ASSUME r \in Keys PROVE RowsAt(r)' /\ ShownAt(r)'
  <2>1. RowsAt(r) /\ ~ Dangling(r)
    BY <1>0, <1>6, <1>a DEF CreateEvent, At, Dangling
  <2>2. CASE idx[r] <= Len(Asked(r))
    <3>1. /\ events'[r] = First(Asked(r), idx[r]) /\ idx'[r] = idx[r] + 1
          /\ pc' = pc /\ answer' = answer /\ params' = params /\ subjects' = subjects
      <4>1. /\ events' = [events EXCEPT ![r] = Append(events[r], Asked(r)[idx[r]])]
            /\ idx' = [idx EXCEPT ![r] = @ + 1] /\ UNCHANGED <<pc, answer, params, subjects>>
        BY <1>0, <1>a, <1>b, <2>1, <2>2 DEF CreateEvent, Asked, Types
      <4>2. QED
        BY <1>0, <1>c, <1>6, <2>2, <4>1 DEF Types
    <3>2. QED
      <4>1. idx[r] \in 1..Len(Asked(r)) /\ pc[r] = "events" /\ answer[r] # "201"
        BY <1>0, <1>b, <2>1, <2>2 DEF CreateEvent, RowsAt, At, RunningAt
      <4>2. idx'[r] \in 1..(Len(Asked(r)) + 1) /\ idx'[r] - 1 = idx[r]
        BY <1>b, <3>1, <4>1
      <4>3. UNCHANGED <<Asked(r), AskedParams(r)>>
        BY <1>2 DEF Asked, AskedParams
      <4>4. idx[r] \in 0..Len(Asked(r))
        BY <1>b, <4>1
      <4>5. QED
        BY <2>1, <3>1, <4>1, <4>2, <4>3, <4>4 DEF RowsAt, ShownAt
  <2>3. CASE idx[r] > Len(Asked(r))
    <3>1. /\ idx'[r] = 1 /\ pc'[r] = "params"
          /\ UNCHANGED <<events, params, subjects, answer>>
      BY <1>0, <1>b, <2>3 DEF CreateEvent, Goto, Types, Asked
    <3>2. events[r] = Asked(r)
      BY <1>b, <2>1, <2>3, FirstEnds DEF CreateEvent, RowsAt
    <3>3. params[r] = First(AskedParams(r), 0)
      BY <1>b, <2>1, FirstEnds DEF CreateEvent, RowsAt
    <3>4. QED
      BY <1>0, <1>2, <1>b, <2>1, <3>1, <3>2, <3>3 DEF CreateEvent, RowsAt, ShownAt, At, RunningAt,
         Asked, AskedParams, Types
  <2>4. QED
    BY <1>0, <1>b, <2>2, <2>3 DEF Types
<1>7. At(r)'
  BY <1>2, <1>3, <1>4, <1>5, <1>6 DEF At
<1>8. QED
  BY <1>1, <1>2, <1>3, <1>7, OwnStep

\* One row of the loop over the parameters, or its end.
LEMMA CreateParameterInv ==
    ASSUME ArchiveInv, NEW r \in Request, CreateParameter(r)
    PROVE  ArchiveInv'
<1> USE DEF Unbound, Making, Showing
<1>0. Types /\ Owned /\ Unique /\ At(r)
  BY DEF ArchiveInv
<1>a. key[r] = {r} /\ Key(r) = r
  BY MakerHolds DEF CreateParameter
<1>b. Asked(r) \in Seq(EventRow) /\ AskedParams(r) \in Seq(Parameter)
  BY <1>0, AskedTypes DEF CreateParameter, At, RunningAt
<1>c. ASSUME idx[r] <= Len(AskedParams(r)), r \in Keys
      PROVE  Append(params[r], AskedParams(r)[idx[r]]) = First(AskedParams(r), idx[r])
  <2>1. idx[r] \in 1..Len(AskedParams(r)) /\ params[r] = First(AskedParams(r), idx[r] - 1)
    BY <1>0, <1>b, <1>c DEF CreateParameter, At, RowsAt
  <2>2. QED
    BY <1>b, <2>1, FirstGrows
<1>d. ASSUME idx[r] <= Len(AskedParams(r)), r \in Keys
      PROVE  First(AskedParams(r), idx[r]) \in Seq(Parameter)
  <2>1. idx[r] \in 1..Len(AskedParams(r))
    BY <1>0, <1>b, <1>d DEF CreateParameter, At, RowsAt
  <2>2. QED
    BY <1>b, <2>1 DEF First
<1>1. Types'
  <2>1. params' \in [Request -> Seq(Parameter)]
    <3>1. CASE idx[r] <= Len(AskedParams(r)) /\ r \in Keys
      <4>1. \/ params' = params
            \/ params' = [params EXCEPT ![r] = Append(params[r], AskedParams(r)[idx[r]])]
        BY <1>a DEF CreateParameter, AskedParams
      <4>2. QED
        <5>1. params \in [Request -> Seq(Parameter)]
          BY <1>0 DEF Types
        <5>2. QED
          BY <1>c, <1>d, <3>1, <4>1, <5>1
    <3>2. CASE ~ (idx[r] <= Len(AskedParams(r)) /\ r \in Keys)
      BY <1>0, <1>a, <3>2 DEF CreateParameter, Types, Dangling, AskedParams
    <3>3. QED
      BY <3>1, <3>2
  <2>2. idx' \in [Request -> Nat]
    <3>1. idx \in [Request -> Nat]
      BY <1>0 DEF Types
    <3>2. \/ idx' = idx
          \/ idx' = [idx EXCEPT ![r] = idx[r] + 1]
          \/ idx' = [idx EXCEPT ![r] = 1]
      BY DEF CreateParameter
    <3>3. QED
      BY <3>1, <3>2
  <2>3. pc' \in [Request -> Label] /\ answer' \in [Request -> Code]
    <3>1. /\ pc \in [Request -> Label] /\ answer \in [Request -> Code]
          /\ "showEvents" \in Label /\ "500" \in Code
      BY <1>0 DEF Types, Label, Code
    <3>2. \/ Goto(r, "showEvents") /\ answer' = answer
          \/ Finish(r, "500")
          \/ pc' = pc /\ answer' = answer
      BY DEF CreateParameter
    <3>3. QED
      BY <1>0, <3>1, <3>2, ControlTyped
  <2>4. QED
    BY <1>0, <2>1, <2>2, <2>3 DEF CreateParameter, Types, Label, Code
<1>2. /\ UNCHANGED <<body, metadata, deleted>> /\ Keys' = Keys
      /\ \A q \in Request : q # r => Untouched(q)
  BY <1>0, <1>a DEF CreateParameter, Goto, Finish, Types, Untouched, Keys
<1>3. key' = key /\ pc'[r] \notin Unbound /\ RunningAt(r)' /\ FreshAt(r)'
  BY <1>0, <1>2 DEF CreateParameter, Goto, Finish, Types, At, RunningAt, FreshAt
<1>4. HeldAt(r)'
  BY <1>0, <1>2 DEF CreateParameter, Goto, Finish, Types, At, HeldAt
<1>5. ASSUME r \notin Keys PROVE NoRowsAt(r)'
  BY <1>0, <1>2, <1>5, <1>a DEF CreateParameter, At, NoRowsAt, Dangling
<1>6. ASSUME r \in Keys PROVE RowsAt(r)' /\ ShownAt(r)'
  <2>1. RowsAt(r) /\ ~ Dangling(r)
    BY <1>0, <1>6, <1>a DEF CreateParameter, At, Dangling
  <2>2. CASE idx[r] <= Len(AskedParams(r)) /\ UNCHANGED pc
    <3>1. /\ params'[r] = First(AskedParams(r), idx[r]) /\ idx'[r] = idx[r] + 1
          /\ pc' = pc /\ answer' = answer /\ events' = events /\ subjects' = subjects
      BY <1>0, <1>a, <1>b, <1>c, <1>6, <2>1, <2>2 DEF CreateParameter, Types, AskedParams, Goto,
         Finish
    <3>2. QED
      <4>1. idx[r] \in 1..Len(AskedParams(r)) /\ pc[r] = "params" /\ answer[r] # "201"
        BY <1>0, <1>b, <2>1, <2>2 DEF CreateParameter, RowsAt, At, RunningAt
      <4>2. idx'[r] \in 1..(Len(AskedParams(r)) + 1) /\ idx'[r] - 1 = idx[r]
        BY <1>b, <3>1, <4>1
      <4>3. UNCHANGED <<Asked(r), AskedParams(r)>>
        BY <1>2 DEF Asked, AskedParams
      <4>4. idx[r] \in 0..Len(AskedParams(r))
        BY <1>b, <4>1
      <4>5. QED
        BY <2>1, <3>1, <4>1, <4>2, <4>3, <4>4 DEF RowsAt, ShownAt
  <2>3. CASE idx[r] <= Len(AskedParams(r)) /\ pc' # pc
    <3>1. pc'[r] = "done" /\ answer'[r] = "500" /\ UNCHANGED <<events, params, subjects>>
      BY <1>0, <1>b, <2>3 DEF CreateParameter, Types, AskedParams, Finish
    <3>2. QED
      BY <1>2, <2>1, <3>1 DEF RowsAt, ShownAt, Asked, AskedParams
  <2>4. CASE idx[r] > Len(AskedParams(r))
    <3>1. pc'[r] = "showEvents" /\ UNCHANGED <<events, params, subjects, answer, idx>>
      BY <1>0, <1>b, <2>4 DEF CreateParameter, Goto, Types, AskedParams
    <3>2. params[r] = AskedParams(r)
      <4>1. idx[r] - 1 = Len(AskedParams(r)) /\ params[r] = First(AskedParams(r), idx[r] - 1)
        BY <1>b, <2>1, <2>4 DEF CreateParameter, RowsAt
      <4>2. QED
        BY <1>b, <4>1, FirstEnds
    <3>3. QED
      BY <1>0, <1>2, <2>1, <3>1, <3>2 DEF CreateParameter, RowsAt, ShownAt, At, RunningAt,
         Asked, AskedParams
  <2>5. QED
    BY <1>0, <1>b, <2>2, <2>3, <2>4 DEF Types
<1>7. At(r)'
  BY <1>2, <1>3, <1>4, <1>5, <1>6 DEF At
<1>8. QED
  BY <1>1, <1>2, <1>3, <1>7, OwnStep

\* The answer reads the event types, with the loops of its maker behind it.
LEMMA ShowEventsInv ==
    ASSUME ArchiveInv, NEW r \in Request, ShowEvents(r)
    PROVE  ArchiveInv'
<1> USE DEF Unbound, Making, Showing
<1>0. Types /\ Owned /\ Unique /\ At(r)
  BY DEF ArchiveInv
<1>a. Key(r) \in Request
  BY <1>0, KeyIs DEF ShowEvents, At, HeldAt
<1>1. Types'
  BY <1>0, <1>a DEF ShowEvents, Goto, Finish, Types, tables
<1>2. /\ UNCHANGED <<body, metadata, deleted, tables>> /\ Keys' = Keys
      /\ \A q \in Request : q # r => Untouched(q)
  BY <1>0 DEF ShowEvents, Goto, Finish, Types, Untouched, Keys, tables
<1>3. key' = key /\ pc'[r] \notin Unbound /\ RunningAt(r)' /\ FreshAt(r)'
  BY <1>0, <1>2 DEF ShowEvents, Goto, Finish, Types, At, RunningAt, FreshAt
<1>4. HeldAt(r)'
  BY <1>0, <1>2 DEF ShowEvents, Goto, Finish, Types, At, HeldAt
<1>5. ASSUME r \notin Keys PROVE NoRowsAt(r)'
  BY <1>0, <1>2, <1>5 DEF At, NoRowsAt, tables
<1>6. ASSUME r \in Keys PROVE RowsAt(r)' /\ ShownAt(r)'
  <2>1. RowsAt(r) /\ ShownAt(r) /\ Key(r) = r
    BY <1>0, <1>6, MakerHolds DEF At
  <2>2. RowsAt(r)'
    BY <1>0, <1>2, <2>1 DEF ShowEvents, Goto, Finish, Types, tables, RowsAt, Asked, AskedParams
  <2>3. ShownAt(r)'
    BY <1>0, <1>2, <2>1 DEF ShowEvents, Goto, Finish, Types, tables, RowsAt, ShownAt, Asked,
       AskedParams, At, RunningAt
  <2>4. QED
    BY <2>2, <2>3
<1>7. At(r)'
  BY <1>2, <1>3, <1>4, <1>5, <1>6 DEF At
<1>8. QED
  BY <1>1, <1>2, <1>3, <1>7, OwnStep

\* The answer reads the subject.
LEMMA ShowSubjectInv ==
    ASSUME ArchiveInv, NEW r \in Request, ShowSubject(r)
    PROVE  ArchiveInv'
<1> USE DEF Unbound, Making, Showing
<1>0. Types /\ Owned /\ Unique /\ At(r)
  BY DEF ArchiveInv
<1>a. Key(r) \in Request
  BY <1>0, KeyIs DEF ShowSubject, At, HeldAt
<1>1. Types'
  <2>1. /\ shown' = [shown EXCEPT ![r].subject = (Key(r) \in subjects)]
        /\ (Key(r) \in subjects) \in BOOLEAN
    BY DEF ShowSubject
  <2>2. shown' \in [Request -> [subject : BOOLEAN, events : Seq(EventRow), params : Seq(Parameter)]]
    BY <1>0, <2>1, Zenon DEF Types
  <2>3. QED
    BY <1>0, <2>2 DEF ShowSubject, Goto, Types, tables
<1>2. /\ UNCHANGED <<body, metadata, deleted, tables>> /\ Keys' = Keys
      /\ \A q \in Request : q # r => Untouched(q)
  BY <1>0 DEF ShowSubject, Goto, Finish, Types, Untouched, Keys, tables
<1>3. key' = key /\ pc'[r] \notin Unbound /\ RunningAt(r)' /\ FreshAt(r)'
  BY <1>0, <1>2 DEF ShowSubject, Goto, Finish, Types, At, RunningAt, FreshAt
<1>4. HeldAt(r)'
  BY <1>0, <1>2 DEF ShowSubject, Goto, Finish, Types, At, HeldAt
<1>5. ASSUME r \notin Keys PROVE NoRowsAt(r)'
  BY <1>0, <1>2, <1>5 DEF At, NoRowsAt, tables
<1>6. ASSUME r \in Keys PROVE RowsAt(r)' /\ ShownAt(r)'
  <2>1. RowsAt(r) /\ ShownAt(r) /\ Key(r) = r
    BY <1>0, <1>6, MakerHolds DEF At
  <2>2. RowsAt(r)'
    BY <1>0, <1>2, <2>1 DEF ShowSubject, Goto, Finish, Types, tables, RowsAt, Asked, AskedParams
  <2>3. ShownAt(r)'
    BY <1>0, <1>2, <2>1 DEF ShowSubject, Goto, Finish, Types, tables, RowsAt, ShownAt, Asked,
       AskedParams, At, RunningAt
  <2>4. QED
    BY <2>2, <2>3
<1>7. At(r)'
  BY <1>2, <1>3, <1>4, <1>5, <1>6 DEF At
<1>8. QED
  BY <1>1, <1>2, <1>3, <1>7, OwnStep

\* The answer reads the parameters, and is sent.
LEMMA ShowParametersInv ==
    ASSUME ArchiveInv, NEW r \in Request, ShowParameters(r)
    PROVE  ArchiveInv'
<1> USE DEF Unbound, Making, Showing
<1>0. Types /\ Owned /\ Unique /\ At(r)
  BY DEF ArchiveInv
<1>a. Key(r) \in Request
  BY <1>0, KeyIs DEF ShowParameters, At, HeldAt
<1>1. Types'
  BY <1>0, <1>a DEF ShowParameters, Goto, Finish, Types, tables
<1>2. /\ UNCHANGED <<body, metadata, deleted, tables>> /\ Keys' = Keys
      /\ \A q \in Request : q # r => Untouched(q)
  BY <1>0 DEF ShowParameters, Goto, Finish, Types, Untouched, Keys, tables
<1>3. key' = key /\ pc'[r] \notin Unbound /\ RunningAt(r)' /\ FreshAt(r)'
  BY <1>0, <1>2 DEF ShowParameters, Goto, Finish, Types, At, RunningAt, FreshAt
<1>4. HeldAt(r)'
  BY <1>0, <1>2 DEF ShowParameters, Goto, Finish, Types, At, HeldAt
<1>5. ASSUME r \notin Keys PROVE NoRowsAt(r)'
  BY <1>0, <1>2, <1>5 DEF At, NoRowsAt, tables
<1>6. ASSUME r \in Keys PROVE RowsAt(r)' /\ ShownAt(r)'
  <2>1. RowsAt(r) /\ ShownAt(r) /\ Key(r) = r
    BY <1>0, <1>6, MakerHolds DEF At
  <2>2. RowsAt(r)'
    BY <1>0, <1>2, <2>1 DEF ShowParameters, Goto, Finish, Types, tables, RowsAt, Asked, AskedParams
  <2>3. ShownAt(r)'
    BY <1>0, <1>2, <2>1 DEF ShowParameters, Goto, Finish, Types, tables, RowsAt, ShownAt, Asked,
       AskedParams, At, RunningAt
  <2>4. QED
    BY <2>2, <2>3
<1>7. At(r)'
  BY <1>2, <1>3, <1>4, <1>5, <1>6 DEF At
<1>8. QED
  BY <1>1, <1>2, <1>3, <1>7, OwnStep

\* A request that dies leaves the rows it has made.
LEMMA DieInv ==
    ASSUME ArchiveInv, NEW r \in Request, Die(r)
    PROVE  ArchiveInv'
<1> USE DEF Unbound, Making, Showing
<1>0. Types /\ Owned /\ Unique /\ At(r)
  BY DEF ArchiveInv
<1>1. Types'
  BY <1>0 DEF Die, Finish, Types, tables
<1>2. /\ UNCHANGED <<body, metadata, deleted, tables>> /\ Keys' = Keys
      /\ \A q \in Request : q # r => Untouched(q)
  BY <1>0 DEF Die, Finish, Types, Untouched, Keys, tables
<1>3. /\ key' = key /\ pc'[r] = "done" /\ answer'[r] = "died"
      /\ RunningAt(r)' /\ FreshAt(r)' /\ HeldAt(r)'
  BY <1>0, <1>2 DEF Die, Finish, Types, RunningAt, FreshAt, HeldAt
<1>4. IF r \in Keys THEN RowsAt(r)' /\ ShownAt(r)' ELSE NoRowsAt(r)'
  BY <1>0, <1>2, <1>3 DEF At, RowsAt, ShownAt, NoRowsAt, tables, Asked, AskedParams
<1>5. At(r)'
  BY <1>2, <1>3, <1>4 DEF At
<1>6. QED
  BY <1>1, <1>2, <1>3, <1>5, OwnStep

\* The insert: the unique checksum lets it through only when there is no object
\* of the description.
LEMMA CreateMetadataInv ==
    ASSUME ArchiveInv, NEW r \in Request, CreateMetadata(r)
    PROVE  ArchiveInv'
<1> USE DEF Unbound, Making, Showing
<1>0. Types /\ Owned /\ Unique /\ \A q \in Request : At(q)
  BY DEF ArchiveInv
<1>a. r \notin Keys /\ NoRowsAt(r) /\ r \notin deleted /\ Valid(body[r]) /\ idx[r] = 1
  BY <1>0 DEF CreateMetadata, At, FreshAt, RunningAt
<1>1. CASE Existing(r) # {}
  <2>1. Types'
    <3>1. /\ pc' = [pc EXCEPT ![r] = "done"] /\ answer' = [answer EXCEPT ![r] = "500"]
          /\ UNCHANGED <<body, key, idx, shown, metadata, subjects, events, params, deleted>>
      BY <1>1 DEF CreateMetadata, Finish
    <3>2. QED
      BY <1>0, <3>1 DEF Types
  <2>2. /\ UNCHANGED <<body, metadata, deleted, events, params>> /\ Keys' = Keys
        /\ \A q \in Request : q # r => Untouched(q)
    BY <1>0, <1>1 DEF CreateMetadata, Finish, Types, Untouched, Keys
  <2>3. RunningAt(r)' /\ FreshAt(r)' /\ HeldAt(r)'
    BY <1>0, <1>1, <2>2 DEF CreateMetadata, Finish, Types, RunningAt, FreshAt, HeldAt
  <2>4. At(r)'
    BY <1>a, <2>2, <2>3 DEF At, NoRowsAt
  <2>5. QED
    BY <1>a, <2>1, <2>2, <2>4, OwnStep
<1>2. CASE Existing(r) = {}
  <2> DEFINE o == [key |-> r, checksum |-> Checksum(body[r])]
  <2>0. /\ metadata' = metadata \cup {o}
        /\ key' = [key EXCEPT ![r] = {r}] /\ pc' = [pc EXCEPT ![r] = "subject"]
        /\ UNCHANGED <<body, idx, shown, answer, subjects, events, params, deleted>>
    BY <1>2 DEF CreateMetadata, Goto
  <2>1. Types'
    <3>1. o \in [key : Request, checksum : {Checksum(b) : b \in Body}]
      BY <1>0 DEF Types
    <3>2. QED
      BY <1>0, <2>0, <3>1 DEF Types
  <2>2. Keys' = Keys \cup {r}
    <3>1. o.key = r
      OBVIOUS
    <3> HIDE DEF o
    <3>2. QED
      BY <2>0, <3>1 DEF Keys
  <2>3. Owned'
    <3>1. o.key = r /\ o.checksum = Checksum(body[r])
      OBVIOUS
    <3>2. ASSUME NEW p \in metadata PROVE p.key # r /\ p.key \in Request
      BY <1>0, <1>a DEF Keys, Types
    <3>3. pc'[r] = "subject" /\ key'[r] = {r}
      BY <1>0, <2>0 DEF Types
    <3>4. \A q \in Request : q # r => pc'[q] = pc[q] /\ key'[q] = key[q]
      BY <1>0, <2>0 DEF Types
    <3>5. \A p \in metadata' : p \in metadata \/ p = o
      BY <2>0
    <3>6. QED
      BY <1>0, <1>a, <2>0, <3>1, <3>2, <3>3, <3>4, <3>5 DEF Owned
  <2>4. Unique'
    BY <1>0, <1>2, <2>0 DEF Unique, Existing
  <2>5. ASSUME NEW q \in Request, q # r PROVE At(q)'
    <3>1. At(q) /\ pc'[q] = pc[q] /\ key'[q] = key[q] /\ (q \in Keys' <=> q \in Keys)
      BY <1>0, <2>0, <2>2, <2>5 DEF Types
    <3>2. RunningAt(q)' /\ FreshAt(q)' /\ HeldAt(q)'
      BY <2>0, <3>1 DEF At, RunningAt, FreshAt, HeldAt
    <3>3. IF q \in Keys' THEN RowsAt(q)' /\ ShownAt(q)' ELSE NoRowsAt(q)'
      BY <2>0, <3>1 DEF At, RowsAt, ShownAt, NoRowsAt, Asked, AskedParams
    <3>4. QED
      BY <3>2, <3>3 DEF At
  <2>6. At(r)'
    <3>1. /\ pc'[r] = "subject" /\ key'[r] = {r} /\ answer'[r] = "none"
          /\ r \in Keys' /\ o \in metadata'
      BY <1>0, <2>0, <2>2 DEF Types, CreateMetadata, At, RunningAt
    <3>2. RunningAt(r)' /\ FreshAt(r)' /\ HeldAt(r)'
      BY <1>a, <2>0, <3>1 DEF RunningAt, FreshAt, HeldAt
    <3>3. Asked(r) \in Seq(EventRow) /\ AskedParams(r) \in Seq(Parameter)
      BY <1>0, <1>a, AskedTypes
    <3>4. First(Asked(r), 0) = <<>> /\ First(AskedParams(r), 0) = <<>>
      BY <3>3, FirstEnds
    <3>5. UNCHANGED <<Asked(r), AskedParams(r)>>
      BY <2>0 DEF Asked, AskedParams
    <3>6. RowsAt(r)' /\ ShownAt(r)'
      BY <1>a, <2>0, <3>1, <3>3, <3>4, <3>5 DEF RowsAt, ShownAt, NoRowsAt
    <3>7. QED
      BY <3>1, <3>2, <3>6 DEF At
  <2>7. QED
    BY <2>1, <2>3, <2>4, <2>5, <2>6 DEF ArchiveInv
<1>3. QED
  BY <1>1, <1>2

\* The cleaner takes an object and all its rows.
LEMMA DeleteInv ==
    ASSUME ArchiveInv, NEW o \in metadata, Delete(o)
    PROVE  ArchiveInv'
<1> USE DEF Unbound, Making, Showing
<1>0. Types /\ Owned /\ Unique /\ \A q \in Request : At(q)
  BY DEF ArchiveInv
<1>1. /\ o.key \in Request /\ metadata' = metadata \ {o} /\ deleted' = deleted \cup {o.key}
      /\ events' = [events EXCEPT ![o.key] = <<>>] /\ params' = [params EXCEPT ![o.key] = <<>>]
      /\ subjects' = subjects \ {o.key} /\ UNCHANGED <<body, pc, key, idx, shown, answer>>
  BY <1>0 DEF Delete, Types, localVars
<1>2. Types'
  BY <1>0, <1>1 DEF Types
<1>3. \A p \in metadata : p.key = o.key => p = o
  BY <1>0 DEF Owned, Unique
<1>4. Keys' = Keys \ {o.key}
  BY <1>1, <1>3 DEF Keys
<1>5. Owned' /\ Unique'
  <2>1. \A p \in metadata' : p \in metadata /\ p.key # o.key
    BY <1>1, <1>3
  <2>2. QED
    BY <1>0, <1>1, <2>1 DEF Owned, Unique
<1>6. ASSUME NEW q \in Request PROVE At(q)'
  <2>1. At(q)
    BY <1>0
  <2>2. RunningAt(q)' /\ FreshAt(q)'
    BY <1>1, <1>4, <2>1 DEF At, RunningAt, FreshAt, Keys
  <2>3. HeldAt(q)'
    <3>1. ASSUME NEW k \in Request,
                 k \in deleted \/ [key |-> k, checksum |-> Checksum(body[q])] \in metadata
          PROVE  k \in deleted' \/ [key |-> k, checksum |-> Checksum(body[q])] \in metadata'
      BY <1>1, <3>1
    <3>2. QED
      BY <1>1, <2>1, <3>1 DEF At, HeldAt
  <2>4. CASE q = o.key
    <3>1. NoRowsAt(q)' /\ q \notin Keys'
      BY <1>0, <1>1, <1>4, <2>4 DEF NoRowsAt, Types
    <3>2. QED
      BY <2>2, <2>3, <3>1 DEF At
  <2>5. CASE q # o.key
    <3>1. /\ events'[q] = events[q] /\ params'[q] = params[q]
          /\ q \in subjects' <=> q \in subjects
          /\ q \in Keys' <=> q \in Keys
      BY <1>0, <1>1, <1>4, <2>5 DEF Types
    <3>2. IF q \in Keys' THEN RowsAt(q)' /\ ShownAt(q)' ELSE NoRowsAt(q)'
      BY <1>1, <2>1, <3>1 DEF At, RowsAt, ShownAt, NoRowsAt, Asked, AskedParams
    <3>3. QED
      BY <2>2, <2>3, <3>2 DEF At
  <2>6. QED
    BY <2>4, <2>5
<1>7. QED
  BY <1>2, <1>5, <1>6 DEF ArchiveInv

\* The invariant is inductive.
LEMMA NextInv == ArchiveInv /\ [Next]_vars => ArchiveInv'
<1> SUFFICES ASSUME ArchiveInv, [Next]_vars PROVE ArchiveInv'
  OBVIOUS
<1>1. CASE UNCHANGED vars
  <2>1. UNCHANGED <<body, pc, key, idx, shown, answer, metadata, subjects, events, params, deleted>>
    BY <1>1 DEF vars, localVars, tables
  <2>2. Types' /\ Owned' /\ Unique'
    BY <2>1 DEF ArchiveInv, Types, Owned, Unique
  <2>3. ASSUME NEW r \in Request PROVE At(r)'
    BY <2>1 DEF ArchiveInv, At, RunningAt, FreshAt, HeldAt, RowsAt, ShownAt, NoRowsAt, Keys,
       Asked, AskedParams
  <2>4. QED
    BY <2>2, <2>3 DEF ArchiveInv
<1>2. QED
  BY <1>1, RejectInv, CountInv, FetchInv, CreateMetadataInv, CreateSubjectInv, CreateEventInv,
     CreateParameterInv, ShowEventsInv, ShowSubjectInv, ShowParametersInv, DieInv, DeleteInv
     DEF Next, Step, AllDone

\* Two clients that register the same measurement get the same metadata key, for
\* any number of requests, any interleaving of their queries and any crashes.
THEOREM SameDescriptionSameKey == Spec => []OneObjectPerDescription
<1>1. ArchiveInv => OneObjectPerDescription
  <2> SUFFICES ASSUME ArchiveInv, NEW r \in Request, NEW q \in Request,
                      answer[r] = "201", answer[q] = "201",
                      Checksum(body[r]) = Checksum(body[q])
               PROVE  key[r] = key[q] \/ (key[r] \cup key[q]) \cap deleted # {}
    BY DEF OneObjectPerDescription
  <2>1. HeldAt(r) /\ HeldAt(q) /\ Unique
    BY DEF ArchiveInv, At
  <2>2. PICK k \in Request :
            /\ key[r] = {k}
            /\ k \in deleted \/ [key |-> k, checksum |-> Checksum(body[r])] \in metadata
    BY <2>1 DEF HeldAt
  <2>3. PICK l \in Request :
            /\ key[q] = {l}
            /\ l \in deleted \/ [key |-> l, checksum |-> Checksum(body[q])] \in metadata
    BY <2>1 DEF HeldAt
  <2>4. CASE k \in deleted \/ l \in deleted
    <3>1. k \in (key[r] \cup key[q]) \cap deleted \/ l \in (key[r] \cup key[q]) \cap deleted
      BY <2>2, <2>3, <2>4
    <3>2. QED
      BY <3>1
  <2>5. CASE ~ (k \in deleted \/ l \in deleted)
    <3> DEFINE o == [key |-> k, checksum |-> Checksum(body[r])]
               p == [key |-> l, checksum |-> Checksum(body[q])]
    <3>1. o \in metadata /\ p \in metadata /\ o.checksum = p.checksum
      BY <2>2, <2>3, <2>5
    <3>2. o = p
      BY <2>1, <3>1 DEF Unique
    <3>3. o.key = k /\ p.key = l
      OBVIOUS
    <3>4. k = l
      BY <3>2, <3>3
    <3>5. QED
      BY <2>2, <2>3, <3>4
  <2>6. QED
    BY <2>4, <2>5
<1>2. QED
  BY <1>1, InitInv, NextInv, PTL DEF Spec

\* No row twice and none that was not asked for: whatever the loops of other
\* requests do, the rows of an object are the first ones of its description.
THEOREM NoForeignRows == Spec => []RowsAreThoseAskedFor
<1>1. ArchiveInv => RowsAreThoseAskedFor
  <2> SUFFICES ASSUME ArchiveInv, NEW o \in metadata
               PROVE  /\ IsPrefix(events[o.key], o.checksum.events)
                      /\ IsPrefix(params[o.key], Parameters(body[o.key]))
    BY DEF RowsAreThoseAskedFor
  <2>1. /\ o.key \in Request /\ o.key \in Keys
        /\ o.checksum = Checksum(body[o.key]) /\ Valid(body[o.key])
    BY DEF ArchiveInv, Types, Owned, Keys
  <2>2. RowsAt(o.key)
    BY <2>1 DEF ArchiveInv, At
  <2>3. Asked(o.key) \in Seq(EventRow) /\ AskedParams(o.key) \in Seq(Parameter)
    BY <2>1, AskedTypes DEF ArchiveInv
  <2>4. o.checksum.events = Asked(o.key)
    BY <2>1 DEF Checksum, Asked
  <2>5. IsPrefix(events[o.key], Asked(o.key)) /\ IsPrefix(params[o.key], AskedParams(o.key))
    BY <2>2, <2>3, FirstIsPrefix DEF RowsAt
  <2>6. QED
    BY <2>4, <2>5 DEF AskedParams
<1>2. QED
  BY <1>1, InitInv, NextInv, PTL DEF Spec

\* The request that made an object is shown all of it, unless the cleaner was
\* there: its loops have ended before the answer reads the tables.
THEOREM MakerSeesItsObject == Spec => []MakerIsShownAll
<1>1. ArchiveInv => MakerIsShownAll
  <2> SUFFICES ASSUME ArchiveInv, NEW r \in Request,
                      answer[r] = "201", key[r] = {r}, r \notin deleted
               PROVE  /\ shown[r].subject
                      /\ shown[r].events = EventRows(body[r])
                      /\ shown[r].params = Parameters(body[r])
    BY DEF MakerIsShownAll
  <2>1. At(r) /\ HeldAt(r)
    BY DEF ArchiveInv, At
  <2>2. [key |-> r, checksum |-> Checksum(body[r])] \in metadata
    BY <2>1 DEF HeldAt
  <2>3. r \in Keys
    BY <2>2 DEF Keys
  <2>4. QED
    BY <2>1, <2>3 DEF At, ShownAt, Asked, AskedParams
<1>2. QED
  BY <1>1, InitInv, NextInv, PTL DEF Spec

-------------------------------------------------------------------------------
(* create() implements Registry. *)

Wanted == [r \in Request |-> Checksum(body[r])]
Replies == [r \in Request |-> ReplyOf(r)]

\* The reply of a request depends on its answer and, once that is 201, its object.
LEMMA RepliesKept ==
    ASSUME ArchiveInv, UNCHANGED answer,
           \A r \in Request : answer[r] = "201" => key'[r] = key[r]
    PROVE  UNCHANGED Replies
<1>1. ASSUME NEW r \in Request PROVE ReplyOf(r)' = ReplyOf(r)
  BY DEF ReplyOf, Key
<1>2. QED
  BY <1>1 DEF Replies

\* Only the request that gets an answer gets a reply.
LEMMA ReplyGiven ==
    ASSUME ArchiveInv, UNCHANGED key, NEW r \in Request, NEW code \in {"201", "400", "500", "died"},
           answer' = [answer EXCEPT ![r] = code]
    PROVE  Replies' = [Replies EXCEPT ![r] = IF code = "201" THEN Key(r) ELSE "failed"]
<1>0. answer \in [Request -> {"none", "201", "400", "500", "died"}]
  BY DEF ArchiveInv, Types
<1>1. ASSUME NEW q \in Request, q # r PROVE ReplyOf(q)' = ReplyOf(q)
  BY <1>0, <1>1 DEF ReplyOf, Key
<1>2. ReplyOf(r)' = IF code = "201" THEN Key(r) ELSE "failed"
  BY <1>0 DEF ReplyOf, Key
<1>3. QED
  BY <1>1, <1>2 DEF Replies

\* A step that ends a request without an object for its client is a Fail.
LEMMA FailStep ==
    ASSUME ArchiveInv, UNCHANGED <<body, metadata, key>>, NEW r \in Request, pc[r] # "done",
           NEW code \in {"400", "500", "died"}, answer' = [answer EXCEPT ![r] = code]
    PROVE  Reg!Fail(r)
<1>1. Replies[r] = "none"
  BY DEF ArchiveInv, At, RunningAt, Replies, ReplyOf
<1>2. Replies' = [Replies EXCEPT ![r] = "failed"]
  BY ReplyGiven
<1>3. QED
  BY <1>1, <1>2 DEF Reg!Fail, Replies

\* Every other step of a request, but for those below, is a stuttering step.
LEMMA QuietStep ==
    ASSUME ArchiveInv, UNCHANGED <<body, metadata, key, answer>>
    PROVE  UNCHANGED Reg!regVars
<1>1. UNCHANGED Replies
  BY RepliesKept
<1>2. QED
  BY <1>1 DEF Reg!regVars, Replies

\* The query that finds an object binds the request to it.
LEMMA FetchStep ==
    ASSUME ArchiveInv, NEW r \in Request, Fetch(r)
    PROVE  Reg!Get(r) \/ Reg!Fail(r)
<1>0. Types /\ pc[r] = "fetch" /\ key[r] = {} /\ answer[r] = "none" /\ UNCHANGED <<body, metadata>>
  BY DEF Fetch, ArchiveInv, At, FreshAt, RunningAt, Unbound, tables
<1>1. CASE Existing(r) = {}
  BY <1>0, <1>1, FailStep DEF Fetch, Finish
<1>2. CASE Existing(r) # {}
  <2>1. PICK o \in Existing(r) : key' = [key EXCEPT ![r] = {o.key}]
    BY <1>2 DEF Fetch
  <2>2. UNCHANGED answer
    BY <1>2 DEF Fetch
  <2>3. \A q \in Request : answer[q] = "201" => key'[q] = key[q]
    BY <1>0, <2>1 DEF Types
  <2>4. UNCHANGED Replies
    BY <2>2, <2>3, RepliesKept
  <2>5. Replies[r] = "none"
    BY <1>0 DEF Replies, ReplyOf
  <2>6. Existing(r) = {p \in metadata : p.checksum = Wanted[r]}
    BY DEF Existing, Wanted
  <2>7. Reg!Get(r)
    BY <1>0, <2>1, <2>4, <2>5, <2>6 DEF Reg!Get, Reg!Same, Replies, Wanted
  <2>8. QED
    BY <2>7
<1>3. QED
  BY <1>1, <1>2

\* The insert makes the object and binds the request to it, or fails.
LEMMA CreateMetadataStep ==
    ASSUME ArchiveInv, NEW r \in Request, CreateMetadata(r)
    PROVE  Reg!Make(r) \/ Reg!Fail(r)
<1>0. Types /\ pc[r] = "create" /\ key[r] = {} /\ answer[r] = "none" /\ UNCHANGED body
  BY DEF CreateMetadata, ArchiveInv, At, FreshAt, RunningAt, Unbound
<1>1. CASE Existing(r) # {}
  BY <1>0, <1>1, FailStep DEF CreateMetadata, Finish
<1>2. CASE Existing(r) = {}
  <2>1. /\ metadata' = metadata \cup {[key |-> r, checksum |-> Checksum(body[r])]}
        /\ key' = [key EXCEPT ![r] = {r}] /\ UNCHANGED answer
    BY <1>2 DEF CreateMetadata
  <2>2. \A q \in Request : answer[q] = "201" => key'[q] = key[q]
    BY <1>0, <2>1 DEF Types
  <2>3. UNCHANGED Replies
    BY <2>1, <2>2, RepliesKept
  <2>4. Replies[r] = "none"
    BY <1>0 DEF Replies, ReplyOf
  <2>5. Existing(r) = {p \in metadata : p.checksum = Wanted[r]} /\ Wanted[r] = Checksum(body[r])
    BY DEF Existing, Wanted
  <2>6. Reg!Make(r)
    BY <1>0, <1>2, <2>1, <2>3, <2>4, <2>5 DEF Reg!Make, Reg!Same, Replies, Wanted
  <2>7. QED
    BY <2>6
<1>3. QED
  BY <1>1, <1>2

\* The answer names the object the request was bound to.
LEMMA ShowParametersStep ==
    ASSUME ArchiveInv, NEW r \in Request, ShowParameters(r)
    PROVE  Reg!Reply(r)
<1>0. /\ pc[r] = "showParameters" /\ answer[r] = "none"
      /\ UNCHANGED <<body, metadata, key>> /\ answer' = [answer EXCEPT ![r] = "201"]
  BY DEF ShowParameters, Finish, ArchiveInv, At, RunningAt, tables
<1>1. Key(r) \in key[r]
  <2>1. At(r) /\ pc[r] \in Showing
    BY <1>0 DEF ArchiveInv, Showing
  <2>2. QED
    BY <2>1, KeyIs DEF At, HeldAt
<1>2. Replies' = [Replies EXCEPT ![r] = Key(r)]
  BY <1>0, ReplyGiven
<1>3. Replies[r] = "none"
  BY <1>0 DEF Replies, ReplyOf
<1>4. QED
  BY <1>0, <1>1, <1>2, <1>3 DEF Reg!Reply, Replies

\* A step of a request is a step of the registry or leaves it alone.
LEMMA RequestStep ==
    ASSUME ArchiveInv, NEW r \in Request, Step(r) \/ Die(r)
    PROVE  Reg!RegNext \/ UNCHANGED Reg!regVars
<1>1. CASE Reject(r)
  <2>1. Reg!Fail(r)
    BY <1>1, FailStep DEF Reject, Finish, tables
  <2>2. QED
    BY <2>1 DEF Reg!RegNext
<1>2. CASE Die(r)
  <2>1. Reg!Fail(r)
    BY <1>2, FailStep DEF Die, Finish, tables
  <2>2. QED
    BY <2>1 DEF Reg!RegNext
<1>3. CASE Fetch(r)
  BY <1>3, FetchStep DEF Reg!RegNext
<1>4. CASE CreateMetadata(r)
  BY <1>4, CreateMetadataStep DEF Reg!RegNext
<1>5. CASE ShowParameters(r)
  BY <1>5, ShowParametersStep DEF Reg!RegNext
<1>6. CASE Count(r) \/ ShowEvents(r) \/ ShowSubject(r)
  <2>1. UNCHANGED <<body, metadata, key, answer>>
    BY <1>6 DEF Count, ShowEvents, ShowSubject, tables
  <2>2. QED
    BY <2>1, QuietStep
<1>7. CASE CreateSubject(r) \/ CreateEvent(r) \/ CreateParameter(r)
  <2>1. /\ UNCHANGED <<body, metadata, key>> /\ pc[r] # "done"
        /\ UNCHANGED answer \/ answer' = [answer EXCEPT ![r] = "500"]
    BY <1>7 DEF CreateSubject, CreateEvent, CreateParameter, Finish
  <2>2. CASE UNCHANGED answer
    BY <2>1, <2>2, QuietStep
  <2>3. CASE answer' = [answer EXCEPT ![r] = "500"]
    <3>1. Reg!Fail(r)
      BY <2>1, <2>3, FailStep
    <3>2. QED
      BY <3>1 DEF Reg!RegNext
  <2>4. QED
    BY <2>1, <2>2, <2>3
<1>8. QED
  BY <1>1, <1>2, <1>3, <1>4, <1>5, <1>6, <1>7 DEF Step

\* create() implements the registry: each of its queries is a step of the atomic
\* registration, or invisible to it, also when requests die half way.
THEOREM CreateImplementsRegistry == Spec => Implements
<1>1. Init => Reg!RegInit
  <2> SUFFICES ASSUME Init PROVE Reg!RegInit
    OBVIOUS
  <2>1. \A r \in Request : ReplyOf(r) = "none"
    BY DEF Init, ReplyOf
  <2>2. QED
    BY <2>1 DEF Init, Reg!RegInit
<1>2. ArchiveInv /\ [Next]_vars => [Reg!RegNext]_(Reg!regVars)
  <2> SUFFICES ASSUME ArchiveInv, [Next]_vars PROVE Reg!RegNext \/ UNCHANGED Reg!regVars
    OBVIOUS
  <2>1. CASE \E o \in metadata : Delete(o)
    <3>1. /\ \E o \in metadata : metadata' = metadata \ {o}
          /\ UNCHANGED <<body, key, answer>>
      BY <2>1 DEF Delete, localVars
    <3>2. UNCHANGED Replies
      BY <3>1, RepliesKept
    <3>3. Reg!Forget
      BY <3>1, <3>2 DEF Reg!Forget, Replies
    <3>4. QED
      BY <3>3 DEF Reg!RegNext
  <2>2. CASE AllDone \/ UNCHANGED vars
    <3>1. UNCHANGED <<body, metadata, key, answer>>
      BY <2>2 DEF AllDone, vars, localVars, tables
    <3>2. QED
      BY <3>1, QuietStep
  <2>3. QED
    BY <2>1, <2>2, RequestStep DEF Next
<1>3. QED
  BY <1>1, <1>2, InitInv, NextInv, PTL DEF Spec, Implements, Reg!RegSpec
===============================================================================
