------------------------- MODULE MetadataSearchProofs -------------------------
(***************************************************************************)
(* What get_metadata finds, proved for every catalog, every filter and any *)
(* number of pages, changes and failures: what a found object offers, and  *)
(* how many objects are missed or come again.                              *)
(***************************************************************************)
EXTENDS MetadataSearch, FiniteSetTheorems, FunctionTheorems, TLAPS

-------------------------------------------------------------------------------
(* Sequences of whatever *)

IsSeq(s) == \E S : s \in Seq(S)

\* The elements of t are those of s, and x; those of u are those of s and of t.
GrownBy(t, s, x) == \A i \in DOMAIN t : t[i] = x \/ \E j \in DOMAIN s : t[i] = s[j]
Joined(u, s, t) ==
    \A i \in DOMAIN u :
        (\E j \in DOMAIN s : u[i] = s[j]) \/ (\E j \in DOMAIN t : u[i] = t[j])

\* The parts of a sequence that has grown by one.
LEMMA AppendParts ==
    ASSUME NEW s, IsSeq(s), NEW x, NEW t, t = Append(s, x)
    PROVE  IsSeq(t) /\ GrownBy(t, s, x)
<1>1. PICK S : s \in Seq(S)
  BY DEF IsSeq
<1>2. s \in Seq(S \cup {x})
  BY <1>1
<1>3. t \in Seq(S \cup {x}) /\ Len(t) = Len(s) + 1 /\ DOMAIN t = 1..Len(t)
  BY <1>2
<1>4. ASSUME NEW i \in DOMAIN t, i # Len(s) + 1 PROVE i \in DOMAIN s /\ t[i] = s[i]
  BY <1>2, <1>3, <1>4
<1>5. t[Len(s) + 1] = x
  BY <1>2
<1>6. QED
  BY <1>3, <1>4, <1>5 DEF IsSeq, GrownBy

\* The parts of two sequences, one after the other.
LEMMA ConcatParts ==
    ASSUME NEW s, IsSeq(s), NEW t, IsSeq(t), NEW u, u = s \o t
    PROVE  IsSeq(u) /\ Joined(u, s, t)
<1>1. PICK S, T : s \in Seq(S) /\ t \in Seq(T)
  BY DEF IsSeq
<1>2. s \in Seq(S \cup T) /\ t \in Seq(S \cup T)
  BY <1>1
<1>3. u \in Seq(S \cup T) /\ Len(u) = Len(s) + Len(t)
  BY <1>2
<1>4. /\ DOMAIN u = 1..Len(u) /\ DOMAIN s = 1..Len(s) /\ DOMAIN t = 1..Len(t)
      /\ Len(s) \in Nat /\ Len(t) \in Nat
  BY <1>2, <1>3
<1>5. ASSUME NEW i \in DOMAIN u, i <= Len(s) PROVE i \in DOMAIN s /\ u[i] = s[i]
  BY <1>2, <1>3, <1>4, <1>5
<1>6. ASSUME NEW i \in DOMAIN u, i > Len(s)
      PROVE  i - Len(s) \in DOMAIN t /\ u[i] = t[i - Len(s)]
  BY <1>2, <1>3, <1>4, <1>6
<1>7. ASSUME NEW i \in DOMAIN u
      PROVE  (\E j \in DOMAIN s : u[i] = s[j]) \/ (\E j \in DOMAIN t : u[i] = t[j])
  <2>1. i <= Len(s) \/ i > Len(s)
    BY <1>3, <1>4
  <2>2. QED
    BY <1>5, <1>6, <2>1
<1>8. QED
  BY <1>3, <1>7 DEF IsSeq, Joined

-------------------------------------------------------------------------------
(* An object that is shown while a row of it matches *)

\* An event type is declared once: ps_event_types has no constraint that says so.
OneBaseRow ==
    \A k \in DOMAIN Catalog : \A i, j \in 1..Len(Catalog[k].rows) :
        /\ Catalog[k].rows[i].summary = "base" /\ Catalog[k].rows[j].summary = "base"
        /\ Catalog[k].rows[i].type = Catalog[k].rows[j].type
        => i = j

\* What FoundIsUsable asks of an object that is found with filters f.
Offers(o, f) ==
    LET types == IF "event-type" \in DOMAIN f THEN GetEventType(o, f["event-type"])
                 ELSE o.event_types
    IN  \E e \in types :
          \/ /\ "summary-type" \in DOMAIN f => f["summary-type"] = "base"
             /\ "summary-window" \in DOMAIN f => f["summary-window"] = "0"
             /\ InRange(e.updated, o.range)
          \/ \E x \in e.summaries :
                /\ "summary-type" \in DOMAIN f => x.type = f["summary-type"]
                /\ "summary-window" \in DOMAIN f => x.window = f["summary-window"]
                /\ GetSummary(e, x.type, x.window) # {}
                /\ InRange(x.updated, o.range)

\* The entry of an event type in build_event_type_list.
Entry(rows, et) ==
    [type |-> et,
     updated |-> LET base == {i \in DOMAIN rows : rows[i].type = et /\ rows[i].summary = "base"}
                 IN  IF base = {} THEN None ELSE rows[Max(base)].updated,
     summaries |-> {[type |-> rows[i].summary, window |-> rows[i].window,
                     updated |-> rows[i].updated] :
                    i \in {j \in DOMAIN rows : rows[j].type = et /\ rows[j].summary # "base"}}]

\* The matching row is in the list, as the event type itself or as a summary of it.
LEMMA ShownOffers ==
    ASSUME OneBaseRow, NEW k \in DOMAIN Catalog, NEW rows, RowsOf(k, rows), NEW f, NEW w,
           NEW n \in DOMAIN rows, RowMatches(rows[n], f, w), NEW o,
           o.event_types = BuildEventTypeList(rows), o.range = w
    PROVE  Offers(o, f)
<1>1. rows \in Seq(EventRow) /\ DOMAIN rows = 1..Len(rows) /\ Len(rows) \in Nat
  BY DEF RowsOf
<1>2. PICK row : row = rows[n]
  OBVIOUS
<1>3. PICK e : e = Entry(rows, row.type)
  OBVIOUS
<1>4. e \in o.event_types
  BY <1>2, <1>3 DEF BuildEventTypeList, Entry
<1>5. e.type = row.type
  BY <1>3 DEF Entry
<1>6. PICK types : types = IF "event-type" \in DOMAIN f THEN GetEventType(o, f["event-type"])
                           ELSE o.event_types
  OBVIOUS
<1>7. e \in types
  BY <1>2, <1>4, <1>5, <1>6 DEF GetEventType, RowMatches
<1>8. InRange(row.updated, w)
  BY <1>2 DEF InRange, RowMatches
<1>9. /\ "summary-type" \in DOMAIN f => row.summary = f["summary-type"]
      /\ "summary-window" \in DOMAIN f => row.window = f["summary-window"]
  BY <1>2 DEF RowMatches
<1>10. CASE row.summary = "base"
  <2> DEFINE base == {i \in DOMAIN rows : rows[i].type = row.type /\ rows[i].summary = "base"}
  <2>1. ASSUME NEW i \in base PROVE i = n
    <3>1. i \in 1..Len(Catalog[k].rows) /\ n \in 1..Len(Catalog[k].rows)
      BY <1>1, CatalogAssumption DEF RowsOf
    <3>2. QED
      BY <1>1, <1>2, <1>10, <2>1, <3>1 DEF RowsOf, OneBaseRow
  <2>2. base = {n} /\ n \in Int
    BY <1>1, <1>2, <1>10, <2>1
  <2>3. Max(base) = n
    BY <2>2 DEF Max
  <2>4. e.updated = row.updated
    BY <1>2, <1>3, <2>2, <2>3 DEF Entry
  <2>5. row.window = "0"
    <3>1. n \in 1..Len(Catalog[k].rows)
      BY <1>1, CatalogAssumption DEF RowsOf
    <3>2. QED
      BY <1>1, <1>2, <1>10, <3>1, CatalogAssumption DEF RowsOf
  <2>6. QED
    BY <1>6, <1>7, <1>8, <1>9, <1>10, <2>4, <2>5 DEF Offers
<1>11. CASE row.summary # "base"
  <2>1. PICK x : x = [type |-> row.summary, window |-> row.window, updated |-> row.updated]
    OBVIOUS
  <2>2. x \in e.summaries
    BY <1>2, <1>3, <1>11, <2>1 DEF Entry
  <2>3. x.type = row.summary /\ x.window = row.window /\ x.updated = row.updated
    BY <2>1
  <2>4. x \in GetSummary(e, x.type, x.window)
    BY <2>2 DEF GetSummary
  <2>5. QED
    BY <1>6, <1>7, <1>8, <1>9, <2>2, <2>3, <2>4 DEF Offers
<1>12. QED
  BY <1>10, <1>11

-------------------------------------------------------------------------------
(* The invariant *)

\* The user asks for a time.
Given == \E k \in DOMAIN time_filters : time_filters[k] # None

\* The result of the search is being followed.
Watching == pc \in {"slice", "show"} \/ (pc = "count" /\ initial_offset # None)

\* An object that came with an answer, of which this search has ...
Usable(o) ==
    /\ o.range.given <=> Given
    /\ o.key \in steady /\ RowAsked(metadata_filters, o.range) => Offers(o, metadata_filters)

\* ... or will have nothing but such ones.
AllUsable(s) == \A i \in DOMAIN s : Usable(s[i])

Stored ==
    /\ DOMAIN objects \subseteq DOMAIN Catalog
    /\ \A k \in DOMAIN objects : RowsOf(k, objects[k])

Paging ==
    /\ now \in Nat
    /\ initial_offset \in Nat \cup {None}
    /\ pc = "idle" => initial_offset = None
    /\ pc \in {"idle", "failed"} \/ initial_offset = None => data = <<>>

\* steady is part of the result as it is at the moment.
Followed ==
    /\ Watching => steady \subseteq Matching
    /\ Watching \/ pc = "done" => (asked.given <=> Given)

Answers == IsSeq(data) /\ (pc \in {"slice", "show"} => IsSeq(reply))

Core == Stored /\ Paging /\ Followed /\ Answers

Usables == AllUsable(data) /\ (pc \in {"slice", "show"} => AllUsable(reply))

\* What the objects offered does not change with the archive, and an object that is
\* no longer steady counts no more.
LEMMA StillUsable ==
    ASSUME NEW s, AllUsable(s), metadata_filters' = metadata_filters,
           time_filters' = time_filters, steady' \subseteq steady
    PROVE  (\A i \in DOMAIN s : /\ s[i].range.given <=> Given'
                                /\ s[i].key \in steady'
                                   /\ RowAsked(metadata_filters', s[i].range)
                                   => Offers(s[i], metadata_filters'))
<1>1. Given' <=> Given
  BY DEF Given
<1>2. QED
  BY <1>1 DEF AllUsable, Usable

\* A step of the rest of the archive.
LEMMA ChangeStep ==
    ASSUME Core, Change, Stored'
    PROVE  Core' /\ (Usables => Usables')
<1>1. /\ UNCHANGED <<now, metadata_filters, time_filters, pc, initial_offset, data, asked,
                     reply>>
      /\ Observe
  BY DEF Change, client, request
<1>2. Given' <=> Given
  BY <1>1 DEF Given
<1>3. Watching' <=> Watching
  BY <1>1 DEF Watching
<1>4. /\ Watching => steady' = steady \cap Matching'
      /\ ~ Watching => steady' = steady
  BY <1>1 DEF Observe, Watching, seen
<1>5. steady' \subseteq steady
  BY <1>4
<1>6. Paging'
  BY <1>1 DEF Core, Paging
<1>7. Followed'
  BY <1>1, <1>2, <1>3, <1>4 DEF Core, Followed
<1>8. Answers'
  BY <1>1 DEF Core, Answers
<1>9. ASSUME Usables PROVE Usables'
  <2>1. AllUsable(data)'
    BY <1>1, <1>5, <1>9, StillUsable DEF Usables, AllUsable, Usable
  <2>2. ASSUME pc \in {"slice", "show"} PROVE AllUsable(reply)'
    BY <1>1, <1>5, <1>9, <2>2, StillUsable DEF Usables, AllUsable, Usable
  <2>3. QED
    BY <1>1, <2>1, <2>2 DEF Usables
<1>10. QED
  BY <1>6, <1>7, <1>8, <1>9 DEF Core

\* The tables keep to the catalog.
LEMMA StoredStep ==
    ASSUME Core, Register \/ Declare \/ Update \/ Delete
    PROVE  Stored'
<1>1. DOMAIN objects \subseteq DOMAIN Catalog /\ now \in Int
  BY DEF Core, Stored, Paging
<1>2. CASE Register
  <2>1. PICK k \in DOMAIN Catalog \ DOMAIN objects : objects' = Set(objects, k, <<>>)
    BY <1>2 DEF Register
  <2>2. DOMAIN objects' = DOMAIN objects \cup {k}
    BY <2>1 DEF Set
  <2>3. ASSUME NEW j \in DOMAIN objects, j # k PROVE objects'[j] = objects[j]
    BY <2>1, <2>3 DEF Set
  <2>4. objects'[k] = <<>>
    BY <2>1 DEF Set
  <2>5. RowsOf(k, <<>>)
    BY <2>1, CatalogAssumption DEF RowsOf
  <2>6. QED
    BY <1>1, <2>2, <2>3, <2>4, <2>5 DEF Core, Stored
<1>3. CASE Declare
  <2>1. PICK k \in DOMAIN objects :
            /\ Len(objects[k]) < Len(Catalog[k].rows)
            /\ objects' = [objects EXCEPT ![k] =
                    Append(@, Set(Catalog[k].rows[Len(@) + 1], "updated", None))]
    BY <1>3 DEF Declare
  <2>2. PICK rows : rows = objects[k]
    OBVIOUS
  <2>3. PICK planned : planned = Catalog[k].rows[Len(rows) + 1]
    OBVIOUS
  <2>4. PICK new : new = Set(planned, "updated", None)
    OBVIOUS
  <2>5. RowsOf(k, rows) /\ Len(rows) < Len(Catalog[k].rows)
    BY <2>1, <2>2 DEF Core, Stored
  <2>6. /\ Catalog[k].rows \in Seq(PlannedRow) /\ Len(Catalog[k].rows) \in Nat
        /\ Len(rows) \in Nat /\ rows \in Seq(EventRow)
    BY <1>1, <2>5, CatalogAssumption DEF RowsOf
  <2>7. planned \in PlannedRow
    BY <2>3, <2>5, <2>6
  <2>8. /\ new \in EventRow /\ new.type = planned.type /\ new.summary = planned.summary
        /\ new.window = planned.window
    BY <2>4, <2>7 DEF Set, EventRow, PlannedRow, None
  <2>9. RowsOf(k, Append(rows, new))
    BY <2>3, <2>5, <2>6, <2>8 DEF RowsOf
  <2>10. /\ DOMAIN objects' = DOMAIN objects
         /\ objects'[k] = Append(rows, new)
    BY <2>1, <2>2, <2>3, <2>4
  <2>11. ASSUME NEW j \in DOMAIN objects, j # k PROVE objects'[j] = objects[j]
    BY <2>1, <2>11
  <2>12. QED
    BY <1>1, <2>9, <2>10, <2>11 DEF Core, Stored
<1>4. CASE Update
  <2>1. PICK k \in DOMAIN objects : \E et :
            objects' = [objects EXCEPT ![k] =
                [i \in DOMAIN @ |-> IF @[i].type = et THEN [@[i] EXCEPT !.updated = now]
                                    ELSE @[i]]]
    BY <1>4 DEF Update
  <2>2. PICK et : objects' = [objects EXCEPT ![k] =
                [i \in DOMAIN @ |-> IF @[i].type = et THEN [@[i] EXCEPT !.updated = now]
                                    ELSE @[i]]]
    BY <2>1
  <2>3. PICK rows : rows = objects[k]
    OBVIOUS
  <2>4. PICK new : new = [i \in DOMAIN rows |-> IF rows[i].type = et
                                               THEN [rows[i] EXCEPT !.updated = now]
                                               ELSE rows[i]]
    OBVIOUS
  <2>5. RowsOf(k, rows)
    BY <2>1, <2>3 DEF Core, Stored
  <2>6. /\ rows \in Seq(EventRow) /\ DOMAIN rows = 1..Len(rows) /\ Len(rows) \in Nat
    BY <2>5 DEF RowsOf
  <2>7. ASSUME NEW i \in 1..Len(rows)
        PROVE  /\ new[i] \in EventRow /\ new[i].type = rows[i].type
               /\ new[i].summary = rows[i].summary /\ new[i].window = rows[i].window
    <3>1. rows[i] \in EventRow
      BY <2>6
    <3>2. new[i] = IF rows[i].type = et THEN [rows[i] EXCEPT !.updated = now] ELSE rows[i]
      BY <2>4, <2>6
    <3>3. PICK r : r = rows[i]
      OBVIOUS
    <3>4. QED
      BY <1>1, <3>1, <3>2, <3>3 DEF EventRow
  <2>8. new \in Seq(EventRow) /\ Len(new) = Len(rows)
    BY <2>4, <2>6, <2>7
  <2>9. RowsOf(k, new)
    BY <2>5, <2>7, <2>8 DEF RowsOf
  <2>10. DOMAIN objects' = DOMAIN objects /\ objects'[k] = new
    BY <2>1, <2>2, <2>3, <2>4
  <2>11. ASSUME NEW j \in DOMAIN objects, j # k PROVE objects'[j] = objects[j]
    BY <2>2, <2>11
  <2>12. QED
    BY <1>1, <2>9, <2>10, <2>11 DEF Core, Stored
<1>5. CASE Delete
  <2>1. PICK k \in DOMAIN objects : objects' = Without(objects, k)
    BY <1>5 DEF Delete
  <2>2. /\ DOMAIN objects' = DOMAIN objects \ {k}
        /\ \A j \in DOMAIN objects' : objects'[j] = objects[j]
    BY <2>1 DEF Without
  <2>3. QED
    BY <1>1, <2>2 DEF Core, Stored
<1>6. QED
  BY <1>2, <1>3, <1>4, <1>5

\* The first page begins to follow the result, a later one goes on with it.
LEMMA CountStep ==
    ASSUME Core, Count
    PROVE  Core' /\ (Usables => Usables')
<1>1. /\ UNCHANGED <<objects, now, metadata_filters, time_filters, initial_offset>>
      /\ pc = "count" /\ asked' = Window(time_filters)
  BY DEF Count, client
<1>2. (Given' <=> Given) /\ (asked'.given <=> Given')
  BY <1>1 DEF Given, Window
<1>3. Stored'
  BY <1>1 DEF Core, Stored
<1>4. CASE Fail /\ UNCHANGED seen
  <2>1. pc' = "failed" /\ data' = <<>>
    BY <1>4 DEF Fail
  <2>2. Paging' /\ Followed'
    BY <1>1, <2>1 DEF Core, Paging, Followed, Watching
  <2>3. Answers' /\ Usables'
    BY <2>1 DEF Answers, Usables, AllUsable, IsSeq
  <2>4. QED
    BY <1>3, <2>2, <2>3 DEF Core
<1>5. CASE /\ pc' = "slice" /\ data' = data /\ reply' = <<>>
           /\ IF initial_offset = None THEN steady' = Matching' ELSE Observe
  <2>1. Paging'
    BY <1>1, <1>5 DEF Core, Paging
  <2>2. steady' \subseteq Matching' /\ (initial_offset # None => steady' \subseteq steady)
    BY <1>1, <1>5 DEF Observe
  <2>3. Followed'
    BY <1>2, <1>5, <2>2 DEF Followed
  <2>4. ASSUME Usables PROVE AllUsable(data)'
    <3>1. CASE initial_offset = None
      BY <1>5, <3>1 DEF Core, Paging, AllUsable
    <3>2. CASE initial_offset # None
      BY <1>1, <1>5, <2>2, <2>4, <3>2, StillUsable DEF Usables, AllUsable, Usable
    <3>3. QED
      BY <3>1, <3>2
  <2>5. AllUsable(reply)' /\ IsSeq(reply)'
    BY <1>5 DEF AllUsable, IsSeq
  <2>6. Answers' /\ (Usables => Usables')
    BY <1>5, <2>4, <2>5 DEF Core, Answers, Usables
  <2>7. QED
    BY <1>3, <2>1, <2>3, <2>6 DEF Core
<1>6. QED
  BY <1>4, <1>5 DEF Count, client

\* The entry of an object that matches is usable.
LEMMA ShowStep ==
    ASSUME Core, Show
    PROVE  Core' /\ (OneBaseRow /\ Usables => Usables')
<1>1. PICK k : k = Head(page)
  OBVIOUS
<1>2. PICK rows : rows = IF k \in DOMAIN objects THEN objects[k] ELSE <<>>
  OBVIOUS
<1>3. PICK o : o = [key |-> k, event_types |-> BuildEventTypeList(rows), range |-> asked]
  OBVIOUS
<1>4. /\ UNCHANGED <<objects, now, metadata_filters, time_filters, pc, initial_offset, data,
                     asked, steady>>
      /\ pc = "show" /\ reply' = Append(reply, o)
  BY <1>1, <1>2, <1>3 DEF Show, client, seen
<1>5. o.key = k /\ o.event_types = BuildEventTypeList(rows) /\ o.range = asked
  BY <1>3
<1>6. (Given' <=> Given) /\ Matching' = Matching /\ (Watching' <=> Watching) /\ Watching
  BY <1>4 DEF Given, Matching, Watching
<1>7. ASSUME OneBaseRow, k \in steady, RowAsked(metadata_filters, asked)
      PROVE  Offers(o, metadata_filters)
  <2>1. k \in Matching
    BY <1>6, <1>7 DEF Core, Followed
  <2>2. k \in DOMAIN objects /\ EventTypesMatch(objects[k], metadata_filters, asked)
    BY <2>1 DEF Matching
  <2>3. rows = objects[k] /\ k \in DOMAIN Catalog /\ RowsOf(k, rows)
    BY <1>2, <2>2 DEF Core, Stored
  <2>4. PICK n \in DOMAIN rows : RowMatches(rows[n], metadata_filters, asked)
    BY <1>7, <2>2, <2>3 DEF EventTypesMatch
  <2>5. QED
    BY <1>5, <1>7, <2>3, <2>4, ShownOffers
<1>8. OneBaseRow => Usable(o)
  BY <1>5, <1>6, <1>7 DEF Core, Followed, Usable
<1>9. Stored' /\ Paging' /\ Followed'
  BY <1>4, <1>6 DEF Core, Stored, Paging, Followed
<1>10. /\ IsSeq(reply) /\ IsSeq(data)
       /\ Usables => AllUsable(reply) /\ AllUsable(data)
  BY <1>4 DEF Core, Answers, Usables
<1>11. PICK new : new = reply'
  OBVIOUS
<1>12. IsSeq(new) /\ (OneBaseRow /\ Usables => AllUsable(new))
  <2>1. PICK old : old = reply
    OBVIOUS
  <2>2. IsSeq(old) /\ new = Append(old, o)
    BY <1>4, <1>10, <1>11, <2>1
  <2>3. IsSeq(new) /\ GrownBy(new, old, o)
    BY <2>2, AppendParts, Zenon
  <2>4. Usables => \A j \in DOMAIN old : Usable(old[j])
    BY <1>10, <2>1 DEF AllUsable
  <2>5. ASSUME OneBaseRow, Usables, NEW i \in DOMAIN new PROVE Usable(new[i])
    BY <1>8, <2>3, <2>4, <2>5 DEF GrownBy
  <2>6. QED
    BY <2>3, <2>5 DEF AllUsable
<1>13. ASSUME OneBaseRow, Usables PROVE AllUsable(new)' /\ AllUsable(data)'
  BY <1>4, <1>6, <1>10, <1>12, <1>13 DEF AllUsable, Usable
<1>14. Answers' /\ (OneBaseRow /\ Usables => Usables')
  BY <1>4, <1>10, <1>11, <1>12, <1>13 DEF Answers, Usables
<1>15. QED
  BY <1>9, <1>14 DEF Core

\* A page joins the ones before it.
LEMMA ReplyStep ==
    ASSUME Core, Reply
    PROVE  Core' /\ (Usables => Usables')
<1>1. /\ UNCHANGED <<objects, now, metadata_filters, time_filters, asked, reply, steady>>
      /\ pc = "show" /\ data' = data \o reply /\ pc' \in {"count", "done"}
      /\ initial_offset' = IF initial_offset = None THEN Len(reply) ELSE initial_offset
  BY DEF Reply, request, seen
<1>2. /\ IsSeq(reply) /\ IsSeq(data)
      /\ Usables => AllUsable(reply) /\ AllUsable(data)
  BY <1>1 DEF Core, Answers, Usables
<1>3. PICK new : new = data'
  OBVIOUS
<1>4. IsSeq(new) /\ (Usables => AllUsable(new))
  <2>1. PICK s, t : s = data /\ t = reply
    OBVIOUS
  <2>2. IsSeq(s) /\ IsSeq(t) /\ new = s \o t
    BY <1>1, <1>2, <1>3, <2>1
  <2>3. IsSeq(new) /\ Joined(new, s, t)
    BY <2>2, ConcatParts, Zenon
  <2>4. Usables => (\A j \in DOMAIN s : Usable(s[j])) /\ (\A j \in DOMAIN t : Usable(t[j]))
    BY <1>2, <2>1 DEF AllUsable
  <2>5. ASSUME Usables, NEW i \in DOMAIN new PROVE Usable(new[i])
    BY <2>3, <2>4, <2>5 DEF Joined
  <2>6. QED
    BY <2>3, <2>5 DEF AllUsable
<1>5. (Given' <=> Given) /\ Matching' = Matching /\ Watching
  BY <1>1 DEF Given, Matching, Watching
<1>6. ASSUME Usables PROVE AllUsable(new)'
  BY <1>1, <1>4, <1>5, <1>6 DEF AllUsable, Usable
<1>7. Len(reply) \in Nat
  BY <1>2 DEF IsSeq
<1>8. initial_offset' \in Nat /\ now \in Nat
  BY <1>1, <1>7 DEF Core, Paging
<1>9. Paging'
  BY <1>1, <1>8 DEF Paging, None
<1>10. Stored' /\ Followed'
  BY <1>1, <1>5 DEF Core, Stored, Followed
<1>11. Answers' /\ (Usables => Usables')
  BY <1>1, <1>3, <1>4, <1>6 DEF Answers, Usables
<1>12. QED
  BY <1>9, <1>10, <1>11 DEF Core

\* A step after which there is nothing to show yet.
LEMMA EmptyStep ==
    ASSUME Core, SetFilter \/ DelFilter \/ GetMetadata \/ Continue \/ Unanswered
    PROVE  Core' /\ Usables'
<1>1. objects' = objects /\ now' = now
  BY DEF SetFilter, DelFilter, GetMetadata, Continue, Unanswered
<1>2. data' = <<>>
  BY DEF SetFilter, DelFilter, GetMetadata, Continue, Unanswered, Fail, client, Core, Paging
<1>3. /\ pc' \in {"idle", "count", "failed"}
      /\ pc' \in {"idle", "count"} => initial_offset' = None
      /\ initial_offset' \in {initial_offset, None}
  BY DEF SetFilter, DelFilter, GetMetadata, Continue, Unanswered, Fail, client, Core, Paging
<1>4. Stored' /\ Paging' /\ Followed'
  BY <1>1, <1>2, <1>3 DEF Core, Stored, Paging, Followed, Watching
<1>5. Answers' /\ Usables'
  BY <1>2, <1>3 DEF Answers, Usables, AllUsable, IsSeq
<1>6. QED
  BY <1>4, <1>5 DEF Core

\* The slice and the clock leave the answers alone.
LEMMA QuietStep ==
    ASSUME Core, Slice \/ Tick \/ UNCHANGED vars
    PROVE  Core' /\ (Usables => Usables')
<1>1. /\ UNCHANGED <<objects, metadata_filters, time_filters, initial_offset, data, asked,
                     reply, steady>>
      /\ pc' = pc \/ (pc = "slice" /\ pc' = "show")
  BY DEF Slice, Tick, vars, client, request, seen
<1>2. now' \in Nat
  BY DEF Core, Paging, Slice, Tick, vars
<1>3. /\ (Given' <=> Given) /\ Matching' = Matching /\ (Watching' <=> Watching)
      /\ pc' = "done" => pc = "done"
  BY <1>1 DEF Given, Matching, Watching
<1>4. Stored' /\ Paging' /\ Followed'
  BY <1>1, <1>2, <1>3 DEF Core, Stored, Paging, Followed
<1>5. Answers' /\ (Usables => Usables')
  BY <1>1, <1>3 DEF Core, Answers, Usables, AllUsable, Usable
<1>6. QED
  BY <1>4, <1>5 DEF Core

\* The invariant is inductive, and what it says of the objects with it.
LEMMA CoreStep ==
    ASSUME Core, [Next]_vars
    PROVE  Core' /\ (OneBaseRow /\ Usables => Usables')
<1>1. CASE Register \/ Declare \/ Update \/ Delete
  <2>1. Change
    BY <1>1 DEF Register, Declare, Update, Delete
  <2>2. QED
    BY <1>1, <2>1, StoredStep, ChangeStep
<1>2. QED
  BY <1>1, CountStep, ShowStep, ReplyStep, EmptyStep, QuietStep DEF Next

\* It holds at first.
LEMMA CoreInit ==
    ASSUME Init
    PROVE  Core /\ Usables
<1>1. Stored
  BY CatalogAssumption DEF Init, Stored
<1>2. Paging /\ Followed
  BY SearchAssumption DEF Init, Paging, Followed, Watching
<1>3. Answers /\ Usables
  BY DEF Init, Answers, Usables, AllUsable, IsSeq
<1>4. QED
  BY <1>1, <1>2, <1>3 DEF Core

\* While an event type is declared once, whatever is registered, declared, updated or
\* removed between the queries of a page and between pages, an object that get_metadata
\* yields and that matched all the time offers one series that meets all the conditions
\* on event types together.
THEOREM FoundCanBeUsed == OneBaseRow => (Spec => []FoundIsUsable)
<1> SUFFICES ASSUME OneBaseRow PROVE Spec => []FoundIsUsable
  OBVIOUS
<1>1. Init => Core /\ Usables
  BY CoreInit
<1>2. Core /\ Usables /\ [Next]_vars => (Core /\ Usables)'
  BY CoreStep
<1>3. Core /\ Usables => FoundIsUsable
  <2> SUFFICES ASSUME Core, Usables, pc = "done", NEW i \in DOMAIN data,
                      data[i].key \in steady, RowAsked(metadata_filters, asked)
               PROVE  Offers(data[i], metadata_filters)
    BY DEF FoundIsUsable, Offers
  <2>1. PICK o : o = data[i]
    OBVIOUS
  <2>2. Usable(o) /\ (asked.given <=> Given) /\ o.key \in steady
    BY <2>1 DEF Core, Usables, AllUsable, Followed
  <2>3. RowAsked(metadata_filters, o.range)
    BY <2>2 DEF RowAsked, Usable
  <2>4. QED
    BY <2>1, <2>2, <2>3 DEF Usable
<1>4. QED
  BY <1>1, <1>2, <1>3, PTL DEF Spec

-------------------------------------------------------------------------------
(* The rank of an element: the facts of DataQueryProofs, for keys in place of columns. *)

\* The elements up to x.
UpTo(S, x) == {y \in S : y <= x}

\* Every element has a place among those of its set, ...
LEMMA RankType ==
    ASSUME NEW S, S \subseteq Int, IsFiniteSet(S), NEW x \in S
    PROVE  Rank(S, x) \in 1..Cardinality(S)
<1>1. UpTo(S, x) \subseteq S /\ {x} \subseteq UpTo(S, x)
  BY DEF UpTo
<1>2. IsFiniteSet(UpTo(S, x)) /\ Cardinality(UpTo(S, x)) <= Cardinality(S)
  BY <1>1, FS_Subset
<1>3. Cardinality({x}) = 1 /\ Cardinality({x}) <= Cardinality(UpTo(S, x))
  BY <1>1, <1>2, FS_Subset, FS_Singleton
<1>4. Cardinality(UpTo(S, x)) \in Nat /\ Cardinality(S) \in Nat
  BY <1>2, FS_CardinalityType
<1>5. Rank(S, x) = Cardinality(UpTo(S, x))
  BY DEF Rank, UpTo
<1>6. QED
  BY <1>2, <1>3, <1>4, <1>5

\* ... a later one than the elements before it, ...
LEMMA RankMonotone ==
    ASSUME NEW S, S \subseteq Int, IsFiniteSet(S), NEW x \in S, NEW y \in S, x < y
    PROVE  Rank(S, x) < Rank(S, y)
<1>1. /\ UpTo(S, x) \subseteq UpTo(S, y) /\ UpTo(S, y) \subseteq S
      /\ y \in UpTo(S, y) /\ y \notin UpTo(S, x)
  <2>1. x \in Int /\ y \in Int /\ \A z \in S : z \in Int /\ (z <= x => z <= y)
    OBVIOUS
  <2>2. ~ (y <= x) /\ y <= y
    BY <2>1
  <2>3. QED
    BY <2>1, <2>2 DEF UpTo
<1>2. IsFiniteSet(UpTo(S, y))
  BY <1>1, FS_Subset
<1>3. /\ Cardinality(UpTo(S, x)) <= Cardinality(UpTo(S, y))
      /\ Cardinality(UpTo(S, x)) # Cardinality(UpTo(S, y))
      /\ IsFiniteSet(UpTo(S, x))
  BY <1>1, <1>2, FS_Subset
<1>4. Cardinality(UpTo(S, x)) \in Nat /\ Cardinality(UpTo(S, y)) \in Nat
  BY <1>2, <1>3, FS_CardinalityType
<1>5. Rank(S, x) = Cardinality(UpTo(S, x)) /\ Rank(S, y) = Cardinality(UpTo(S, y))
  BY DEF Rank, UpTo
<1>6. QED
  BY <1>3, <1>4, <1>5

\* ... so that the order of places is that of elements.
LEMMA RankOrder ==
    ASSUME NEW S, S \subseteq Int, IsFiniteSet(S), NEW x \in S, NEW y \in S
    PROVE  /\ x <= y <=> Rank(S, x) <= Rank(S, y)
           /\ x = y <=> Rank(S, x) = Rank(S, y)
<1>1. Rank(S, x) \in Nat /\ Rank(S, y) \in Nat /\ x \in Int /\ y \in Int
      /\ Cardinality(S) \in Nat
  <2>1. Cardinality(S) \in Nat
    BY FS_CardinalityType
  <2>2. Rank(S, x) \in 1..Cardinality(S) /\ Rank(S, y) \in 1..Cardinality(S)
    BY RankType
  <2>3. QED
    BY <2>1, <2>2
<1>2. x < y => Rank(S, x) < Rank(S, y)
  BY RankMonotone
<1>3. y < x => Rank(S, y) < Rank(S, x)
  BY RankMonotone
<1>4. QED
  BY <1>1, <1>2, <1>3

\* Every place is taken.
LEMMA RankTaken ==
    ASSUME NEW S, S \subseteq Int, IsFiniteSet(S), NEW i \in 1..Cardinality(S)
    PROVE  \E x \in S : Rank(S, x) = i
<1>1. Cardinality(S) \in Nat
  BY FS_CardinalityType
<1> DEFINE N == 1..Cardinality(S)
           f == [x \in S |-> Rank(S, x)]
<1>2. f \in [S -> N]
  BY RankType
<1>3. \A x, y \in S : f[x] = f[y] => x = y
  BY RankOrder
<1>4. f \in Injection(S, N)
  BY <1>2, <1>3 DEF Injection, IsInjective
<1>5. IsFiniteSet(N) /\ Cardinality(N) = Cardinality(S)
  BY <1>1, FS_Interval
<1>6. f \in Surjection(S, N)
  BY <1>4, <1>5, FS_Injection
<1>7. \E x \in S : f[x] = i
  BY <1>6 DEF Surjection
<1>8. QED
  BY <1>7

\* The first b elements, and the others.
Within(S, b) == {x \in S : Rank(S, x) <= b}
Beyond(S, b) == {x \in S : ~ (Rank(S, x) <= b)}

\* The first n elements are n, when there are as many.
LEMMA FirstOnes ==
    ASSUME NEW S, S \subseteq Int, IsFiniteSet(S), NEW n \in Nat, n <= Cardinality(S),
           NEW F, F = Within(S, n)
    PROVE  IsFiniteSet(F) /\ Cardinality(F) = n
<1>0. F = {x \in S : Rank(S, x) <= n}
  BY DEF Within
<1>1. Cardinality(S) \in Nat
  BY FS_CardinalityType
<1>2. IsFiniteSet(F)
  BY <1>0, FS_Subset
<1> DEFINE f == [x \in F |-> Rank(S, x)]
<1>3. f \in [F -> 1..n]
  <2>1. \A x \in F : x \in S /\ Rank(S, x) <= n
    BY <1>0
  <2>2. \A x \in F : Rank(S, x) \in 1..Cardinality(S)
    BY <2>1, RankType
  <2>3. \A x \in F : Rank(S, x) \in 1..n
    BY <1>1, <2>1, <2>2
  <2>4. QED
    BY <2>3
<1>4. \A x, y \in F : f[x] = f[y] => x = y
  BY <1>0, RankOrder
<1>5. \A i \in 1..n : \E x \in F : f[x] = i
  <2>1. SUFFICES ASSUME NEW i \in 1..n PROVE \E x \in F : f[x] = i
    OBVIOUS
  <2>2. PICK x \in S : Rank(S, x) = i
    <3>1. i \in 1..Cardinality(S)
      BY <1>1
    <3>2. QED
      BY <3>1, RankTaken
  <2>3. x \in F
    BY <1>0, <2>2
  <2>4. QED
    BY <2>2, <2>3
<1>6. f \in Injection(F, 1..n) /\ f \in Surjection(F, 1..n)
  BY <1>3, <1>4, <1>5 DEF Injection, IsInjective, Surjection
<1>7. IsFiniteSet(1..n) /\ Cardinality(1..n) = n
  BY FS_Interval
<1>8. QED
  BY <1>2, <1>6, <1>7, FS_Injection

\* The elements of a set in order.
LEMMA AscendingParts ==
    ASSUME NEW S, S \subseteq Nat, IsFiniteSet(S), NEW a, a = Ascending(S)
    PROVE  /\ a \in Seq(Nat) /\ Len(a) = Cardinality(S)
           /\ \A i \in 1..Len(a) : a[i] \in S
           /\ \A i, j \in 1..Len(a) : i < j => a[i] < a[j]
           /\ \A x \in S : \E i \in 1..Len(a) : a[i] = x
<1>1. Cardinality(S) \in Nat /\ S \subseteq Int
  BY FS_CardinalityType
<1>2. a = [i \in 1..Cardinality(S) |-> CHOOSE x \in S : Rank(S, x) = i]
  BY DEF Ascending
<1>3. ASSUME NEW i \in 1..Cardinality(S) PROVE a[i] \in S /\ Rank(S, a[i]) = i
  <2>1. \E x \in S : Rank(S, x) = i
    BY <1>1, RankTaken
  <2>2. a[i] = CHOOSE x \in S : Rank(S, x) = i
    BY <1>2
  <2>3. QED
    BY <2>1, <2>2
<1>4. a \in [1..Cardinality(S) -> Nat]
  BY <1>2, <1>3
<1>5. a \in Seq(Nat) /\ Len(a) = Cardinality(S)
  BY <1>1, <1>4
<1>6. ASSUME NEW i \in 1..Len(a), NEW j \in 1..Len(a), i < j PROVE a[i] < a[j]
  <2>1. a[i] \in S /\ a[j] \in S /\ Rank(S, a[i]) = i /\ Rank(S, a[j]) = j
    BY <1>3, <1>5
  <2>2. ~ (Rank(S, a[j]) <= Rank(S, a[i]))
    BY <1>6, <2>1
  <2>3. ~ (a[j] <= a[i])
    BY <1>1, <2>1, <2>2, RankOrder
  <2>4. a[i] \in Int /\ a[j] \in Int
    BY <1>1, <2>1
  <2>5. QED
    BY <2>3, <2>4
<1>7. ASSUME NEW x \in S PROVE \E i \in 1..Len(a) : a[i] = x
  <2>1. PICK i \in 1..Len(a) : i = Rank(S, x)
    BY <1>1, <1>5, RankType
  <2>2. a[i] \in S /\ Rank(S, a[i]) = Rank(S, x)
    BY <1>3, <1>5, <2>1
  <2>3. a[i] = x
    BY <1>1, <2>2, RankOrder
  <2>4. QED
    BY <2>3
<1>8. QED
  BY <1>3, <1>5, <1>6, <1>7

-------------------------------------------------------------------------------
(* Counting *)

\* A finite set has a size, and so have its parts.
LEMMA Size ==
    ASSUME NEW S, IsFiniteSet(S), NEW T, T \subseteq S
    PROVE  /\ IsFiniteSet(T) /\ Cardinality(S) \in Nat /\ Cardinality(T) \in Nat
           /\ Cardinality(T) <= Cardinality(S)
<1>1. IsFiniteSet(T) /\ Cardinality(T) <= Cardinality(S)
  BY FS_Subset
<1>2. QED
  BY <1>1, FS_CardinalityType

\* Two sets without a common element.
LEMMA Disjoint ==
    ASSUME NEW S, IsFiniteSet(S), NEW T, IsFiniteSet(T), S \cap T = {}
    PROVE  /\ IsFiniteSet(S \cup T)
           /\ Cardinality(S \cup T) = Cardinality(S) + Cardinality(T)
<1>1. Cardinality(S) \in Nat /\ Cardinality(T) \in Nat /\ Cardinality({}) = 0
  BY FS_CardinalityType, FS_EmptySet
<1>2. /\ IsFiniteSet(S \cup T)
      /\ Cardinality(S \cup T) = Cardinality(S) + Cardinality(T) - Cardinality(S \cap T)
  BY FS_Union
<1>3. Cardinality(S \cap T) = 0
  BY FS_EmptySet, Zenon
<1>4. QED
  BY <1>1, <1>2, <1>3

\* A set in two.
LEMMA Split ==
    ASSUME NEW S, IsFiniteSet(S), NEW T
    PROVE  /\ IsFiniteSet(S \cap T) /\ IsFiniteSet(S \ T)
           /\ Cardinality(S) = Cardinality(S \cap T) + Cardinality(S \ T)
           /\ Cardinality(S \cap T) \in Nat /\ Cardinality(S \ T) \in Nat
<1>1. IsFiniteSet(S \cap T) /\ IsFiniteSet(S \ T)
  BY Size
<1>2. (S \cap T) \cap (S \ T) = {} /\ (S \cap T) \cup (S \ T) = S
  OBVIOUS
<1>3. Cardinality(S) = Cardinality(S \cap T) + Cardinality(S \ T)
  BY <1>1, <1>2, Disjoint
<1>4. QED
  BY <1>1, <1>3, FS_CardinalityType

\* A set covered by two has at most as many elements as both.
LEMMA Covered ==
    ASSUME NEW S, NEW T, IsFiniteSet(T), NEW U, IsFiniteSet(U), S \subseteq T \cup U
    PROVE  /\ IsFiniteSet(S)
           /\ Cardinality(S) <= Cardinality(T) + Cardinality(U)
           /\ Cardinality(S) \in Nat
<1>1. /\ IsFiniteSet(T \cup U)
      /\ Cardinality(T \cup U) = Cardinality(T) + Cardinality(U) - Cardinality(T \cap U)
  BY FS_Union
<1>2. IsFiniteSet(T \cap U)
  BY Size
<1>3. /\ Cardinality(T) \in Nat /\ Cardinality(U) \in Nat /\ Cardinality(T \cap U) \in Nat
  BY <1>2, FS_CardinalityType
<1>4. IsFiniteSet(S) /\ Cardinality(S) <= Cardinality(T \cup U) /\ Cardinality(S) \in Nat
  BY <1>1, Size
<1>5. QED
  BY <1>1, <1>3, <1>4

-------------------------------------------------------------------------------
(* How the places move *)

\* A finite set of keys.
Keys(S) == S \subseteq Nat /\ IsFiniteSet(S)

\* There are at most b, and all of them when the set has more.
LEMMA WithinSize ==
    ASSUME NEW S, Keys(S), NEW b \in Nat
    PROVE  /\ IsFiniteSet(Within(S, b)) /\ IsFiniteSet(Beyond(S, b))
           /\ Cardinality(Within(S, b)) \in Nat /\ Cardinality(Within(S, b)) <= b
           /\ Cardinality(Beyond(S, b)) \in Nat
           /\ Cardinality(S) = Cardinality(Within(S, b)) + Cardinality(Beyond(S, b))
           /\ Beyond(S, b) # {} => Cardinality(Within(S, b)) = b
<1>1. S \subseteq Int /\ IsFiniteSet(S) /\ Cardinality(S) \in Nat
  BY FS_CardinalityType DEF Keys
<1>2. \A x \in S : Rank(S, x) \in 1..Cardinality(S)
  BY <1>1, RankType
<1>3. Within(S, b) \subseteq S /\ Beyond(S, b) = S \ Within(S, b)
  BY DEF Within, Beyond
<1>4. S \cap Within(S, b) = Within(S, b)
  BY <1>3
<1>5. /\ IsFiniteSet(Within(S, b)) /\ IsFiniteSet(Beyond(S, b))
      /\ Cardinality(Within(S, b)) \in Nat /\ Cardinality(Beyond(S, b)) \in Nat
      /\ Cardinality(S) = Cardinality(Within(S, b)) + Cardinality(Beyond(S, b))
  BY <1>1, <1>3, <1>4, Split
<1>6. ASSUME b <= Cardinality(S) PROVE Cardinality(Within(S, b)) = b
  BY <1>1, <1>6, FirstOnes
<1>7. ASSUME ~ (b <= Cardinality(S)) PROVE Cardinality(Within(S, b)) <= b /\ Beyond(S, b) = {}
  <2>1. Cardinality(Within(S, b)) <= b
    BY <1>1, <1>5, <1>7
  <2>2. \A x \in S : Rank(S, x) <= b
    BY <1>1, <1>2, <1>7
  <2>3. QED
    BY <2>1, <2>2 DEF Beyond
<1>8. QED
  BY <1>1, <1>5, <1>6, <1>7

\* Elements of both sets that are among the first b of one and not of the other: for
\* each of them the other one has an element of its own among its first b.
LEMMA Crossing ==
    ASSUME NEW M, Keys(M), NEW N, Keys(N), NEW b \in Nat,
           NEW X, X = (M \cap N) \cap (Within(M, b) \ Within(N, b))
    PROVE  /\ IsFiniteSet(X) /\ Cardinality(X) \in Nat
           /\ Cardinality(X) <= Cardinality((N \ M) \cap Within(N, b))
<1>1. /\ M \subseteq Int /\ IsFiniteSet(M) /\ N \subseteq Int /\ IsFiniteSet(N)
  BY DEF Keys
<1>2. IsFiniteSet(X) /\ Cardinality(X) \in Nat
  BY <1>1, Size
<1>3. CASE X = {}
  <2>1. Cardinality(X) = 0
    BY <1>3, FS_EmptySet
  <2>2. Cardinality((N \ M) \cap Within(N, b)) \in Nat
    BY <1>1, Size
  <2>3. QED
    BY <1>2, <2>1, <2>2
<1>4. CASE X # {}
  <2>1. PICK k : k \in X
    BY <1>4
  <2>2. k \in M /\ k \in N /\ k \in Within(M, b) /\ k \in Beyond(N, b)
    BY <2>1 DEF Within, Beyond
  <2>3. PICK W : W = Within(N, b)
    OBVIOUS
  <2>4. Cardinality(W) = b /\ IsFiniteSet(W) /\ W \subseteq N
    BY <2>2, <2>3, WithinSize DEF Within
  <2>5. PICK V : V = W \cap M
    OBVIOUS
  <2>6. ASSUME NEW v \in V PROVE v \in Within(M, b)
    <3>1. v \in M /\ v \in N /\ Rank(N, v) <= b /\ ~ (Rank(N, k) <= b) /\ Rank(M, k) <= b
      BY <2>2, <2>3, <2>4, <2>5 DEF Within, Beyond
    <3>2. Cardinality(N) \in Nat /\ Cardinality(M) \in Nat
      BY <1>1, FS_CardinalityType
    <3>3. Rank(N, v) \in 1..Cardinality(N) /\ Rank(N, k) \in 1..Cardinality(N)
      BY <1>1, <2>2, <3>1, RankType
    <3>4. Rank(N, v) <= Rank(N, k)
      BY <3>1, <3>2, <3>3
    <3>5. v <= k
      BY <1>1, <2>2, <3>1, <3>4, RankOrder
    <3>6. Rank(M, v) <= Rank(M, k)
      BY <1>1, <2>2, <3>1, <3>5, RankOrder
    <3>7. Rank(M, v) \in 1..Cardinality(M) /\ Rank(M, k) \in 1..Cardinality(M)
      BY <1>1, <2>2, <3>1, RankType
    <3>8. Rank(M, v) <= b
      BY <3>1, <3>2, <3>6, <3>7
    <3>9. QED
      BY <3>1, <3>8 DEF Within
  <2>7. X \cap V = {} /\ X \cup V \subseteq Within(M, b)
    BY <2>3, <2>5, <2>6
  <2>8. IsFiniteSet(V) /\ Cardinality(V) \in Nat
    BY <2>4, <2>5, Size
  <2>9. Cardinality(X \cup V) = Cardinality(X) + Cardinality(V)
    BY <1>2, <2>7, <2>8, Disjoint
  <2>10. /\ IsFiniteSet(Within(M, b)) /\ Cardinality(Within(M, b)) <= b
         /\ Cardinality(Within(M, b)) \in Nat
    BY WithinSize
  <2>11. Cardinality(X \cup V) <= Cardinality(Within(M, b))
    BY <2>7, <2>10, Size
  <2>12. Cardinality(W) = Cardinality(V) + Cardinality(W \ M) /\ Cardinality(W \ M) \in Nat
    BY <2>4, <2>5, Split
  <2>13. (N \ M) \cap Within(N, b) = W \ M
    BY <2>3, <2>4
  <2>14. Cardinality(X) <= Cardinality(W \ M)
    BY <1>2, <2>4, <2>8, <2>9, <2>10, <2>11, <2>12
  <2>15. QED
    BY <1>2, <2>13, <2>14
<1>5. QED
  BY <1>3, <1>4

\* Of the elements G, no more come to lie beyond the first b than enter the set.
LEMMA MoreBeyond ==
    ASSUME NEW M, Keys(M), NEW N, Keys(N), NEW b \in Nat, NEW G
    PROVE  Cardinality(G \cap Beyond(N, b)) <=
             Cardinality(G \cap Beyond(M, b)) + Cardinality(N \ M)
<1>1. IsFiniteSet(M) /\ IsFiniteSet(N)
  BY DEF Keys
<1>2. PICK X : X = (M \cap N) \cap (Within(M, b) \ Within(N, b))
  OBVIOUS
<1>3. PICK A : A = N \ M
  OBVIOUS
<1>4. PICK W : W = Within(N, b)
  OBVIOUS
<1>5. IsFiniteSet(X) /\ Cardinality(X) \in Nat /\ Cardinality(X) <= Cardinality(A \cap W)
  BY <1>2, <1>3, <1>4, Crossing
<1>6. IsFiniteSet(A) /\ Cardinality(A) \in Nat
  BY <1>1, <1>3, Size
<1>7. /\ Cardinality(A) = Cardinality(A \cap W) + Cardinality(A \ W) /\ IsFiniteSet(A \ W)
      /\ Cardinality(A \cap W) \in Nat /\ Cardinality(A \ W) \in Nat
  BY <1>6, Split
<1>8. PICK B : B = G \cap Beyond(M, b)
  OBVIOUS
<1>9. IsFiniteSet(B) /\ Cardinality(B) \in Nat
  BY <1>1, <1>8, Size DEF Beyond
<1>10. PICK C : C = X \cup (A \ W)
  OBVIOUS
<1>11. IsFiniteSet(C) /\ Cardinality(C) \in Nat /\ Cardinality(C) <= Cardinality(A)
  <2>1. IsFiniteSet(C) /\ Cardinality(C) <= Cardinality(X) + Cardinality(A \ W)
        /\ Cardinality(C) \in Nat
    BY <1>5, <1>7, <1>10, Covered
  <2>2. QED
    BY <1>5, <1>6, <1>7, <2>1
<1>12. G \cap Beyond(N, b) \subseteq B \cup C
  BY <1>2, <1>3, <1>4, <1>8, <1>10 DEF Beyond, Within
<1>13. Cardinality(G \cap Beyond(N, b)) <= Cardinality(B) + Cardinality(C)
       /\ Cardinality(G \cap Beyond(N, b)) \in Nat
  BY <1>9, <1>11, <1>12, Covered
<1>14. QED
  BY <1>3, <1>6, <1>8, <1>9, <1>11, <1>13

\* Of the elements U that stay, no more come to lie within the first b than leave.
LEMMA MoreWithin ==
    ASSUME NEW M, Keys(M), NEW N, Keys(N), NEW b \in Nat, NEW U, U \subseteq M \cap N
    PROVE  Cardinality(U \cap Within(N, b)) <=
             Cardinality(U \cap Within(M, b)) + Cardinality(M \ N)
<1>1. IsFiniteSet(M) /\ IsFiniteSet(N)
  BY DEF Keys
<1>2. PICK Y : Y = (N \cap M) \cap (Within(N, b) \ Within(M, b))
  OBVIOUS
<1>3. /\ IsFiniteSet(Y) /\ Cardinality(Y) \in Nat
      /\ Cardinality(Y) <= Cardinality((M \ N) \cap Within(M, b))
  BY <1>2, Crossing
<1>4. /\ Cardinality((M \ N) \cap Within(M, b)) <= Cardinality(M \ N)
      /\ Cardinality((M \ N) \cap Within(M, b)) \in Nat /\ Cardinality(M \ N) \in Nat
  <2>1. IsFiniteSet(M \ N)
    BY <1>1, Size
  <2>2. QED
    BY <2>1, Size
<1>5. PICK B : B = U \cap Within(M, b)
  OBVIOUS
<1>6. IsFiniteSet(B) /\ Cardinality(B) \in Nat
  BY <1>1, <1>5, Size
<1>7. U \cap Within(N, b) \subseteq B \cup Y
  BY <1>2, <1>5
<1>8. Cardinality(U \cap Within(N, b)) <= Cardinality(B) + Cardinality(Y)
      /\ Cardinality(U \cap Within(N, b)) \in Nat
  BY <1>3, <1>6, <1>7, Covered
<1>9. QED
  BY <1>3, <1>4, <1>5, <1>6, <1>8

-------------------------------------------------------------------------------
(* What is lost and what comes again, for a result M of which S was there all the time, *)
(* G has been taken in n objects, b places have been passed and the first page had n0.  *)

Lost(M, S, G, b, l) ==
    Cardinality((S \ G) \cap Within(M, b)) <= l \/ Cardinality(S \ G) <= l

Lesser(x, y) == IF x <= y THEN x ELSE y

\* Pages side by side: what was taken and lies ahead again has been pushed there.
WholePages(M, G, n, n0, b, e) ==
    n0 = DefaultLimit /\ n - Cardinality(G) + Cardinality(G \cap Beyond(M, b)) <= e

\* Pages that overlap: the first one held all there was, the others what has entered.
ShortPages(M, G, n, n0, b, e) ==
    /\ 0 < n0 /\ n0 < DefaultLimit /\ n0 <= Cardinality(G) /\ n0 <= b
    /\ Cardinality(M) <= n0 + e
    /\ n <= n0 + Overlap(n0) * Lesser(e, b - n0)

Again(M, G, n, n0, b, e) ==
    WholePages(M, G, n, n0, b, e) \/ ShortPages(M, G, n, n0, b, e) \/ (n0 = 0 /\ n = 0)

\* The size of the result, which was T at first.
Balance(M, T, e, l) == Cardinality(M) = T + e - l

\* Overlapping pages fill the step from one to the next.
LEMMA OverlapType ==
    ASSUME NEW n \in Nat, 0 < n
    PROVE  Overlap(n) \in Nat /\ DefaultLimit <= Overlap(n) * n /\ 1 <= Overlap(n)
<1>1. DefaultLimit \in Nat /\ 1 <= DefaultLimit
  BY QueryAssumption
<1>2. PICK x \in Nat : x = DefaultLimit + n - 1
  BY <1>1
<1>3. PICK q : q = x \div n
  OBVIOUS
<1>4. q \in Nat /\ n * q <= x /\ x < n * q + n
  BY <1>2, <1>3
<1>5. Overlap(n) = q
  BY <1>2, <1>3 DEF Overlap
<1>6. DefaultLimit <= n * q
  <2>1. PICK y \in Nat : y = n * q
    BY <1>4
  <2>2. QED
    BY <1>1, <1>2, <1>4, <2>1
<1>7. q # 0
  BY <1>1, <1>6
<1>8. n * q = q * n
  BY <1>4
<1>9. QED
  BY <1>4, <1>5, <1>6, <1>7, <1>8

\* A factor keeps the order.
LEMMA Times ==
    ASSUME NEW c \in Nat, NEW x \in Nat, NEW y \in Nat, x <= y
    PROVE  c * x \in Nat /\ c * y \in Nat /\ c * x <= c * y
<1>1. PICK d \in Nat : y = x + d
  BY y - x \in Nat
<1>2. c * y = c * x + c * d /\ c * d \in Nat /\ c * x \in Nat
  BY <1>1
<1>3. QED
  BY <1>1, <1>2

\* The result changes from M to N: its size, ...
LEMMA MovedSize ==
    ASSUME NEW M, Keys(M), NEW N, Keys(N)
    PROVE  /\ Cardinality(N \ M) \in Nat /\ Cardinality(M \ N) \in Nat
           /\ Cardinality(M) \in Nat /\ Cardinality(N) \in Nat
           /\ Cardinality(N) = Cardinality(M) + Cardinality(N \ M) - Cardinality(M \ N)
<1>1. IsFiniteSet(M) /\ IsFiniteSet(N)
  BY DEF Keys
<1>2. /\ Cardinality(M) = Cardinality(M \cap N) + Cardinality(M \ N)
      /\ Cardinality(M \cap N) \in Nat /\ Cardinality(M \ N) \in Nat
  BY <1>1, Split
<1>3. Cardinality(N) = Cardinality(N \cap M) + Cardinality(N \ M) /\ Cardinality(N \ M) \in Nat
  BY <1>1, Split
<1>4. Cardinality(N \cap M) = Cardinality(M \cap N)
  <2>1. N \cap M = M \cap N
    OBVIOUS
  <2>2. QED
    BY <2>1, Zenon
<1>5. QED
  BY <1>2, <1>3, <1>4

\* ... which stays in balance, ...
LEMMA MovedBalance ==
    ASSUME NEW M, Keys(M), NEW N, Keys(N), NEW T \in Nat, NEW e \in Nat, NEW l \in Nat,
           NEW f, f = e + Cardinality(N \ M), NEW m, m = l + Cardinality(M \ N),
           Balance(M, T, e, l)
    PROVE  f \in Nat /\ m \in Nat /\ Balance(N, T, f, m)
<1>1. PICK a, d, p, q : /\ a = Cardinality(N \ M) /\ d = Cardinality(M \ N)
                        /\ p = Cardinality(M) /\ q = Cardinality(N)
  OBVIOUS
<1>2. a \in Nat /\ d \in Nat /\ p \in Nat /\ q \in Nat /\ q = p + a - d
  BY <1>1, MovedSize
<1>3. p = T + e - l
  BY <1>1 DEF Balance
<1>4. q = T + f - m /\ f \in Nat /\ m \in Nat
  BY <1>1, <1>2, <1>3
<1>5. QED
  BY <1>1, <1>4 DEF Balance

\* ... what is lost of it, ...
LEMMA MovedLost ==
    ASSUME NEW M, Keys(M), NEW N, Keys(N), NEW S, S \subseteq M, NEW G,
           NEW b \in Nat, NEW l \in Nat, NEW m, m = l + Cardinality(M \ N),
           Lost(M, S, G, b, l)
    PROVE  Lost(N, S \cap N, G, b, m)
<1>1. PICK d : d = Cardinality(M \ N)
  OBVIOUS
<1>2. IsFiniteSet(M) /\ IsFiniteSet(N)
  BY DEF Keys
<1>3. d \in Nat /\ m = l + d
  BY <1>1, <1>2, Size
<1>4. PICK U : U = (S \cap N) \ G
  OBVIOUS
<1>5. IsFiniteSet(S \ G)
  BY <1>2, Size
<1>6. CASE Cardinality((S \ G) \cap Within(M, b)) <= l
  <2>1. Cardinality(U \cap Within(N, b)) <= Cardinality(U \cap Within(M, b)) + d
    BY <1>1, <1>4, MoreWithin
  <2>2. IsFiniteSet((S \ G) \cap Within(M, b))
    BY <1>5, Size
  <2>3. U \cap Within(M, b) \subseteq (S \ G) \cap Within(M, b)
    BY <1>4
  <2>4. /\ Cardinality(U \cap Within(M, b)) <= Cardinality((S \ G) \cap Within(M, b))
        /\ Cardinality((S \ G) \cap Within(M, b)) \in Nat
        /\ Cardinality(U \cap Within(M, b)) \in Nat
    BY <2>2, <2>3, Size
  <2>5. Cardinality(U \cap Within(N, b)) \in Nat
    <3>1. U \cap Within(N, b) \subseteq S \ G
      BY <1>4
    <3>2. QED
      BY <1>5, <3>1, Size
  <2>6. Cardinality(U \cap Within(N, b)) <= m
    BY <1>3, <1>6, <2>1, <2>4, <2>5
  <2>7. QED
    BY <1>4, <2>6 DEF Lost
<1>7. CASE Cardinality(S \ G) <= l
  <2>1. U \subseteq S \ G
    BY <1>4
  <2>2. /\ Cardinality(U) <= Cardinality(S \ G) /\ Cardinality(S \ G) \in Nat
        /\ Cardinality(U) \in Nat
    BY <1>5, <2>1, Size
  <2>3. Cardinality(U) <= m
    BY <1>3, <1>7, <2>2
  <2>4. QED
    BY <1>4, <2>3 DEF Lost
<1>8. QED
  BY <1>6, <1>7 DEF Lost

\* ... and what comes again.
LEMMA MovedAgain ==
    ASSUME NEW M, Keys(M), NEW N, Keys(N), NEW G, Keys(G), NEW n \in Nat, NEW n0 \in Nat,
           NEW b \in Nat, NEW e \in Nat, NEW f, f = e + Cardinality(N \ M),
           Again(M, G, n, n0, b, e)
    PROVE  Again(N, G, n, n0, b, f)
<1>1. PICK a, d, p, q : /\ a = Cardinality(N \ M) /\ d = Cardinality(M \ N)
                        /\ p = Cardinality(M) /\ q = Cardinality(N)
  OBVIOUS
<1>2. a \in Nat /\ d \in Nat /\ p \in Nat /\ q \in Nat /\ q = p + a - d
  BY <1>1, MovedSize
<1>3. IsFiniteSet(G) /\ Cardinality(G) \in Nat
  BY FS_CardinalityType DEF Keys
<1>4. f = e + a /\ f \in Nat /\ e <= f
  BY <1>1, <1>2
<1>5. ASSUME WholePages(M, G, n, n0, b, e) PROVE WholePages(N, G, n, n0, b, f)
  <2>1. PICK x, y : x = Cardinality(G \cap Beyond(M, b)) /\ y = Cardinality(G \cap Beyond(N, b))
    OBVIOUS
  <2>2. x \in Nat /\ y \in Nat
    BY <1>3, <2>1, Size
  <2>3. y <= x + a
    BY <1>1, <2>1, MoreBeyond
  <2>4. n0 = DefaultLimit /\ n - Cardinality(G) + x <= e
    BY <1>5, <2>1 DEF WholePages
  <2>5. n - Cardinality(G) + y <= f
    BY <1>2, <1>3, <1>4, <2>2, <2>3, <2>4
  <2>6. QED
    BY <2>1, <2>4, <2>5 DEF WholePages
<1>6. ASSUME ShortPages(M, G, n, n0, b, e) PROVE ShortPages(N, G, n, n0, b, f)
  <2>1. /\ 0 < n0 /\ n0 < DefaultLimit /\ n0 <= Cardinality(G) /\ n0 <= b
        /\ p <= n0 + e /\ n <= n0 + Overlap(n0) * Lesser(e, b - n0)
    BY <1>1, <1>6 DEF ShortPages
  <2>2. q <= n0 + f
    BY <1>2, <1>4, <2>1
  <2>3. PICK x, y : x = Lesser(e, b - n0) /\ y = Lesser(f, b - n0)
    OBVIOUS
  <2>4. x \in Nat /\ y \in Nat /\ x <= y
    BY <1>4, <2>1, <2>3 DEF Lesser
  <2>5. PICK c \in Nat : c = Overlap(n0)
    BY <2>1, OverlapType
  <2>6. c * x \in Nat /\ c * y \in Nat /\ c * x <= c * y
    BY <2>4, Times
  <2>7. n <= n0 + c * x
    BY <2>1, <2>3, <2>5
  <2>8. n <= n0 + c * y
    BY <2>6, <2>7
  <2>9. QED
    BY <1>1, <2>1, <2>2, <2>3, <2>5, <2>8 DEF ShortPages
<1>7. QED
  BY <1>5, <1>6 DEF Again

\* The objects of a page.
PageOf(M, o) == {x \in M : Rank(M, x) \in (o + 1)..(o + DefaultLimit)}

\* They are what the page adds to the places passed.
PageFacts(M, o, P) ==
    /\ Keys(P) /\ P \subseteq M /\ P = Beyond(M, o) \cap Within(M, o + DefaultLimit)
    /\ Cardinality(P) \in Nat /\ Cardinality(P) <= DefaultLimit
    /\ Cardinality(M) <= o => P = {}
    /\ o <= Cardinality(M) => Cardinality(P) <= Cardinality(M) - o
    /\ o = 0 /\ Cardinality(P) # DefaultLimit => P = M

\* A page is as long as the limit, or the rest of the result.
LEMMA PageParts ==
    ASSUME NEW M, Keys(M), NEW o \in Nat, NEW P, P = PageOf(M, o)
    PROVE  PageFacts(M, o, P)
<1>1. /\ M \subseteq Int /\ M \subseteq Nat /\ IsFiniteSet(M) /\ Cardinality(M) \in Nat
      /\ DefaultLimit \in Nat /\ o + DefaultLimit \in Nat
  BY QueryAssumption, FS_CardinalityType DEF Keys
<1>2. P \subseteq M /\ Keys(P) /\ Cardinality(P) \in Nat
  BY <1>1, Size DEF PageOf, Keys
<1>3. \A x \in M : Rank(M, x) \in 1..Cardinality(M)
  BY <1>1, RankType
<1>4. \A x \in M : Rank(M, x) \in Nat
  BY <1>1, <1>3
<1>5. PICK z \in Nat : z = o + DefaultLimit
  BY <1>1
<1>6. P = Beyond(M, o) \cap Within(M, z)
  BY <1>4, <1>5 DEF PageOf, Beyond, Within
<1>7. /\ Cardinality(Within(M, o)) <= o /\ Cardinality(Within(M, o)) \in Nat
      /\ IsFiniteSet(Within(M, o)) /\ Cardinality(Beyond(M, o)) \in Nat
      /\ Cardinality(M) = Cardinality(Within(M, o)) + Cardinality(Beyond(M, o))
      /\ Beyond(M, o) # {} => Cardinality(Within(M, o)) = o
      /\ IsFiniteSet(Beyond(M, o))
  BY <1>1, WithinSize
<1>8. /\ Cardinality(Within(M, z)) <= z /\ Cardinality(Within(M, z)) \in Nat
      /\ IsFiniteSet(Within(M, z))
      /\ Beyond(M, z) # {} => Cardinality(Within(M, z)) = z
  BY <1>1, WithinSize
<1>9. Cardinality(P) <= Cardinality(Beyond(M, o))
  BY <1>6, <1>7, Size
<1>10. ASSUME Cardinality(M) <= o PROVE P = {}
  <2>1. \A x \in M : Rank(M, x) <= o
    BY <1>1, <1>3, <1>10
  <2>2. QED
    BY <1>6, <2>1 DEF Beyond
<1>11. ASSUME Beyond(M, o) = {} PROVE Cardinality(P) = 0
  BY <1>6, <1>11, FS_EmptySet
<1>12. ASSUME o <= Cardinality(M) PROVE Cardinality(P) <= Cardinality(M) - o
  BY <1>1, <1>2, <1>7, <1>9, <1>11, <1>12
<1>13. Cardinality(P) <= DefaultLimit
  <2>1. CASE Beyond(M, o) = {}
    BY <1>1, <1>11, <2>1
  <2>2. CASE Beyond(M, o) # {}
    <3>1. PICK V : V = Within(M, o) \cup P
      OBVIOUS
    <3>2. Within(M, o) \cap P = {} /\ V \subseteq Within(M, z)
      <4>1. Within(M, o) \cap P = {}
        BY <1>6 DEF Within, Beyond
      <4>2. ASSUME NEW x \in Within(M, o) PROVE x \in Within(M, z)
        <5>1. x \in M /\ Rank(M, x) \in Nat /\ Rank(M, x) <= o
          BY <1>4 DEF Within
        <5>2. Rank(M, x) <= z
          BY <1>1, <1>5, <5>1
        <5>3. QED
          BY <5>1, <5>2 DEF Within
      <4>3. QED
        BY <1>6, <3>1, <4>1, <4>2
    <3>3. IsFiniteSet(P)
      BY <1>2 DEF Keys
    <3>4. Cardinality(V) = Cardinality(Within(M, o)) + Cardinality(P)
      BY <1>7, <3>1, <3>2, <3>3, Disjoint
    <3>5. Cardinality(V) <= Cardinality(Within(M, z))
      BY <1>8, <3>2, Size
    <3>6. Cardinality(Within(M, o)) = o
      BY <1>7, <2>2
    <3>7. QED
      BY <1>1, <1>2, <1>5, <1>8, <3>4, <3>5, <3>6
  <2>3. QED
    BY <2>1, <2>2
<1>14. ASSUME o = 0, Cardinality(P) # DefaultLimit PROVE P = M
  <2>1. P = Within(M, z) /\ z = DefaultLimit
    <3>1. \A x \in M : ~ (Rank(M, x) <= 0)
      BY <1>1, <1>3
    <3>2. Beyond(M, o) = M
      BY <1>14, <3>1 DEF Beyond
    <3>3. QED
      BY <1>1, <1>5, <1>6, <1>14, <3>2 DEF Within
  <2>2. Beyond(M, z) = {}
    <3>1. Cardinality(P) = Cardinality(Within(M, z))
      BY <2>1, Zenon
    <3>2. QED
      BY <1>8, <1>14, <2>1, <3>1
  <2>3. QED
    BY <2>1, <2>2 DEF Within, Beyond
<1>15. QED
  BY <1>2, <1>5, <1>6, <1>10, <1>12, <1>13, <1>14 DEF PageFacts

\* The first page.
LEMMA FirstTaken ==
    ASSUME NEW M, Keys(M), NEW S, S \subseteq M, NEW P, P = PageOf(M, 0), NEW p, p = Cardinality(P),
           NEW e \in Nat, NEW l \in Nat
    PROVE  /\ Lost(M, S, P, p, l) /\ Again(M, P, p, p, p, e)
           /\ p = 0 => S = {}
<1>1. /\ DefaultLimit \in Nat /\ 0 < DefaultLimit /\ 0 \in Nat
  BY QueryAssumption
<1>2. /\ Keys(P) /\ P \subseteq M /\ P = Beyond(M, 0) \cap Within(M, 0 + DefaultLimit)
      /\ p \in Nat /\ p <= DefaultLimit
      /\ p # DefaultLimit => P = M
  <2>1. PICK o \in Nat : o = 0
    BY <1>1
  <2>2. P = PageOf(M, o)
    BY <2>1
  <2>3. PageFacts(M, o, P)
    BY <2>2, PageParts
  <2>4. QED
    BY <2>1, <2>3 DEF PageFacts
<1>3. \A x \in M : Rank(M, x) \in Nat /\ Rank(M, x) # 0
  <2>1. M \subseteq Int /\ IsFiniteSet(M) /\ Cardinality(M) \in Nat
    BY FS_CardinalityType DEF Keys
  <2>2. \A x \in M : Rank(M, x) \in 1..Cardinality(M)
    BY <2>1, RankType
  <2>3. QED
    BY <2>1, <2>2
<1>4. P = Within(M, DefaultLimit)
  BY <1>1, <1>2, <1>3 DEF Within, Beyond
<1>5. (S \ P) \cap Within(M, p) = {}
  BY <1>1, <1>2, <1>3, <1>4 DEF Within
<1>6. Lost(M, S, P, p, l)
  <2>1. Cardinality((S \ P) \cap Within(M, p)) = 0
    BY <1>5, FS_EmptySet, Zenon
  <2>2. QED
    BY <2>1 DEF Lost
<1>7. CASE p = DefaultLimit
  <2>1. P \cap Beyond(M, p) = {}
    BY <1>4, <1>7 DEF Within, Beyond
  <2>2. Cardinality(P \cap Beyond(M, p)) = 0
    BY <2>1, FS_EmptySet, Zenon
  <2>3. WholePages(M, P, p, p, p, e)
    BY <1>2, <1>7, <2>2 DEF WholePages
  <2>4. QED
    BY <1>1, <1>6, <1>7, <2>3 DEF Again
<1>8. CASE p # DefaultLimit /\ p # 0
  <2>1. Cardinality(M) = p
    BY <1>2, <1>8
  <2>2. PICK c \in Nat : c = Overlap(p)
    BY <1>2, <1>8, OverlapType
  <2>3. Lesser(e, p - p) = 0 /\ c * 0 = 0
    BY <1>2, <2>2 DEF Lesser
  <2>4. p <= p + c * Lesser(e, p - p)
    BY <1>2, <2>3
  <2>5. ShortPages(M, P, p, p, p, e)
    BY <1>1, <1>2, <1>8, <2>1, <2>2, <2>4 DEF ShortPages
  <2>6. QED
    BY <1>6, <1>8, <2>5 DEF Again
<1>9. CASE p = 0
  <2>1. M = {}
    <3>1. P = M /\ IsFiniteSet(M) /\ Cardinality(M) = 0
      BY <1>1, <1>2, <1>9 DEF Keys
    <3>2. QED
      BY <3>1, FS_EmptySet
  <2>2. QED
    BY <1>6, <1>9, <2>1 DEF Again
<1>10. QED
  BY <1>7, <1>8, <1>9

\* A later page, from the place after the ones passed.
LEMMA LaterTaken ==
    ASSUME NEW M, Keys(M), NEW S, S \subseteq M, NEW G, Keys(G), NEW o \in Nat,
           NEW P, P = PageOf(M, o), NEW n \in Nat, NEW n0 \in Nat, 0 < n0, n0 <= DefaultLimit,
           NEW e \in Nat, NEW l \in Nat, NEW p, p = Cardinality(P),
           Lost(M, S, G, o, l), Again(M, G, n, n0, o, e)
    PROVE  Lost(M, S, G \cup P, o + n0, l) /\ Again(M, G \cup P, n + p, n0, o + n0, e)
<1>1. /\ DefaultLimit \in Nat /\ IsFiniteSet(M) /\ IsFiniteSet(G) /\ M \subseteq Int
      /\ Cardinality(M) \in Nat /\ Cardinality(G) \in Nat
  BY QueryAssumption, FS_CardinalityType DEF Keys
<1>2. /\ Keys(P) /\ P \subseteq M /\ P = Beyond(M, o) \cap Within(M, o + DefaultLimit)
      /\ p \in Nat /\ p <= DefaultLimit
      /\ Cardinality(M) <= o => P = {}
      /\ o <= Cardinality(M) => p <= Cardinality(M) - o
  <2>1. PageFacts(M, o, P)
    BY PageParts
  <2>2. QED
    BY <2>1 DEF PageFacts
<1>3. \A x \in M : Rank(M, x) \in Nat
  <2>1. \A x \in M : Rank(M, x) \in 1..Cardinality(M)
    BY <1>1, RankType
  <2>2. QED
    BY <1>1, <2>1
<1>4. IsFiniteSet(S \ G) /\ IsFiniteSet(P)
  BY <1>1, <1>2, Size DEF Keys
<1>5. Lost(M, S, G \cup P, o + n0, l)
  <2>1. (S \ (G \cup P)) \cap Within(M, o + n0) \subseteq (S \ G) \cap Within(M, o)
    <3>1. ASSUME NEW x \in S, x \notin G, x \notin P, Rank(M, x) <= o + n0
          PROVE  Rank(M, x) <= o
      <4>1. x \in M /\ Rank(M, x) \in Nat
        BY <1>3
      <4>2. Rank(M, x) <= o + DefaultLimit
        BY <1>1, <3>1, <4>1
      <4>3. QED
        BY <1>2, <3>1, <4>1, <4>2 DEF Within, Beyond
    <3>2. QED
      BY <3>1 DEF Within
  <2>2. S \ (G \cup P) \subseteq S \ G
    OBVIOUS
  <2>3. IsFiniteSet((S \ G) \cap Within(M, o))
    BY <1>4, Size
  <2>4. /\ Cardinality((S \ (G \cup P)) \cap Within(M, o + n0)) <=
             Cardinality((S \ G) \cap Within(M, o))
        /\ Cardinality((S \ (G \cup P)) \cap Within(M, o + n0)) \in Nat
        /\ Cardinality((S \ G) \cap Within(M, o)) \in Nat
    BY <2>1, <2>3, Size
  <2>5. /\ Cardinality(S \ (G \cup P)) <= Cardinality(S \ G)
        /\ Cardinality(S \ (G \cup P)) \in Nat /\ Cardinality(S \ G) \in Nat
    BY <1>4, <2>2, Size
  <2>6. CASE Cardinality((S \ G) \cap Within(M, o)) <= l
    <3>1. Cardinality((S \ (G \cup P)) \cap Within(M, o + n0)) <= l
      BY <2>4, <2>6
    <3>2. QED
      BY <3>1 DEF Lost
  <2>7. CASE Cardinality(S \ G) <= l
    <3>1. Cardinality(S \ (G \cup P)) <= l
      BY <2>5, <2>7
    <3>2. QED
      BY <3>1 DEF Lost
  <2>8. QED
    BY <2>6, <2>7 DEF Lost
<1>6. PICK H : H = G \cup P
  OBVIOUS
<1>7. /\ IsFiniteSet(H) /\ Cardinality(H) \in Nat /\ Cardinality(G) <= Cardinality(H)
      /\ Cardinality(H) = Cardinality(G) + p - Cardinality(G \cap P)
      /\ Cardinality(G \cap P) \in Nat
  <2>1. IsFiniteSet(H) /\ Cardinality(H) = Cardinality(G) + p - Cardinality(G \cap P)
    BY <1>1, <1>4, <1>6, FS_Union
  <2>2. Cardinality(G) <= Cardinality(H) /\ Cardinality(H) \in Nat
    BY <1>6, <2>1, Size
  <2>3. Cardinality(G \cap P) \in Nat
    BY <1>1, Size
  <2>4. QED
    BY <2>1, <2>2, <2>3
<1>8. ASSUME WholePages(M, G, n, n0, o, e) PROVE WholePages(M, H, n + p, n0, o + n0, e)
  <2>1. PICK B : B = G \cap Beyond(M, o)
    OBVIOUS
  <2>2. n0 = DefaultLimit /\ n - Cardinality(G) + Cardinality(B) <= e
    BY <1>8, <2>1 DEF WholePages
  <2>3. B \cap P = G \cap P
    BY <1>2, <2>1
  <2>4. B \ P = H \cap Beyond(M, o + n0)
    <3>1. PICK z \in Nat : z = o + DefaultLimit /\ z = o + n0
      BY <1>1, <2>2
    <3>2. ASSUME NEW x \in M, ~ (Rank(M, x) <= z) PROVE ~ (Rank(M, x) <= o)
      <4>1. Rank(M, x) \in Nat
        BY <1>3
      <4>2. QED
        BY <1>1, <3>1, <3>2, <4>1
    <3>3. P = Beyond(M, o) \cap Within(M, z)
      BY <1>2, <3>1
    <3>4. B \ P = H \cap Beyond(M, z)
      BY <1>6, <2>1, <3>2, <3>3 DEF Beyond, Within
    <3>5. QED
      BY <3>1, <3>4
  <2>5. IsFiniteSet(B)
    BY <1>1, <2>1, Size
  <2>6. /\ Cardinality(B) = Cardinality(B \cap P) + Cardinality(B \ P)
        /\ Cardinality(B \cap P) \in Nat /\ Cardinality(B \ P) \in Nat
    BY <2>5, Split
  <2>7. PICK u, v : u = Cardinality(G \cap P) /\ v = Cardinality(H \cap Beyond(M, o + n0))
    OBVIOUS
  <2>8. Cardinality(B \cap P) = u /\ Cardinality(B \ P) = v
    BY <2>3, <2>4, <2>7, Zenon
  <2>9. PICK g, h : g = Cardinality(G) /\ h = Cardinality(H)
    OBVIOUS
  <2>10. /\ g \in Nat /\ h \in Nat /\ u \in Nat /\ v \in Nat
         /\ h = g + p - u /\ Cardinality(B) = u + v /\ p \in Nat
    BY <1>1, <1>2, <1>7, <2>6, <2>7, <2>8, <2>9
  <2>11. n - g + (u + v) <= e
    BY <2>2, <2>9, <2>10
  <2>12. (n + p) - h + v <= e
    BY <2>10, <2>11
  <2>13. QED
    BY <2>2, <2>7, <2>9, <2>12 DEF WholePages
<1>9. ASSUME ShortPages(M, G, n, n0, o, e) PROVE ShortPages(M, H, n + p, n0, o + n0, e)
  <2>1. /\ 0 < n0 /\ n0 < DefaultLimit /\ n0 <= Cardinality(G) /\ n0 <= o
        /\ Cardinality(M) <= n0 + e /\ n <= n0 + Overlap(n0) * Lesser(e, o - n0)
    BY <1>9 DEF ShortPages
  <2>2. n0 <= Cardinality(H) /\ n0 <= o + n0
    BY <1>1, <1>7, <2>1
  <2>3. PICK c \in Nat : c = Overlap(n0)
    BY OverlapType
  <2>4. DefaultLimit <= c * n0 /\ 1 <= c
    BY <2>3, OverlapType
  <2>5. PICK x \in Nat : x = o - n0
    BY <2>1
  <2>6. n <= n0 + c * Lesser(e, x)
    BY <2>1, <2>3, <2>5
  <2>7. o + n0 - n0 = x + n0
    BY <2>5
  <2>8. n + p <= n0 + c * Lesser(e, x + n0)
    <3>1. CASE e <= x
      <4>1. p = 0
        <5>1. Cardinality(M) <= o
          BY <1>1, <2>1, <2>5, <3>1
        <5>2. QED
          BY <1>2, <5>1, FS_EmptySet
      <4>2. Lesser(e, x) = e /\ Lesser(e, x + n0) = e
        BY <3>1 DEF Lesser
      <4>3. QED
        BY <2>6, <4>1, <4>2
    <3>2. CASE x < e /\ e <= x + n0
      <4>1. Lesser(e, x) = x /\ Lesser(e, x + n0) = e
        BY <3>2 DEF Lesser
      <4>2. PICK d \in Nat : e = x + d
        BY <3>2, e - x \in Nat
      <4>3. c * e = c * x + c * d /\ c * x \in Nat
        BY <4>2
      <4>4. d <= c * d /\ c * d \in Nat
        BY <2>4, Times
      <4>5. p <= d
        <5>1. CASE Cardinality(M) <= o
          BY <1>2, <5>1, FS_EmptySet
        <5>2. CASE ~ (Cardinality(M) <= o)
          BY <1>1, <1>2, <2>1, <2>5, <4>2, <5>2
        <5>3. QED
          BY <5>1, <5>2
      <4>6. PICK u, v \in Nat : u = c * x /\ v = c * d
        BY <4>3, <4>4
      <4>7. n <= n0 + u /\ d <= v /\ c * e = u + v
        BY <2>6, <4>1, <4>3, <4>4, <4>6
      <4>8. n + p <= n0 + c * e
        BY <1>2, <4>5, <4>6, <4>7
      <4>9. QED
        BY <4>1, <4>8
    <3>3. CASE x + n0 < e
      <4>1. Lesser(e, x) = x /\ Lesser(e, x + n0) = x + n0
        BY <3>3 DEF Lesser
      <4>2. c * (x + n0) = c * x + c * n0 /\ c * x \in Nat /\ c * n0 \in Nat
        OBVIOUS
      <4>3. PICK u, v \in Nat : u = c * x /\ v = c * n0
        BY <4>2
      <4>4. n <= n0 + u /\ p <= v
        BY <1>1, <1>2, <2>4, <2>6, <4>1, <4>3
      <4>5. n + p <= n0 + (u + v)
        BY <1>2, <4>3, <4>4
      <4>6. QED
        BY <4>1, <4>2, <4>3, <4>5
    <3>4. QED
      BY <3>1, <3>2, <3>3
  <2>9. QED
    BY <2>1, <2>2, <2>3, <2>7, <2>8 DEF ShortPages
<1>10. QED
  BY <1>5, <1>6, <1>8, <1>9 DEF Again

\* A page that is not looked for, because the count was below the offset.
LEMMA NoneTaken ==
    ASSUME NEW M, Keys(M), NEW S, NEW G, Keys(G), NEW o \in Nat, NEW n \in Nat,
           NEW n0 \in Nat, 0 < n0, NEW e \in Nat, NEW l \in Nat,
           Cardinality(S \ G) <= l, Again(M, G, n, n0, o, e)
    PROVE  Lost(M, S, G, o + n0, l) /\ Again(M, G, n, n0, o + n0, e)
<1>1. /\ IsFiniteSet(M) /\ IsFiniteSet(G) /\ Cardinality(G) \in Nat /\ Cardinality(M) \in Nat
      /\ M \subseteq Int
  BY FS_CardinalityType DEF Keys
<1>2. Lost(M, S, G, o + n0, l)
  BY DEF Lost
<1>3. ASSUME WholePages(M, G, n, n0, o, e) PROVE WholePages(M, G, n, n0, o + n0, e)
  <2>1. \A x \in M : Rank(M, x) \in Nat
    <3>1. \A x \in M : Rank(M, x) \in 1..Cardinality(M)
      BY <1>1, RankType
    <3>2. QED
      BY <1>1, <3>1
  <2>2. G \cap Beyond(M, o + n0) \subseteq G \cap Beyond(M, o)
    BY <2>1 DEF Beyond
  <2>3. IsFiniteSet(G \cap Beyond(M, o))
    BY <1>1, Size
  <2>4. PICK x, y : /\ x = Cardinality(G \cap Beyond(M, o))
                    /\ y = Cardinality(G \cap Beyond(M, o + n0))
    OBVIOUS
  <2>5. x \in Nat /\ y \in Nat /\ y <= x
    BY <2>2, <2>3, <2>4, Size
  <2>6. n0 = DefaultLimit /\ n - Cardinality(G) + x <= e
    BY <1>3, <2>4 DEF WholePages
  <2>7. n - Cardinality(G) + y <= e
    BY <1>1, <2>5, <2>6
  <2>8. QED
    BY <2>4, <2>6, <2>7 DEF WholePages
<1>4. ASSUME ShortPages(M, G, n, n0, o, e) PROVE ShortPages(M, G, n, n0, o + n0, e)
  <2>1. /\ 0 < n0 /\ n0 < DefaultLimit /\ n0 <= Cardinality(G) /\ n0 <= o
        /\ Cardinality(M) <= n0 + e /\ n <= n0 + Overlap(n0) * Lesser(e, o - n0)
    BY <1>4 DEF ShortPages
  <2>2. PICK c \in Nat : c = Overlap(n0)
    BY OverlapType
  <2>3. PICK x, y : x = Lesser(e, o - n0) /\ y = Lesser(e, o + n0 - n0)
    OBVIOUS
  <2>4. x \in Nat /\ y \in Nat /\ x <= y
    BY <2>1, <2>3 DEF Lesser
  <2>5. c * x \in Nat /\ c * y \in Nat /\ c * x <= c * y
    BY <2>4, Times
  <2>6. n <= n0 + c * x
    BY <2>1, <2>2, <2>3
  <2>7. n <= n0 + c * y
    BY <2>5, <2>6
  <2>8. n0 <= o + n0
    OBVIOUS
  <2>9. QED
    BY <2>1, <2>2, <2>3, <2>7, <2>8 DEF ShortPages
<1>5. QED
  BY <1>2, <1>3, <1>4 DEF Again

\* When fewer are left than have been passed, all that are not taken are lost.
LEMMA NoneLeft ==
    ASSUME NEW M, Keys(M), NEW S, S \subseteq M, NEW G, NEW o \in Nat, NEW l \in Nat,
           Cardinality(M) <= o, Lost(M, S, G, o, l)
    PROVE  Cardinality(S \ G) <= l
<1>1. IsFiniteSet(M) /\ M \subseteq Int /\ Cardinality(M) \in Nat
  BY FS_CardinalityType DEF Keys
<1>2. \A x \in M : Rank(M, x) \in 1..Cardinality(M)
  BY <1>1, RankType
<1>3. \A x \in M : Rank(M, x) <= o
  BY <1>1, <1>2
<1>4. (S \ G) \cap Within(M, o) = S \ G
  BY <1>3 DEF Within
<1>5. Cardinality((S \ G) \cap Within(M, o)) = Cardinality(S \ G)
  BY <1>4, Zenon
<1>6. QED
  BY <1>5 DEF Lost

\* When as many places have been passed as there were at first, the drift is bounded.
LEMMA AllPassed ==
    ASSUME NEW M, Keys(M), NEW S, S \subseteq M, NEW G, Keys(G), NEW b \in Nat, NEW n \in Nat,
           NEW n0 \in Nat, NEW T \in Nat, NEW e \in Nat, NEW l \in Nat, T <= b,
           Balance(M, T, e, l), Lost(M, S, G, b, l), Again(M, G, n, n0, b, e)
    PROVE  /\ Cardinality(S \ G) <= e \/ Cardinality(S \ G) <= l
           /\ n - Cardinality(G) <= e * Overlap(n0)
<1>1. /\ IsFiniteSet(M) /\ IsFiniteSet(G) /\ Cardinality(G) \in Nat /\ Cardinality(M) \in Nat
  BY FS_CardinalityType DEF Keys
<1>2. Cardinality(S \ G) <= e \/ Cardinality(S \ G) <= l
  <2>1. CASE Cardinality((S \ G) \cap Within(M, b)) <= l
    <3>1. PICK B, W : B = Beyond(M, b) /\ W = Within(M, b)
      OBVIOUS
    <3>2. /\ IsFiniteSet(B) /\ Cardinality(B) \in Nat /\ Cardinality(W) \in Nat
          /\ Cardinality(M) = Cardinality(W) + Cardinality(B)
          /\ B # {} => Cardinality(W) = b
      BY <3>1, WithinSize
    <3>3. IsFiniteSet((S \ G) \cap W)
      BY <1>1, Size
    <3>4. Cardinality((S \ G) \cap W) \in Nat /\ Cardinality((S \ G) \cap W) <= l
      BY <2>1, <3>1, <3>3, Size
    <3>5. S \ G \subseteq ((S \ G) \cap W) \cup B
      BY <3>1 DEF Within, Beyond
    <3>6. /\ Cardinality(S \ G) <= Cardinality((S \ G) \cap W) + Cardinality(B)
          /\ Cardinality(S \ G) \in Nat
      BY <3>2, <3>3, <3>5, Covered
    <3>7. Cardinality(M) = T + e - l
      BY DEF Balance
    <3>8. CASE B = {}
      <4>1. Cardinality(B) = 0
        BY <3>8, FS_EmptySet
      <4>2. QED
        BY <3>4, <3>6, <4>1
    <3>9. CASE B # {}
      BY <3>2, <3>4, <3>6, <3>7, <3>9
    <3>10. QED
      BY <3>8, <3>9
  <2>2. QED
    BY <2>1 DEF Lost
<1>3. n - Cardinality(G) <= e * Overlap(n0)
  <2>1. CASE WholePages(M, G, n, n0, b, e)
    <3>1. 0 < n0
      BY <2>1, QueryAssumption DEF WholePages
    <3>2. PICK c \in Nat : c = Overlap(n0) /\ 1 <= c
      BY <3>1, OverlapType
    <3>3. e <= e * c /\ e * c \in Nat
      <4>1. e * 1 \in Nat /\ e * c \in Nat /\ e * 1 <= e * c
        BY <3>2, Times
      <4>2. QED
        BY <4>1
    <3>4. PICK x \in Nat : x = Cardinality(G \cap Beyond(M, b))
      BY <1>1, Size
    <3>5. n - Cardinality(G) + x <= e
      BY <2>1, <3>4 DEF WholePages
    <3>6. n - Cardinality(G) <= e
      BY <1>1, <3>4, <3>5
    <3>7. PICK y \in Nat : y = e * c
      BY <3>3
    <3>8. QED
      BY <1>1, <3>2, <3>3, <3>6, <3>7
  <2>2. CASE ShortPages(M, G, n, n0, b, e)
    <3>1. /\ 0 < n0 /\ n0 <= Cardinality(G) /\ n0 <= b
          /\ n <= n0 + Overlap(n0) * Lesser(e, b - n0)
      BY <2>2 DEF ShortPages
    <3>2. PICK c \in Nat : c = Overlap(n0)
      BY <3>1, OverlapType
    <3>3. PICK x : x = Lesser(e, b - n0)
      OBVIOUS
    <3>4. x \in Nat /\ x <= e
      BY <3>1, <3>3 DEF Lesser
    <3>5. c * x \in Nat /\ c * e \in Nat /\ c * x <= c * e
      BY <3>4, Times
    <3>6. PICK u, v \in Nat : u = c * x /\ v = c * e
      BY <3>5
    <3>7. n <= n0 + u /\ u <= v
      BY <3>1, <3>2, <3>3, <3>5, <3>6
    <3>8. n - Cardinality(G) <= v
      BY <1>1, <3>1, <3>6, <3>7
    <3>9. e * c = c * e
      OBVIOUS
    <3>10. QED
      BY <3>2, <3>6, <3>8, <3>9
  <2>3. CASE n0 = 0 /\ n = 0
    <3>1. Overlap(n0) = 1
      BY <2>3 DEF Overlap
    <3>2. QED
      BY <1>1, <2>3, <3>1
  <2>4. QED
    BY <2>1, <2>2, <2>3 DEF Again
<1>4. QED
  BY <1>2, <1>3

-------------------------------------------------------------------------------
(* The search in these terms *)

KeysOf(s) == {s[i].key : i \in DOMAIN s}
ElementsOf(s) == {s[i] : i \in DOMAIN s}

\* The objects that have been taken, each as often as it came.
Taken ==
    IF pc = "show" THEN KeysOf(data) \cup KeysOf(reply) \cup ElementsOf(page) ELSE KeysOf(data)
TakenLen == IF pc = "show" THEN Len(data) + Len(reply) + Len(page) ELSE Len(data)

\* The length of the first page, the places passed and the first count.
FirstLen == IF initial_offset = None THEN Len(reply) + Len(page) ELSE initial_offset
Passed ==
    IF pc # "show" THEN offset
    ELSE IF initial_offset = None THEN FirstLen ELSE offset + initial_offset
Promised == IF initial_offset = None THEN count ELSE m_total

Known(S) == S \subseteq DOMAIN Catalog

\* Where the keys come from.
Parts ==
    /\ Known(KeysOf(data))
    /\ pc \in {"slice", "show"} => Known(KeysOf(reply))
    /\ pc = "slice" => reply = <<>>
    /\ pc = "show" => IsSeq(page) /\ Known(ElementsOf(page))

Numbers ==
    /\ entered \in Nat /\ left \in Nat /\ offset \in Nat /\ count \in Nat
    /\ initial_offset # None => m_total \in Nat
    /\ initial_offset = None => offset = 0
    /\ initial_offset = None /\ pc \in {"idle", "count"} => entered = 0 /\ left = 0
    /\ Watching /\ initial_offset # None => 0 < initial_offset /\ initial_offset <= DefaultLimit

\* What is lost and what comes again, up to now.
UpToNow ==
    Watching =>
        /\ Balance(Matching, Promised, entered, left)
        /\ Lost(Matching, steady, Taken, Passed, left)
        /\ pc = "show" \/ initial_offset # None =>
              Again(Matching, Taken, TakenLen, FirstLen, Passed, entered)

\* A page that will not be looked for, and a first one that is empty.
Stale == count = 0 \/ offset > count
Empty ==
    /\ pc = "slice" /\ initial_offset # None /\ Stale => Cardinality(steady \ Taken) <= left
    /\ pc = "slice" /\ initial_offset = None /\ count = 0 => steady = {}
    /\ pc = "show" /\ initial_offset = None /\ FirstLen = 0 => steady = {}

DriftInv == Parts /\ Numbers /\ UpToNow /\ Empty /\ DriftIsBounded

\* The result, and what has been taken, are finite.
LEMMA Finite ==
    ASSUME Core
    PROVE  /\ Keys(Matching) /\ \A S : Known(S) => Keys(S)
           /\ Cardinality(Matching) \in Nat
<1>1. DOMAIN Catalog \subseteq Nat /\ IsFiniteSet(DOMAIN Catalog)
  BY SearchAssumption
<1>2. ASSUME NEW S, Known(S) PROVE Keys(S)
  BY <1>1, <1>2, Size DEF Known, Keys
<1>3. Known(Matching)
  BY DEF Known, Core, Stored, Matching
<1>4. Keys(Matching)
  BY <1>2, <1>3
<1>5. QED
  BY <1>2, <1>4, FS_CardinalityType DEF Keys

\* The numbers of a sequence.
LEMMA SeqParts ==
    ASSUME NEW s, IsSeq(s)
    PROVE  Len(s) \in Nat /\ DOMAIN s = 1..Len(s)
<1>1. PICK S : s \in Seq(S)
  BY DEF IsSeq
<1>2. QED
  BY <1>1

\* ... and of an empty one.
LEMMA EmptyParts ==
    /\ KeysOf(<<>>) = {} /\ ElementsOf(<<>>) = {} /\ Len(<<>>) = 0 /\ IsSeq(<<>>)
    /\ Cardinality({}) = 0
<1>1. <<>> \in Seq({}) /\ DOMAIN <<>> = {} /\ Len(<<>>) = 0
  OBVIOUS
<1>2. QED
  BY <1>1, FS_EmptySet DEF KeysOf, ElementsOf, IsSeq

\* The state of a search in which everything is known.
LEMMA Watched ==
    ASSUME Core, DriftInv, Watching
    PROVE  /\ Keys(Matching) /\ steady \subseteq Matching /\ Known(Taken) /\ Keys(Taken)
           /\ TakenLen \in Nat /\ Passed \in Nat /\ Promised \in Nat
           /\ pc = "show" \/ initial_offset # None => FirstLen \in Nat
           /\ entered \in Nat /\ left \in Nat
<1>1. IsSeq(data) /\ (pc = "show" => IsSeq(reply) /\ IsSeq(page))
  BY DEF Core, Answers, DriftInv, Parts
<1>2. Len(data) \in Nat /\ (pc = "show" => Len(reply) \in Nat /\ Len(page) \in Nat)
  BY <1>1, SeqParts
<1>3. Known(Taken)
  BY DEF DriftInv, Parts, Taken, Known
<1>4. Keys(Matching) /\ Keys(Taken)
  BY <1>3, Finite
<1>5. steady \subseteq Matching
  BY DEF Core, Followed
<1>6. /\ entered \in Nat /\ left \in Nat /\ offset \in Nat /\ count \in Nat
      /\ initial_offset # None => m_total \in Nat /\ initial_offset \in Nat
  BY DEF DriftInv, Numbers, Core, Paging
<1>7. TakenLen \in Nat /\ Promised \in Nat
  BY <1>2, <1>6 DEF TakenLen, Promised
<1>8. pc = "show" \/ initial_offset # None => FirstLen \in Nat
  BY <1>2, <1>6 DEF FirstLen
<1>9. Passed \in Nat
  BY <1>6, <1>8 DEF Passed
<1>10. QED
  BY <1>3, <1>4, <1>5, <1>6, <1>7, <1>8, <1>9

\* Nothing is taken, and the result may change.
LEMMA Drifting ==
    ASSUME Core, Core', DriftInv, Watching, Observe, Watching',
           Taken' = Taken, TakenLen' = TakenLen, Passed' = Passed, Promised' = Promised,
           pc' = "show" \/ initial_offset' # None => /\ pc = "show" \/ initial_offset # None
                                                    /\ FirstLen' = FirstLen
    PROVE  /\ UpToNow' /\ entered' \in Nat /\ left' \in Nat
           /\ Cardinality(steady \ Taken) <= left => Cardinality(steady' \ Taken') <= left'
           /\ steady = {} => steady' = {}
<1>1. PICK M, N : M = Matching /\ N = Matching'
  OBVIOUS
<1>2. PICK S, G, n, b, T : S = steady /\ G = Taken /\ n = TakenLen /\ b = Passed /\ T = Promised
  OBVIOUS
<1>3. PICK e, l : e = entered /\ l = left
  OBVIOUS
<1>4. PICK f, m : f = entered' /\ m = left'
  OBVIOUS
<1>5. /\ Keys(M) /\ S \subseteq M /\ Keys(G) /\ n \in Nat /\ b \in Nat /\ T \in Nat
      /\ e \in Nat /\ l \in Nat
  BY <1>1, <1>2, <1>3, Watched
<1>6. Keys(N)
  <2>1. N \subseteq DOMAIN Catalog
    BY <1>1 DEF Core, Stored, Matching
  <2>2. IsFiniteSet(N) /\ N \subseteq Nat
    BY <2>1, SearchAssumption, Size
  <2>3. QED
    BY <2>2 DEF Keys
<1>7. steady' = S \cap N /\ f = e + Cardinality(N \ M) /\ m = l + Cardinality(M \ N)
  BY <1>1, <1>2, <1>3, <1>4 DEF Observe, Watching
<1>8. Balance(M, T, e, l) /\ Lost(M, S, G, b, l)
  BY <1>1, <1>2, <1>3 DEF DriftInv, UpToNow
<1>9. /\ f \in Nat /\ m \in Nat /\ Balance(N, T, f, m) /\ Lost(N, S \cap N, G, b, m)
  <2>1. f \in Nat /\ m \in Nat /\ Balance(N, T, f, m)
    BY <1>5, <1>6, <1>7, <1>8, MovedBalance
  <2>2. Lost(N, S \cap N, G, b, m)
    BY <1>5, <1>6, <1>7, <1>8, MovedLost
  <2>3. QED
    BY <2>1, <2>2
<1>10. ASSUME pc' = "show" \/ initial_offset' # None
       PROVE  Again(Matching, Taken, TakenLen, FirstLen, Passed, entered)'
  <2>1. PICK n0 : n0 = FirstLen
    OBVIOUS
  <2>2. n0 \in Nat /\ Again(M, G, n, n0, b, e) /\ FirstLen' = n0
    BY <1>1, <1>2, <1>3, <1>10, <2>1, Watched DEF DriftInv, UpToNow
  <2>3. Again(N, G, n, n0, b, f)
    BY <1>5, <1>6, <1>7, <2>2, MovedAgain
  <2>4. QED
    BY <1>1, <1>2, <1>4, <2>2, <2>3
<1>11. Balance(Matching, Promised, entered, left)'
  BY <1>1, <1>2, <1>4, <1>9
<1>12. Lost(Matching, steady, Taken, Passed, left)'
  BY <1>1, <1>2, <1>4, <1>7, <1>9
<1>13. UpToNow'
  BY <1>10, <1>11, <1>12 DEF UpToNow
<1>14. ASSUME Cardinality(S \ G) <= l PROVE Cardinality((S \cap N) \ G) <= m
  <2>1. IsFiniteSet(S \ G) /\ IsFiniteSet(M \ N)
    BY <1>5, Size DEF Keys
  <2>2. (S \cap N) \ G \subseteq S \ G
    OBVIOUS
  <2>3. /\ Cardinality((S \cap N) \ G) <= Cardinality(S \ G)
        /\ Cardinality((S \cap N) \ G) \in Nat /\ Cardinality(S \ G) \in Nat
    BY <2>1, <2>2, Size
  <2>4. Cardinality(M \ N) \in Nat
    BY <2>1, FS_CardinalityType
  <2>5. QED
    BY <1>5, <1>7, <1>14, <2>3, <2>4
<1>15. QED
  BY <1>2, <1>3, <1>4, <1>7, <1>9, <1>13, <1>14

\* Nothing changes but, perhaps, the result, which nobody follows.
LEMMA NotFollowed ==
    ASSUME DriftInv, ~ Watching',
           Parts', Numbers', DriftIsBounded'
    PROVE  DriftInv'
<1>1. UpToNow'
  BY DEF UpToNow
<1>2. Empty'
  BY DEF Empty, Watching
<1>3. QED
  BY <1>1, <1>2 DEF DriftInv

\* A step of the rest of the archive.
LEMMA DriftChange ==
    ASSUME Core, Core', DriftInv, Change
    PROVE  DriftInv'
<1>1. /\ UNCHANGED <<pc, offset, initial_offset, m_total, data, count, page, reply>>
      /\ Observe
  BY DEF Change, client, request
<1>2. Watching' <=> Watching
  BY <1>1 DEF Watching
<1>3. Parts'
  BY <1>1 DEF DriftInv, Parts, Known
<1>4. CASE Watching
  <2>1. Taken' = Taken /\ TakenLen' = TakenLen /\ Passed' = Passed /\ Promised' = Promised
        /\ FirstLen' = FirstLen
    BY <1>1 DEF Taken, TakenLen, Passed, Promised, FirstLen
  <2>2. /\ UpToNow' /\ entered' \in Nat /\ left' \in Nat
        /\ Cardinality(steady \ Taken) <= left => Cardinality(steady' \ Taken') <= left'
        /\ steady = {} => steady' = {}
    BY <1>1, <1>2, <1>4, <2>1, Drifting
  <2>3. Numbers'
    BY <1>1, <1>2, <1>4, <2>2 DEF DriftInv, Numbers, Watching
  <2>4. Empty'
    BY <1>1, <2>1, <2>2 DEF DriftInv, Empty, Stale
  <2>5. DriftIsBounded'
    BY <1>1, <1>4 DEF DriftIsBounded, Watching
  <2>6. QED
    BY <1>3, <2>2, <2>3, <2>4, <2>5 DEF DriftInv
<1>5. CASE ~ Watching
  <2>1. UNCHANGED <<steady, entered, left>>
    BY <1>1, <1>5 DEF Observe, Watching, seen
  <2>2. Numbers'
    BY <1>1, <1>2, <1>5, <2>1 DEF DriftInv, Numbers
  <2>3. DriftIsBounded'
    BY <1>1, <2>1 DEF DriftInv, DriftIsBounded, Found
  <2>4. QED
    BY <1>2, <1>3, <1>5, <2>2, <2>3, NotFollowed
<1>6. QED
  BY <1>4, <1>5

\* The first count.
LEMMA DriftFirst ==
    ASSUME Core, Core', DriftInv, pc = "count", initial_offset = None, pc' = "slice",
           UNCHANGED <<client, entered, left>>, count' = Cardinality(Matching'),
           reply' = <<>>, steady' = Matching'
    PROVE  DriftInv'
<1>1. PICK M, c : M = Matching' /\ c = count'
  OBVIOUS
<1>2. M \subseteq DOMAIN Catalog
  BY <1>1 DEF Core, Stored, Matching
<1>3. Keys(M) /\ IsFiniteSet(M) /\ M \subseteq Int
  <2>1. IsFiniteSet(M) /\ M \subseteq Nat
    BY <1>2, SearchAssumption, Size
  <2>2. QED
    BY <2>1 DEF Keys
<1>4. c = Cardinality(M) /\ c \in Nat
  BY <1>1, <1>3, FS_CardinalityType
<1>5. data' = <<>> /\ offset' = 0 /\ entered' = 0 /\ left' = 0 /\ initial_offset' = None
  BY DEF Core, Paging, DriftInv, Numbers, client
<1>6. Parts'
  BY <1>5, EmptyParts DEF Parts, Known
<1>7. Numbers'
  BY <1>1, <1>4, <1>5 DEF Numbers
<1>8. Taken' = {} /\ Passed' = 0 /\ Promised' = c
  BY <1>1, <1>5, EmptyParts DEF Taken, Passed, Promised
<1>9. Balance(M, c, 0, 0)
  BY <1>4 DEF Balance
<1>10. Lost(M, M, {}, 0, 0)
  <2>1. \A x \in M : Rank(M, x) \in 1..Cardinality(M)
    BY <1>3, RankType
  <2>2. (M \ {}) \cap Within(M, 0) = {}
    BY <1>4, <2>1 DEF Within
  <2>3. Cardinality((M \ {}) \cap Within(M, 0)) = 0
    BY <2>2, FS_EmptySet, Zenon
  <2>4. QED
    BY <2>3 DEF Lost
<1>11. UpToNow'
  BY <1>1, <1>5, <1>8, <1>9, <1>10 DEF UpToNow
<1>12. Empty'
  <2>1. c = 0 => M = {}
    BY <1>3, <1>4, FS_EmptySet
  <2>2. QED
    BY <1>1, <1>5, <2>1 DEF Empty
<1>13. DriftIsBounded'
  BY DEF DriftIsBounded
<1>14. QED
  BY <1>6, <1>7, <1>11, <1>12, <1>13 DEF DriftInv

\* The count of a later page.
LEMMA DriftLater ==
    ASSUME Core, Core', DriftInv, pc = "count", initial_offset # None, pc' = "slice",
           UNCHANGED client, count' = Cardinality(Matching'), reply' = <<>>, Observe
    PROVE  DriftInv'
<1>1. UNCHANGED <<offset, initial_offset, m_total, data>>
  BY DEF client
<1>2. Watching /\ Watching'
  BY DEF Watching
<1>3. /\ Taken' = Taken /\ TakenLen' = TakenLen /\ Passed' = Passed /\ Promised' = Promised
      /\ FirstLen' = FirstLen
  BY <1>1 DEF Taken, TakenLen, Passed, Promised, FirstLen
<1>4. UpToNow' /\ entered' \in Nat /\ left' \in Nat
  BY <1>2, <1>3, Drifting
<1>5. PICK M, S, G, o, l : M = Matching' /\ S = steady' /\ G = Taken' /\ o = offset' /\ l = left'
  OBVIOUS
<1>6. M \subseteq DOMAIN Catalog
  BY <1>5 DEF Core, Stored, Matching
<1>7. Keys(M) /\ Cardinality(M) \in Nat
  <2>1. IsFiniteSet(M) /\ M \subseteq Nat /\ Cardinality(M) \in Nat
    BY <1>6, SearchAssumption, Size
  <2>2. QED
    BY <2>1 DEF Keys
<1>8. Parts'
  BY <1>1, EmptyParts DEF DriftInv, Parts, Known
<1>9. Numbers'
  BY <1>1, <1>2, <1>4, <1>5, <1>7 DEF DriftInv, Numbers
<1>10. S \subseteq M /\ Lost(M, S, G, o, l) /\ o \in Nat /\ l \in Nat
  <2>1. Passed' = offset'
    BY DEF Passed
  <2>2. QED
    BY <1>2, <1>4, <1>5, <1>9, <2>1 DEF Core, Followed, UpToNow, Numbers
<1>11. ASSUME Stale' PROVE Cardinality(S \ G) <= l
  <2>1. Cardinality(M) <= o
    BY <1>5, <1>7, <1>10, <1>11 DEF Stale
  <2>2. QED
    BY <1>7, <1>10, <2>1, NoneLeft
<1>12. Empty'
  BY <1>1, <1>5, <1>11 DEF Empty
<1>13. DriftIsBounded'
  BY DEF DriftIsBounded
<1>14. QED
  BY <1>4, <1>8, <1>9, <1>12, <1>13 DEF DriftInv

\* The count of a page, or the error.
LEMMA DriftCount ==
    ASSUME Core, Core', DriftInv, Count
    PROVE  DriftInv'
<1>1. CASE Fail /\ UNCHANGED <<count, offset, initial_offset, m_total, seen>>
  <2>1. pc' = "failed" /\ data' = <<>> /\ ~ Watching'
    BY <1>1 DEF Fail, Watching
  <2>2. Parts'
    BY <2>1, EmptyParts DEF Parts, Known
  <2>3. Numbers'
    BY <1>1, <2>1 DEF DriftInv, Numbers, seen
  <2>4. DriftIsBounded'
    BY <2>1 DEF DriftIsBounded
  <2>5. QED
    BY <2>1, <2>2, <2>3, <2>4, NotFollowed
<1>2. CASE /\ pc' = "slice" /\ UNCHANGED client /\ reply' = <<>>
           /\ count' = Cardinality(Matching')
           /\ IF initial_offset = None
              THEN steady' = Matching' /\ UNCHANGED <<entered, left>>
              ELSE Observe
  <2>1. pc = "count"
    BY DEF Count
  <2>2. CASE initial_offset = None
    <3>1. UNCHANGED <<client, entered, left>> /\ steady' = Matching'
      BY <1>2, <2>2
    <3>2. QED
      BY <1>2, <2>1, <2>2, <3>1, DriftFirst
  <2>3. CASE initial_offset # None
    BY <1>2, <2>1, <2>3, DriftLater
  <2>4. QED
    BY <2>2, <2>3
<1>3. QED
  BY <1>1, <1>2 DEF Count

\* The page as a sequence.
LEMMA PageSeq ==
    ASSUME NEW P, Keys(P), NEW s, s = Ascending(P)
    PROVE  IsSeq(s) /\ ElementsOf(s) = P /\ Len(s) = Cardinality(P)
<1>1. P \subseteq Nat /\ IsFiniteSet(P)
  BY DEF Keys
<1>2. /\ s \in Seq(Nat) /\ Len(s) = Cardinality(P)
      /\ \A i \in 1..Len(s) : s[i] \in P
      /\ \A x \in P : \E i \in 1..Len(s) : s[i] = x
  BY <1>1, AscendingParts
<1>3. DOMAIN s = 1..Len(s)
  BY <1>2
<1>4. QED
  BY <1>2, <1>3 DEF IsSeq, ElementsOf

\* The page of the paginator.
LEMMA PageAsked ==
    ASSUME NEW M, NEW o \in Nat
    PROVE  Paginate(M, [k \in {"offset"} |-> o]) = PageOf(M, o)
<1>1. PICK f : f = [k \in {"offset"} |-> o]
  OBVIOUS
<1>2. DOMAIN f = {"offset"} /\ f["offset"] = o /\ o # -1
  BY <1>1
<1>3. ~ Has(f, "limit") /\ Has(f, "offset")
  BY <1>2 DEF Has, None
<1>4. Paginate(M, f) = PageOf(M, o)
  BY <1>2, <1>3 DEF Paginate, PageOf
<1>5. QED
  BY <1>1, <1>4

\* What a page adds to the objects taken, given what it is.
LEMMA PageTaken ==
    ASSUME Core, Core', DriftInv, Slice, IsSeq(page'), Known(ElementsOf(page)'),
           /\ Lost(Matching, steady, Taken', Passed', left)
           /\ Again(Matching, Taken', TakenLen', FirstLen', Passed', entered)
           /\ initial_offset = None /\ FirstLen' = 0 => steady = {}
    PROVE  DriftInv'
<1>1. /\ UNCHANGED <<objects, metadata_filters, asked, offset, initial_offset, m_total, data,
                     count, reply, steady, entered, left>>
      /\ pc = "slice" /\ pc' = "show"
  BY DEF Slice, client, seen
<1>2. Matching' = Matching /\ Watching /\ Watching' /\ Promised' = Promised
  BY <1>1 DEF Matching, Watching, Promised
<1>3. Parts'
  BY <1>1 DEF DriftInv, Parts, Known
<1>4. Numbers'
  BY <1>1, <1>2 DEF DriftInv, Numbers
<1>5. UpToNow'
  <2>1. Balance(Matching, Promised, entered, left)'
    BY <1>1, <1>2 DEF DriftInv, UpToNow
  <2>2. Lost(Matching, steady, Taken, Passed, left)'
    BY <1>1, <1>2
  <2>3. Again(Matching, Taken, TakenLen, FirstLen, Passed, entered)'
    BY <1>1, <1>2
  <2>4. QED
    BY <2>1, <2>2, <2>3 DEF UpToNow
<1>6. Empty'
  BY <1>1 DEF Empty
<1>7. DriftIsBounded'
  BY <1>1 DEF DriftIsBounded
<1>8. QED
  BY <1>3, <1>4, <1>5, <1>6, <1>7 DEF DriftInv

\* The objects of a page are taken.
LEMMA DriftSlice ==
    ASSUME Core, Core', DriftInv, Slice
    PROVE  DriftInv'
<1>1. /\ UNCHANGED <<offset, initial_offset, data, count, reply>>
      /\ pc = "slice" /\ pc' = "show" /\ reply = <<>>
  BY DEF Slice, client, DriftInv, Parts
<1>2. Watching
  BY <1>1 DEF Watching
<1>3. PICK M, S, G, o, n, e, l : /\ M = Matching /\ S = steady /\ G = Taken /\ o = offset
                                 /\ n = TakenLen /\ e = entered /\ l = left
  OBVIOUS
<1>4. /\ Keys(M) /\ S \subseteq M /\ Keys(G) /\ o \in Nat /\ n \in Nat /\ e \in Nat /\ l \in Nat
      /\ M \subseteq DOMAIN Catalog /\ count \in Nat
  <2>1. Keys(M) /\ S \subseteq M /\ Keys(G) /\ n \in Nat /\ e \in Nat /\ l \in Nat
    BY <1>2, <1>3, Watched
  <2>2. o \in Nat /\ count \in Nat
    BY <1>3 DEF DriftInv, Numbers
  <2>3. M \subseteq DOMAIN Catalog
    BY <1>3 DEF Core, Stored, Matching
  <2>4. QED
    BY <2>1, <2>2, <2>3
<1>5. PICK s, P, p : s = page' /\ P = ElementsOf(page') /\ p = Len(page')
  OBVIOUS
<1>6. IF Stale THEN s = <<>> /\ P = {} /\ p = 0 /\ IsSeq(s)
      ELSE P = PageOf(M, o) /\ p = Cardinality(P) /\ IsSeq(s)
  <2>1. CASE Stale
    <3>1. s = <<>>
      BY <1>5, <2>1 DEF Slice, Stale
    <3>2. QED
      BY <1>5, <2>1, <3>1, EmptyParts
  <2>2. CASE ~ Stale
    <3>1. PICK Q : Q = PageOf(M, o)
      OBVIOUS
    <3>2. s = Ascending(Q)
      <4>1. s = Ascending(Paginate(Matching, [k \in {"offset"} |-> offset]))
        BY <1>5, <2>2 DEF Slice, Stale
      <4>2. Paginate(M, [k \in {"offset"} |-> o]) = Q
        BY <1>4, <3>1, PageAsked
      <4>3. QED
        BY <1>3, <4>1, <4>2
    <3>3. Keys(Q)
      BY <1>4, <3>1, PageParts DEF PageFacts
    <3>4. IsSeq(s) /\ ElementsOf(s) = Q /\ Len(s) = Cardinality(Q)
      BY <3>2, <3>3, PageSeq
    <3>5. QED
      BY <1>5, <2>2, <3>1, <3>4
  <2>3. QED
    BY <2>1, <2>2
<1>7. IsSeq(page') /\ Known(ElementsOf(page)')
  <2>1. P \subseteq M
    BY <1>6 DEF PageOf
  <2>2. QED
    BY <1>4, <1>5, <1>6, <2>1 DEF Known
<1>8. p \in Nat
  BY <1>5, <1>7, SeqParts
<1>9. Taken' = G \cup P /\ TakenLen' = n + p
  <2>1. Taken' = KeysOf(data) \cup KeysOf(<<>>) \cup P /\ Taken = KeysOf(data)
    BY <1>1, <1>5 DEF Taken
  <2>2. TakenLen' = Len(data) + Len(<<>>) + p /\ TakenLen = Len(data)
    BY <1>1, <1>5 DEF TakenLen
  <2>3. QED
    BY <1>3, <1>4, <1>8, <2>1, <2>2, EmptyParts
<1>10. CASE initial_offset = None
  <2>1. o = 0 /\ data = <<>>
    BY <1>3, <1>10 DEF DriftInv, Numbers, Core, Paging
  <2>2. G = {} /\ n = 0
    BY <1>1, <1>3, <2>1, EmptyParts DEF Taken, TakenLen
  <2>3. FirstLen' = p /\ Passed' = p /\ TakenLen' = p /\ Taken' = P
    <3>1. FirstLen' = Len(<<>>) + p
      BY <1>1, <1>5, <1>10 DEF FirstLen
    <3>2. FirstLen' = p
      BY <1>8, <3>1, EmptyParts
    <3>3. QED
      BY <1>1, <1>8, <1>9, <1>10, <2>2, <3>2 DEF Passed
  <2>4. Lost(M, S, P, p, l) /\ Again(M, P, p, p, p, e) /\ (p = 0 => S = {})
    <3>1. CASE Stale
      <4>1. count = 0
        BY <1>3, <1>4, <2>1, <3>1 DEF Stale
      <4>2. S = {} /\ P = {} /\ p = 0
        BY <1>1, <1>3, <1>6, <1>10, <3>1, <4>1 DEF DriftInv, Empty
      <4>3. Cardinality(S \ P) <= l
        <5>1. S \ P = {}
          BY <4>2
        <5>2. Cardinality(S \ P) = 0
          BY <5>1, FS_EmptySet, Zenon
        <5>3. QED
          BY <1>4, <5>2
      <4>4. QED
        BY <4>2, <4>3 DEF Lost, Again
    <3>2. CASE ~ Stale
      <4>1. P = PageOf(M, 0) /\ p = Cardinality(P)
        BY <1>6, <2>1, <3>2
      <4>2. QED
        BY <1>4, <4>1, FirstTaken
    <3>3. QED
      BY <3>1, <3>2
  <2>5. /\ Lost(Matching, steady, Taken', Passed', left)
        /\ Again(Matching, Taken', TakenLen', FirstLen', Passed', entered)
        /\ initial_offset = None /\ FirstLen' = 0 => steady = {}
    BY <1>3, <2>3, <2>4
  <2>6. QED
    BY <1>7, <2>5, PageTaken
<1>11. CASE initial_offset # None
  <2>1. PICK n0 : n0 = initial_offset
    OBVIOUS
  <2>2. n0 \in Nat /\ 0 < n0 /\ n0 <= DefaultLimit
    BY <1>2, <1>11, <2>1 DEF DriftInv, Numbers, Core, Paging
  <2>3. FirstLen' = n0 /\ FirstLen = n0 /\ Passed' = o + n0 /\ Passed = o
    BY <1>1, <1>3, <1>11, <2>1 DEF FirstLen, Passed
  <2>4. Lost(M, S, G, o, l) /\ Again(M, G, n, n0, o, e)
    BY <1>2, <1>3, <1>11, <2>3 DEF DriftInv, UpToNow
  <2>5. Lost(M, S, G \cup P, o + n0, l) /\ Again(M, G \cup P, n + p, n0, o + n0, e)
    <3>1. CASE Stale
      <4>1. Cardinality(S \ G) <= l
        BY <1>1, <1>3, <1>11, <3>1 DEF DriftInv, Empty
      <4>2. Lost(M, S, G, o + n0, l) /\ Again(M, G, n, n0, o + n0, e)
        BY <1>4, <2>2, <2>4, <4>1, NoneTaken
      <4>3. G \cup P = G /\ n + p = n
        BY <1>4, <1>6, <3>1
      <4>4. QED
        BY <4>2, <4>3
    <3>2. CASE ~ Stale
      <4>1. P = PageOf(M, o) /\ p = Cardinality(P)
        BY <1>6, <3>2
      <4>2. QED
        BY <1>4, <2>2, <2>4, <4>1, LaterTaken
    <3>3. QED
      BY <3>1, <3>2
  <2>6. /\ Lost(Matching, steady, Taken', Passed', left)
        /\ Again(Matching, Taken', TakenLen', FirstLen', Passed', entered)
    BY <1>3, <1>9, <2>3, <2>5
  <2>7. QED
    BY <1>7, <1>11, <2>6, PageTaken
<1>12. QED
  BY <1>10, <1>11

\* t and h hold what s and g did.
Shifted(s, g, t, h) ==
    /\ IsSeq(h) /\ Len(t) + Len(h) = Len(s) + Len(g)
    /\ KeysOf(t) \cup ElementsOf(h) = KeysOf(s) \cup ElementsOf(g)

\* An object goes from the page to the answer.
LEMMA ShownParts ==
    ASSUME NEW s, IsSeq(s), NEW g, IsSeq(g), g # <<>>, NEW x, x.key = Head(g),
           NEW t, t = Append(s, x), NEW h, h = Tail(g)
    PROVE  Shifted(s, g, t, h)
<1>1. PICK S, H : s \in Seq(S) /\ g \in Seq(H)
  BY DEF IsSeq
<1>2. s \in Seq(S \cup {x})
  BY <1>1
<1>3. PICK m, n \in Nat : m = Len(s) /\ n = Len(g) /\ n # 0
  BY <1>1
<1>4. /\ DOMAIN s = 1..m /\ DOMAIN g = 1..n
      /\ DOMAIN t = 1..(m + 1) /\ Len(t) = m + 1 /\ DOMAIN h = 1..(n - 1) /\ Len(h) = n - 1
  BY <1>1, <1>2, <1>3
<1>5. h \in Seq(H)
  BY <1>1
<1>6. t[m + 1] = x /\ g[1] = x.key
  BY <1>1, <1>2, <1>3
<1>7. \A i \in 1..m : t[i] = s[i] /\ i \in 1..(m + 1)
  BY <1>2, <1>3, <1>4
<1>8. \A i \in 1..(n - 1) : h[i] = g[i + 1] /\ i + 1 \in 1..n
  BY <1>1, <1>3, <1>4
<1>9. KeysOf(t) = KeysOf(s) \cup {x.key}
  <2>1. \A i \in 1..(m + 1) : i \in 1..m \/ i = m + 1
    BY <1>3
  <2>2. m + 1 \in 1..(m + 1)
    BY <1>3
  <2>3. QED
    BY <1>4, <1>6, <1>7, <2>1, <2>2 DEF KeysOf
<1>10. ElementsOf(g) = ElementsOf(h) \cup {x.key}
  <2>1. \A i \in 1..n : i = 1 \/ (i - 1 \in 1..(n - 1) /\ i = (i - 1) + 1)
    BY <1>3
  <2>2. 1 \in 1..n
    BY <1>3
  <2>3. ASSUME NEW i \in 1..n, i # 1 PROVE \E j \in 1..(n - 1) : g[i] = h[j]
    <3>1. PICK j \in 1..(n - 1) : i = j + 1
      BY <2>1, <2>3
    <3>2. QED
      BY <1>8, <3>1
  <2>4. \A i \in 1..n : g[i] \in ElementsOf(h) \cup {x.key}
    BY <1>4, <1>6, <2>3 DEF ElementsOf
  <2>5. \A j \in 1..(n - 1) : h[j] \in ElementsOf(g)
    BY <1>4, <1>8 DEF ElementsOf
  <2>6. x.key \in ElementsOf(g)
    BY <1>4, <1>6, <2>2 DEF ElementsOf
  <2>7. QED
    BY <1>4, <2>4, <2>5, <2>6 DEF ElementsOf
<1>11. Len(t) + Len(h) = Len(s) + Len(g)
  BY <1>3, <1>4
<1>12. KeysOf(t) \cup ElementsOf(h) = KeysOf(s) \cup ElementsOf(g)
  BY <1>9, <1>10
<1>13. QED
  BY <1>5, <1>11, <1>12 DEF IsSeq, Shifted

\* Showing an object takes nothing.
LEMMA DriftShow ==
    ASSUME Core, Core', DriftInv, Show
    PROVE  DriftInv'
<1>1. /\ UNCHANGED <<objects, metadata_filters, asked, pc, offset, initial_offset, m_total,
                     data, count, steady, entered, left>>
      /\ pc = "show" /\ page # <<>> /\ page' = Tail(page)
  BY DEF Show, client, seen
<1>2. PICK x : x.key = Head(page) /\ reply' = Append(reply, x)
  <2>1. PICK rows : rows = IF Head(page) \in DOMAIN objects THEN objects[Head(page)] ELSE <<>>
    OBVIOUS
  <2>2. PICK y : y = [key |-> Head(page), event_types |-> BuildEventTypeList(rows),
                      range |-> asked]
    OBVIOUS
  <2>3. y.key = Head(page) /\ reply' = Append(reply, y)
    BY <2>1, <2>2 DEF Show
  <2>4. QED
    BY <2>3
<1>3. PICK s, g, t, h : s = reply /\ g = page /\ t = reply' /\ h = page'
  OBVIOUS
<1>4. IsSeq(s) /\ IsSeq(g) /\ IsSeq(data) /\ IsSeq(t)
  BY <1>1, <1>3 DEF Core, Answers, DriftInv, Parts
<1>5. /\ IsSeq(h) /\ Len(t) + Len(h) = Len(s) + Len(g)
      /\ KeysOf(t) \cup ElementsOf(h) = KeysOf(s) \cup ElementsOf(g)
  <2>1. g # <<>> /\ x.key = Head(g) /\ t = Append(s, x) /\ h = Tail(g)
    BY <1>1, <1>2, <1>3
  <2>2. Shifted(s, g, t, h)
    BY <1>4, <2>1, ShownParts, Zenon
  <2>3. QED
    BY <2>2 DEF Shifted
<1>6. /\ Len(s) \in Nat /\ Len(g) \in Nat /\ Len(t) \in Nat /\ Len(h) \in Nat
      /\ Len(data) \in Nat
  BY <1>4, <1>5, SeqParts
<1>7. Taken' = Taken /\ TakenLen' = TakenLen
  <2>1. /\ Taken = KeysOf(data) \cup KeysOf(s) \cup ElementsOf(g)
        /\ Taken' = KeysOf(data) \cup KeysOf(t) \cup ElementsOf(h)
        /\ TakenLen = Len(data) + Len(s) + Len(g)
        /\ TakenLen' = Len(data) + Len(t) + Len(h)
    BY <1>1, <1>3 DEF Taken, TakenLen
  <2>2. TakenLen' = TakenLen
    BY <1>5, <1>6, <2>1
  <2>3. Taken' = Taken
    BY <1>5, <2>1
  <2>4. QED
    BY <2>2, <2>3
<1>8. FirstLen' = FirstLen /\ Passed' = Passed /\ Promised' = Promised
  <2>1. FirstLen' = FirstLen
    BY <1>1, <1>3, <1>5 DEF FirstLen
  <2>2. QED
    BY <1>1, <2>1 DEF Passed, Promised
<1>9. Matching' = Matching /\ (Watching' <=> Watching)
  BY <1>1 DEF Matching, Watching
<1>10. Parts'
  <2>1. Known(KeysOf(data)) /\ Known(KeysOf(s)) /\ Known(ElementsOf(g))
    BY <1>1, <1>3 DEF DriftInv, Parts
  <2>2. Known(KeysOf(t)) /\ Known(ElementsOf(h))
    BY <1>5, <2>1 DEF Known
  <2>3. QED
    BY <1>1, <1>3, <1>5, <2>1, <2>2 DEF Parts
<1>11. Numbers'
  BY <1>1, <1>9 DEF DriftInv, Numbers
<1>12. UpToNow'
  BY <1>1, <1>7, <1>8, <1>9 DEF DriftInv, UpToNow
<1>13. Empty' /\ DriftIsBounded'
  BY <1>1, <1>8 DEF DriftInv, Empty, DriftIsBounded
<1>14. QED
  BY <1>10, <1>11, <1>12, <1>13 DEF DriftInv

\* An answer joins the ones before it.
LEMMA JoinedParts ==
    ASSUME NEW s, IsSeq(s), NEW t, IsSeq(t), NEW u, u = s \o t
    PROVE  KeysOf(u) = KeysOf(s) \cup KeysOf(t) /\ Len(u) = Len(s) + Len(t)
<1>1. PICK S, T : s \in Seq(S) /\ t \in Seq(T)
  BY DEF IsSeq
<1>2. s \in Seq(S \cup T) /\ t \in Seq(S \cup T)
  BY <1>1
<1>3. PICK m, n \in Nat : m = Len(s) /\ n = Len(t)
  BY <1>1
<1>4. /\ Len(u) = m + n /\ DOMAIN u = 1..(m + n) /\ DOMAIN s = 1..m /\ DOMAIN t = 1..n
  BY <1>2, <1>3
<1>5. \A i \in 1..m : u[i] = s[i] /\ i \in 1..(m + n)
  BY <1>2, <1>3, <1>4
<1>6. \A i \in 1..n : u[m + i] = t[i] /\ m + i \in 1..(m + n)
  BY <1>2, <1>3, <1>4
<1>7. ASSUME NEW i \in 1..(m + n)
      PROVE  u[i].key \in KeysOf(s) \cup KeysOf(t)
  <2>1. Joined(u, s, t)
    BY ConcatParts
  <2>2. QED
    BY <1>4, <2>1 DEF Joined, KeysOf
<1>8. KeysOf(s) \subseteq KeysOf(u)
  BY <1>4, <1>5 DEF KeysOf
<1>9. KeysOf(t) \subseteq KeysOf(u)
  <2>1. ASSUME NEW i \in 1..n PROVE t[i].key \in KeysOf(u)
    BY <1>4, <1>6 DEF KeysOf
  <2>2. QED
    BY <1>4, <2>1 DEF KeysOf
<1>10. KeysOf(u) \subseteq KeysOf(s) \cup KeysOf(t)
  BY <1>4, <1>7 DEF KeysOf
<1>11. QED
  BY <1>3, <1>4, <1>8, <1>9, <1>10

\* The larger of two numbers.
LEMMA MaxOfTwo ==
    ASSUME NEW x \in Nat, NEW y \in Nat
    PROVE  Max({x, y}) \in Nat /\ x <= Max({x, y}) /\ y <= Max({x, y})
<1>1. \E z \in {x, y} : \A w \in {x, y} : z >= w
  BY x >= y \/ y >= x
<1>2. QED
  BY <1>1 DEF Max

\* A search that has found nothing at first has missed nothing.
LEMMA NothingFound ==
    ASSUME NEW S, S = {}, NEW G, G = {}, NEW n, n = 0, NEW e \in Nat, NEW l \in Nat
    PROVE  /\ Cardinality(S \ G) <= Max({e, l})
           /\ n - Cardinality(G) <= e * Overlap(0)
<1>1. S \ G = {} /\ Cardinality(G) = 0
  BY FS_EmptySet
<1>2. Cardinality(S \ G) = 0
  BY <1>1, FS_EmptySet, Zenon
<1>3. Max({e, l}) \in Nat
  BY MaxOfTwo
<1>4. Overlap(0) = 1 /\ e * 1 = e
  BY DEF Overlap
<1>5. QED
  BY <1>1, <1>2, <1>3, <1>4

\* The pages that the client has.
LEMMA DriftReply ==
    ASSUME Core, Core', DriftInv, Reply
    PROVE  DriftInv'
<1>1. /\ UNCHANGED <<objects, metadata_filters, asked, count, steady, entered, left>>
      /\ pc = "show" /\ page = <<>> /\ data' = data \o reply
      /\ pc' \in {"count", "done"} /\ (pc' = "count" <=> offset' < m_total')
  BY DEF Reply, request, seen
<1>2. Watching /\ Matching' = Matching
  BY <1>1 DEF Watching, Matching
<1>3. IsSeq(data) /\ IsSeq(reply)
  BY <1>1 DEF Core, Answers
<1>4. Len(data) \in Nat /\ Len(reply) \in Nat
  BY <1>3, SeqParts
<1>5. KeysOf(data') = KeysOf(data) \cup KeysOf(reply) /\ Len(data') = Len(data) + Len(reply)
  BY <1>1, <1>3, JoinedParts
<1>6. PICK M, S, G, n, b, e, l : /\ M = Matching /\ S = steady /\ G = Taken /\ n = TakenLen
                                 /\ b = Passed /\ e = entered /\ l = left
  OBVIOUS
<1>7. PICK n0 : n0 = FirstLen
  OBVIOUS
<1>8. /\ Keys(M) /\ S \subseteq M /\ Keys(G) /\ n \in Nat /\ b \in Nat /\ e \in Nat /\ l \in Nat
      /\ n0 \in Nat
  BY <1>1, <1>2, <1>6, <1>7, Watched
<1>9. /\ Lost(M, S, G, b, l) /\ Again(M, G, n, n0, b, e)
      /\ Balance(M, Promised, e, l) /\ Known(G)
  BY <1>1, <1>2, <1>6, <1>7, Watched DEF DriftInv, UpToNow
<1>10. G = KeysOf(data') /\ n = Len(data')
  <2>1. G = KeysOf(data) \cup KeysOf(reply) \cup {} /\ n = Len(data) + Len(reply) + 0
    BY <1>1, <1>6, EmptyParts DEF Taken, TakenLen
  <2>2. QED
    BY <1>4, <1>5, <2>1
<1>11. Taken' = G /\ TakenLen' = n
  BY <1>1, <1>10 DEF Taken, TakenLen
<1>12. initial_offset = None => n0 = Len(reply)
  BY <1>1, <1>4, <1>7, EmptyParts DEF FirstLen
<1>13. initial_offset' = n0 /\ offset' = b /\ initial_offset' # None
  <2>1. CASE initial_offset = None
    <3>1. initial_offset' = Len(reply) /\ offset' = Len(reply)
      BY <2>1 DEF Reply, NextOffset
    <3>2. b = n0
      BY <1>1, <1>6, <1>7, <2>1 DEF Passed
    <3>3. QED
      BY <1>8, <1>12, <2>1, <3>1, <3>2 DEF None
  <2>2. CASE initial_offset # None
    BY <1>1, <1>6, <1>7, <2>2 DEF Reply, NextOffset, Passed, FirstLen
  <2>3. QED
    BY <2>1, <2>2
<1>14. m_total' \in Nat /\ Promised' = m_total'
  <2>1. m_total' \in Nat
    BY DEF Reply, Total, DriftInv, Numbers
  <2>2. QED
    BY <1>13, <2>1 DEF Promised
<1>15. m_total' = Promised \/ (initial_offset = None /\ reply = <<>> /\ m_total' = 0)
  BY DEF Reply, Total, Promised
<1>16. FirstLen' = n0 /\ Passed' = b
  BY <1>1, <1>13 DEF FirstLen, Passed
<1>17. Parts'
  BY <1>1, <1>9, <1>10 DEF Parts
<1>18. CASE pc' = "count"
  <2>1. b < m_total'
    BY <1>1, <1>13, <1>18
  <2>2. m_total' = Promised
    BY <1>8, <1>15, <2>1
  <2>3. UpToNow'
    <3>1. Balance(Matching, Promised, entered, left)'
      BY <1>1, <1>2, <1>6, <1>9, <1>14, <2>2
    <3>2. Lost(Matching, steady, Taken, Passed, left)'
      BY <1>1, <1>2, <1>6, <1>9, <1>11, <1>16
    <3>3. Again(Matching, Taken, TakenLen, FirstLen, Passed, entered)'
      BY <1>1, <1>2, <1>6, <1>9, <1>11, <1>16
    <3>4. QED
      BY <3>1, <3>2, <3>3 DEF UpToNow
  <2>4. 0 < n0 /\ n0 <= DefaultLimit
    <3>1. n0 # 0
      <4>1. CASE initial_offset = None
        <5>1. b = n0
          BY <1>1, <1>6, <1>7, <4>1 DEF Passed
        <5>2. reply # <<>>
          BY <1>8, <2>1, <4>1 DEF Reply, Total
        <5>3. Len(reply) # 0
          BY <1>3, <5>2 DEF IsSeq
        <5>4. QED
          BY <1>12, <4>1, <5>3
      <4>2. CASE initial_offset # None
        BY <1>2, <1>7, <4>2 DEF DriftInv, Numbers, FirstLen
      <4>3. QED
        BY <4>1, <4>2
    <3>2. WholePages(M, G, n, n0, b, e) \/ ShortPages(M, G, n, n0, b, e)
      BY <1>9, <3>1 DEF Again
    <3>3. n0 <= DefaultLimit
      BY <1>8, <3>2, QueryAssumption DEF WholePages, ShortPages
    <3>4. QED
      BY <1>8, <3>1, <3>3
  <2>5. Numbers'
    BY <1>1, <1>6, <1>8, <1>13, <1>14, <2>4 DEF DriftInv, Numbers
  <2>6. Empty' /\ DriftIsBounded'
    BY <1>18 DEF Empty, DriftIsBounded
  <2>7. QED
    BY <1>17, <2>3, <2>5, <2>6 DEF DriftInv
<1>19. CASE pc' = "done"
  <2>1. m_total' <= b
    BY <1>1, <1>8, <1>13, <1>14, <1>19
  <2>2. Numbers'
    BY <1>1, <1>6, <1>8, <1>13, <1>14, <1>19 DEF DriftInv, Numbers, Watching
  <2>3. ~ Watching'
    BY <1>19 DEF Watching
  <2>4. Cardinality(S \ G) <= Max({e, l}) /\ n - Cardinality(G) <= e * Overlap(n0)
    <3>1. CASE m_total' = Promised
      <4>1. PICK T : T = Promised
        OBVIOUS
      <4>2. T \in Nat /\ T <= b /\ Balance(M, T, e, l)
        BY <1>9, <1>14, <2>1, <3>1, <4>1
      <4>3. /\ Cardinality(S \ G) <= e \/ Cardinality(S \ G) <= l
            /\ n - Cardinality(G) <= e * Overlap(n0)
        BY <1>8, <1>9, <4>2, AllPassed
      <4>4. IsFiniteSet(M)
        BY <1>8 DEF Keys
      <4>5. Cardinality(S \ G) \in Nat
        BY <1>8, <4>4, Size
      <4>6. PICK x \in Nat : x = Max({e, l}) /\ e <= x /\ l <= x
        BY <1>8, MaxOfTwo
      <4>7. Cardinality(S \ G) <= x
        BY <1>8, <4>3, <4>5, <4>6
      <4>8. QED
        BY <4>3, <4>6, <4>7
    <3>2. CASE initial_offset = None /\ reply = <<>> /\ m_total' = 0
      <4>1. n0 = 0
        BY <1>12, <3>2, EmptyParts
      <4>2. S = {}
        BY <1>1, <1>6, <1>7, <3>2, <4>1 DEF DriftInv, Empty
      <4>3. data = <<>>
        BY <3>2 DEF Core, Paging
      <4>4. G = {} /\ n = 0
        BY <1>1, <1>6, <3>2, <4>3, EmptyParts DEF Taken, TakenLen
      <4>5. QED
        BY <1>8, <4>1, <4>2, <4>4, NothingFound
    <3>3. QED
      BY <1>15, <3>1, <3>2
  <2>5. DriftIsBounded'
    <3>1. Found' = G
      BY <1>10 DEF Found, KeysOf
    <3>2. QED
      BY <1>1, <1>6, <1>10, <1>13, <2>4, <3>1 DEF DriftIsBounded
  <2>6. QED
    BY <1>17, <2>2, <2>3, <2>5, NotFollowed
<1>20. QED
  BY <1>1, <1>18, <1>19

\* A step after which nothing has been found yet.
LEMMA DriftEmpty ==
    ASSUME Core, DriftInv, SetFilter \/ DelFilter \/ GetMetadata \/ Continue \/ Unanswered
    PROVE  DriftInv'
<1>1. data' = <<>> /\ pc' \in {"idle", "count", "failed"}
  BY DEF SetFilter, DelFilter, GetMetadata, Continue, Unanswered, Fail, client, Core, Paging
<1>2. \/ UNCHANGED <<offset, initial_offset, m_total, count, entered, left>>
      \/ offset' = 0 /\ initial_offset' = None /\ count' = 0 /\ entered' = 0 /\ left' = 0
  BY DEF SetFilter, DelFilter, GetMetadata, Continue, Unanswered, client, request, seen
<1>3. /\ pc' \in {"idle", "count"} => initial_offset' = None
      /\ pc' \in {"idle", "count"} => entered' = 0 /\ left' = 0
  BY DEF SetFilter, DelFilter, GetMetadata, Continue, Unanswered, Fail, client, seen, Core,
         Paging, DriftInv, Numbers
<1>4. ~ Watching'
  BY <1>1, <1>3 DEF Watching
<1>5. Parts'
  BY <1>1, EmptyParts DEF Parts, Known
<1>6. Numbers'
  BY <1>1, <1>2, <1>3, <1>4 DEF DriftInv, Numbers
<1>7. DriftIsBounded'
  BY <1>1 DEF DriftIsBounded
<1>8. QED
  BY <1>4, <1>5, <1>6, <1>7, NotFollowed

\* The clock has no part in it.
LEMMA DriftQuiet ==
    ASSUME DriftInv, Tick \/ UNCHANGED vars
    PROVE  DriftInv'
<1>1. UNCHANGED <<objects, metadata_filters, asked, pc, offset, initial_offset, m_total,
                  data, count, page, reply, steady, entered, left>>
  BY DEF Tick, vars, client, request, seen
<1>2. Matching' = Matching /\ (Watching' <=> Watching)
  BY <1>1 DEF Matching, Watching
<1>3. /\ Taken' = Taken /\ TakenLen' = TakenLen /\ FirstLen' = FirstLen
      /\ Passed' = Passed /\ Promised' = Promised
  BY <1>1 DEF Taken, TakenLen, FirstLen, Passed, Promised
<1>4. Parts' /\ Numbers'
  BY <1>1, <1>2 DEF DriftInv, Parts, Numbers
<1>5. UpToNow'
  BY <1>1, <1>2, <1>3 DEF DriftInv, UpToNow
<1>6. Empty'
  BY <1>1, <1>3 DEF DriftInv, Empty, Stale
<1>7. DriftIsBounded'
  BY <1>1 DEF DriftInv, DriftIsBounded, Found
<1>8. QED
  BY <1>4, <1>5, <1>6, <1>7 DEF DriftInv

\* The invariant is inductive.
LEMMA DriftStep ==
    ASSUME Core, Core', DriftInv, [Next]_vars
    PROVE  DriftInv'
<1>1. CASE Register \/ Declare \/ Update \/ Delete
  <2>1. Change
    BY <1>1 DEF Register, Declare, Update, Delete
  <2>2. QED
    BY <2>1, DriftChange
<1>2. QED
  BY <1>1, DriftCount, DriftSlice, DriftShow, DriftReply, DriftEmpty, DriftQuiet DEF Next

\* It holds at first.
LEMMA DriftInit ==
    ASSUME Init
    PROVE  DriftInv
<1>1. Parts
  BY EmptyParts DEF Init, Parts, Known
<1>2. Numbers /\ UpToNow /\ Empty /\ DriftIsBounded
  BY DEF Init, Numbers, UpToNow, Empty, DriftIsBounded, Watching
<1>3. QED
  BY <1>1, <1>2 DEF DriftInv

\* Whatever enters or leaves the result between the count and the slice of a page and
\* between pages, get_metadata misses at most as many of the objects that matched all the
\* time as entered, or as left, and repeats at most those that entered made come again.
THEOREM DriftBounded == Spec => []DriftIsBounded
<1>1. Init => Core /\ DriftInv
  BY CoreInit, DriftInit
<1>2. Core /\ DriftInv /\ [Next]_vars => (Core /\ DriftInv)'
  BY CoreStep, DriftStep
<1>3. Core /\ DriftInv => DriftIsBounded
  BY DEF DriftInv
<1>4. QED
  BY <1>1, <1>2, <1>3, PTL DEF Spec
===============================================================================
