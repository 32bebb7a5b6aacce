---------------------------- MODULE ConnectionProofs ----------------------------
(***************************************************************************)
(* A write is lost only with a connection that another thread replaced.    *)
(* The invariant follows a write from its batch to Cassandra: until its    *)
(* request is answered it is stored or in the batch of some connection,    *)
(* and a connection that is yet to be assigned has an empty batch, so an   *)
(* orphan never becomes the process's connection again.                    *)
(*                                                                         *)
(* With the constructor in all its steps (Startup) the process still takes *)
(* only steps of Connection, and a constructor fails only in a race.       *)
(***************************************************************************)
EXTENDS Startup, FiniteSetTheorems, TLAPS

PcTyped == pc \in [Thread -> {"idle", "connect", "assign", "map", "write", "flush", "done"}]

\* A thread that has yet to assign its connection has not written to it.
Unassigned ==
    \A t \in Thread : pc[t] \in {"idle", "connect", "assign"} => batch[t] = {} /\ db # t

Assigned ==
    /\ \A t \in Thread : pc[t] = "assign" => t \in made
    /\ db = None => \A t \in Thread : pc[t] \notin {"map", "write", "flush"} /\ answer[t] # "201"

\* Every write a request has made is stored or in the batch of a connection, and
\* once it is answered not in that of the connection of the process.
Followed ==
    \A t \in Thread, i \in 1..MaxRows :
        /\ pc[t] \in {"write", "flush"} /\ i < row[t] =>
                <<t, i>> \in stored \/ \E h \in made : <<t, i>> \in batch[h]
        /\ answer[t] = "201" =>
                <<t, i>> \in stored \/ \E h \in made \ {db} : <<t, i>> \in batch[h]

\* Rows are written between check_connection() and flush().
Counted ==
    \A t \in Thread :
        /\ pc[t] \in {"idle", "connect", "assign", "map"} => row[t] = 1
        /\ pc[t] = "flush" => row[t] > MaxRows

\* No request runs before the module is imported.
Serving == imported \/ (db = None /\ \A t \in Thread : pc[t] = "idle")

Pending == \A t \in Thread : pc[t] # "done" => answer[t] = "none"

ConnectionInv ==
    /\ TypeOK /\ PcTyped /\ Unassigned /\ Assigned
    /\ Followed /\ Counted /\ Pending /\ Serving

\* A process that has just started.
LEMMA InitInv == Init => ConnectionInv
<1> SUFFICES ASSUME Init PROVE ConnectionInv
  OBVIOUS
<1>1. TypeOK /\ PcTyped
  BY ConnectionAssumption DEF Init, TypeOK, PcTyped, Handle, Write
<1>2. Unassigned /\ Assigned /\ Followed /\ Counted /\ Pending /\ Serving
  BY ConnectionAssumption DEF Init, Unassigned, Assigned, Followed, Counted, Pending, Handle,
     Serving
<1>3. QED
  BY <1>1, <1>2 DEF ConnectionInv

\* One step of a thread keeps the invariant.
LEMMA StepInv ==
    ASSUME ConnectionInv, NEW t \in Thread, Step(t)
    PROVE  ConnectionInv'
<1> USE ConnectionAssumption
<1>0. /\ TypeOK /\ PcTyped /\ Unassigned /\ Assigned
      /\ Followed /\ Counted /\ Pending /\ Serving
  BY DEF ConnectionInv
<1>1. CASE Check(t)
  <2>1. TypeOK' /\ PcTyped'
    BY <1>0, <1>1 DEF Check, TypeOK, PcTyped, global
  <2>2. Unassigned' /\ Assigned' /\ Counted' /\ Pending' /\ Serving'
    BY <1>0, <1>1 DEF Check, Unassigned, Serving, Assigned, Counted, Pending, PcTyped, TypeOK, global, Handle
  <2>3. Followed'
    <3>1. UNCHANGED <<made, db, batch, stored, answer, row>>
      BY <1>1 DEF Check, global
    <3>2. \A q \in Thread : pc'[q] \in {"write", "flush"} =>
                pc[q] \in {"write", "flush"} \/ row[q] = 1
      BY <1>0, <1>1 DEF Check, PcTyped, Counted
    <3>3. ASSUME NEW q \in Thread, NEW i \in 1..MaxRows, pc'[q] \in {"write", "flush"}, i < row[q]
          PROVE  pc[q] \in {"write", "flush"}
      BY <3>2, <3>3
    <3>4. QED
      BY <1>0, <3>1, <3>3 DEF Followed
  <2>4. QED
    BY <2>1, <2>2, <2>3 DEF ConnectionInv
<1>2. CASE Connect(t)
  <2>1. TypeOK' /\ PcTyped'
    BY <1>0, <1>2 DEF Connect, Finish, TypeOK, PcTyped, global, Handle
  <2>2. Unassigned' /\ Assigned' /\ Counted' /\ Pending' /\ Serving'
    BY <1>0, <1>2 DEF Connect, Finish, Unassigned, Serving, Assigned, Counted, Pending, PcTyped, TypeOK, global
  <2>3. Followed'
    <3>1. made \subseteq made' /\ UNCHANGED <<db, batch, stored, row>>
      BY <1>2 DEF Connect, global
    <3>2. ASSUME NEW q \in Thread, NEW i \in 1..MaxRows
          PROVE  /\ pc'[q] \in {"write", "flush"} /\ i < row[q] =>
                      <<q, i>> \in stored \/ \E h \in made' : <<q, i>> \in batch[h]
                 /\ answer'[q] = "201" =>
                      <<q, i>> \in stored \/ \E h \in made' \ {db} : <<q, i>> \in batch[h]
      <4>1. /\ pc[q] \in {"write", "flush"} /\ i < row[q] =>
                 <<q, i>> \in stored \/ \E h \in made : <<q, i>> \in batch[h]
            /\ answer[q] = "201" =>
                 <<q, i>> \in stored \/ \E h \in made \ {db} : <<q, i>> \in batch[h]
        BY <1>0 DEF Followed
      <4>2. /\ pc'[q] \in {"write", "flush"} => pc[q] \in {"write", "flush"}
            /\ answer'[q] = "201" => answer[q] = "201"
        BY <1>0, <1>2 DEF Connect, Finish, PcTyped, TypeOK
      <4>3. QED
        BY <3>1, <4>1, <4>2
    <3>3. QED
      BY <3>1, <3>2 DEF Followed
  <2>4. QED
    BY <2>1, <2>2, <2>3 DEF ConnectionInv
<1>3. CASE Assign(t)
  <2>1. TypeOK' /\ PcTyped'
    BY <1>0, <1>3 DEF Assign, TypeOK, PcTyped, Handle, Assigned
  <2>2. Unassigned' /\ Assigned' /\ Counted' /\ Pending' /\ Serving'
    BY <1>0, <1>3 DEF Assign, Unassigned, Serving, Assigned, Counted, Pending, PcTyped, TypeOK
  <2>3. Followed'
    BY <1>0, <1>3 DEF Assign, Followed, PcTyped, TypeOK, Unassigned, Assigned
  <2>4. QED
    BY <2>1, <2>2, <2>3 DEF ConnectionInv
<1>4. CASE DefineMap(t)
  <2>1. TypeOK' /\ PcTyped'
    BY <1>0, <1>4 DEF DefineMap, TypeOK, PcTyped
  <2>2. Unassigned' /\ Assigned' /\ Counted' /\ Pending' /\ Serving'
    BY <1>0, <1>4 DEF DefineMap, Unassigned, Serving, Assigned, Counted, Pending, PcTyped, TypeOK
  <2>3. Followed'
    <3>1. UNCHANGED <<made, db, batch, stored, answer, row>>
      BY <1>4 DEF DefineMap
    <3>2. \A q \in Thread : pc'[q] \in {"write", "flush"} =>
                pc[q] \in {"write", "flush"} \/ row[q] = 1
      BY <1>0, <1>4 DEF DefineMap, PcTyped, Counted
    <3>3. ASSUME NEW q \in Thread, NEW i \in 1..MaxRows, pc'[q] \in {"write", "flush"}, i < row[q]
          PROVE  pc[q] \in {"write", "flush"}
      BY <3>2, <3>3
    <3>4. QED
      BY <1>0, <3>1, <3>3 DEF Followed
  <2>4. QED
    BY <2>1, <2>2, <2>3 DEF ConnectionInv
<1>5. CASE WriteRow(t)
  <2>1. TypeOK' /\ PcTyped'
    BY <1>0, <1>5 DEF WriteRow, Finish, TypeOK, PcTyped, global, Handle, Write
  <2>2. Unassigned' /\ Assigned' /\ Counted' /\ Pending' /\ Serving'
    BY <1>0, <1>5 DEF WriteRow, Finish, Unassigned, Serving, Assigned, Counted, Pending, PcTyped, TypeOK, global, Handle
  <2>3. Followed'
    <3>1. UNCHANGED <<made, db, stored>> /\ db \in made /\ db \in Handle
      BY <1>0, <1>5 DEF WriteRow, global, TypeOK
    <3>2. \A h \in made : batch[h] \subseteq batch'[h]
      BY <1>0, <1>5 DEF WriteRow, TypeOK
    <3>3. \A h \in made : h # db => batch'[h] = batch[h]
      BY <1>0, <1>5 DEF WriteRow, TypeOK
    <3>4. SUFFICES ASSUME NEW q \in Thread, NEW i \in 1..MaxRows
                   PROVE  /\ pc'[q] \in {"write", "flush"} /\ i < row'[q] =>
                                <<q, i>> \in stored \/ \E h \in made : <<q, i>> \in batch'[h]
                          /\ answer'[q] = "201" =>
                                <<q, i>> \in stored \/ \E h \in made \ {db} : <<q, i>> \in batch'[h]
      BY <3>1 DEF Followed
    <3>5. answer'[q] = "201" => answer[q] = "201"
      BY <1>0, <1>5 DEF WriteRow, Finish, TypeOK
    <3>6. ASSUME pc'[q] \in {"write", "flush"}, i < row'[q]
          PROVE  \/ pc[q] \in {"write", "flush"} /\ i < row[q]
                 \/ <<q, i>> \in batch'[db]
      <4>1. CASE q # t
        BY <1>0, <1>5, <3>6, <4>1 DEF WriteRow, Finish, TypeOK, PcTyped
      <4>2. CASE q = t
        BY <1>0, <1>5, <3>1, <3>6, <4>2 DEF WriteRow, Finish, TypeOK, PcTyped
      <4>3. QED
        BY <4>1, <4>2
    <3>7. QED
      BY <1>0, <3>1, <3>2, <3>3, <3>5, <3>6 DEF Followed
  <2>4. QED
    BY <2>1, <2>2, <2>3 DEF ConnectionInv
<1>6. CASE Flush(t)
  <2>1. TypeOK' /\ PcTyped'
    BY <1>0, <1>6 DEF Flush, Finish, TypeOK, PcTyped, global, Handle, Write
  <2>2. Unassigned' /\ Assigned' /\ Counted' /\ Pending' /\ Serving'
    BY <1>0, <1>6 DEF Flush, Finish, Unassigned, Serving, Assigned, Counted, Pending, PcTyped, TypeOK, global, Handle
  <2>3. Followed'
    <3>1. /\ UNCHANGED <<made, db, row>> /\ db \in made /\ db \in Handle
          /\ stored' = stored \cup batch[db]
          /\ \A h \in made : h # db => batch'[h] = batch[h]
      BY <1>0, <1>6 DEF Flush, global, TypeOK
    <3>2. SUFFICES ASSUME NEW q \in Thread, NEW i \in 1..MaxRows
                   PROVE  /\ pc'[q] \in {"write", "flush"} /\ i < row[q] =>
                                <<q, i>> \in stored' \/ \E h \in made : <<q, i>> \in batch'[h]
                          /\ answer'[q] = "201" =>
                                <<q, i>> \in stored' \/ \E h \in made \ {db} : <<q, i>> \in batch'[h]
      BY <3>1 DEF Followed
    <3>3. ASSUME \E h \in made : <<q, i>> \in batch[h]
          PROVE  <<q, i>> \in stored' \/ \E h \in made \ {db} : <<q, i>> \in batch'[h]
      BY <3>1, <3>3
    <3>4. CASE q # t
      BY <1>0, <1>6, <3>1, <3>3, <3>4 DEF Flush, Finish, Followed, TypeOK, PcTyped
    <3>5. CASE q = t
      <4>1. pc[q] = "flush" /\ i < row[q] /\ pc'[q] = "done"
        BY <1>0, <1>6, <3>5 DEF Flush, Finish, Counted, TypeOK, PcTyped
      <4>2. QED
        BY <1>0, <3>1, <3>3, <4>1 DEF Followed
    <3>6. QED
      BY <3>4, <3>5
  <2>4. QED
    BY <2>1, <2>2, <2>3 DEF ConnectionInv
<1>7. QED
  BY <1>1, <1>2, <1>3, <1>4, <1>5, <1>6 DEF Step

\* The invariant is inductive: neither the boot of Cassandra nor the import,
\* which runs before any request, disturbs it.
LEMMA NextInv == ConnectionInv /\ [Next]_vars => ConnectionInv'
<1> SUFFICES ASSUME ConnectionInv, [Next]_vars PROVE ConnectionInv'
  OBVIOUS
<1> USE ConnectionAssumption
<1>0. /\ TypeOK /\ PcTyped /\ Unassigned /\ Assigned
      /\ Followed /\ Counted /\ Pending /\ Serving
  BY DEF ConnectionInv
<1>1. CASE Load
  <2>1. /\ UNCHANGED <<batch, stored, pc, row, answer, ready>> /\ imported' = TRUE
        /\ db' = Import \/ UNCHANGED <<db, made>>
        /\ db' = Import => made' = made \cup {Import}
        /\ db = None /\ \A t \in Thread : pc[t] = "idle" /\ answer[t] = "none"
    BY <1>0, <1>1 DEF Load, local, Serving, Pending
  <2>2. TypeOK' /\ PcTyped'
    BY <1>0, <2>1 DEF TypeOK, PcTyped, Handle
  <2>3. Unassigned' /\ Assigned' /\ Followed' /\ Counted' /\ Pending' /\ Serving'
    BY <1>0, <2>1 DEF Unassigned, Assigned, Followed, Counted, Pending, Serving
  <2>4. QED
    BY <2>2, <2>3 DEF ConnectionInv
<1>2. CASE Boot \/ Stopped \/ UNCHANGED vars
  <2>1. UNCHANGED <<imported, db, made, batch, stored, pc, row, answer, ready>>
    BY <1>2 DEF Boot, Stopped, vars, global, local
  <2>2. QED
    BY <1>0, <2>1 DEF ConnectionInv, TypeOK, PcTyped, Unassigned, Assigned, Followed, Counted, Pending,
       Serving
<1>3. QED
  BY <1>1, <1>2, StepInv DEF Next

\* What a request answered 201 wrote is stored, or in the batch of a connection
\* that another thread replaced by its own: for any number of threads and rows.
THEOREM LostOnlyWithOrphan == Spec => []OnlyAnOrphanLoses
<1>1. ConnectionInv => OnlyAnOrphanLoses
  BY DEF ConnectionInv, Followed, OnlyAnOrphanLoses
<1>2. QED
  BY <1>1, InitInv, NextInv, PTL DEF Spec

\* A set of one element at most.
LEMMA OnlyElement ==
    ASSUME NEW S, IsFiniteSet(S), Cardinality(S) <= 1, NEW x \in S
    PROVE  S \ {x} = {}
<1>1. Cardinality(S) \in Nat /\ IsFiniteSet(S \ {x})
  BY FS_CardinalityType, FS_RemoveElement
<1>2. Cardinality(S \ {x}) = Cardinality(S) - 1 /\ Cardinality(S \ {x}) \in Nat
  BY <1>1, FS_RemoveElement, FS_CardinalityType
<1>3. Cardinality(S \ {x}) = 0
  BY <1>1, <1>2
<1>4. QED
  BY <1>1, <1>3, FS_EmptySet

\* A process that has opened one connection only loses no write that it
\* acknowledged: the import alone, or one thread alone, is safe.
THEOREM SafeWithOneConnection == Spec => []OneConnectionLosesNothing
<1>1. ConnectionInv => OneConnectionLosesNothing
  <2> SUFFICES ASSUME ConnectionInv, Cardinality(made) <= 1, NEW t \in Thread,
                      answer[t] = "201", NEW i \in 1..MaxRows
               PROVE  <<t, i>> \in stored
    BY DEF OneConnectionLosesNothing, Stored
  <2>1. made \subseteq Thread \cup {Import} /\ db \in made
    BY DEF ConnectionInv, TypeOK, Assigned, Handle
  <2>2. IsFiniteSet(Thread \cup {Import})
    BY ConnectionAssumption, FS_AddElement
  <2>3. IsFiniteSet(made)
    BY <2>1, <2>2, FS_Subset
  <2>4. made \ {db} = {}
    BY <2>1, <2>3, OnlyElement
  <2>5. QED
    BY <2>4 DEF ConnectionInv, Followed
<1>2. QED
  BY <1>1, InitInv, NextInv, PTL DEF Spec

\* A thread that found the map is past the connecting, and the map stays.
ReadyInv ==
    /\ cfMap => db # None
    /\ \A t \in ready :
        cfMap /\ pc[t] \in {"write", "flush", "done"} /\ answer[t] # "500"

\* No step takes the map away or sends a thread back to the connecting.
LEMMA ReadyNext == ConnectionInv /\ ReadyInv /\ [Next]_vars => ReadyInv'
<1> SUFFICES ASSUME ConnectionInv, ReadyInv, [Next]_vars PROVE ReadyInv'
  OBVIOUS
<1>0. TypeOK /\ PcTyped /\ Pending /\ Serving
  BY DEF ConnectionInv
<1> USE ConnectionAssumption DEF ReadyInv
<1>1. CASE Load
  BY <1>0, <1>1 DEF Load, local, Serving
<1>2. CASE Boot \/ Stopped \/ UNCHANGED vars
  BY <1>2 DEF Boot, Stopped, vars, global, local
<1>3. ASSUME NEW t \in Thread, Step(t) PROVE ReadyInv'
  <2>1. CASE Check(t)
    BY <1>0, <2>1 DEF Check, global, TypeOK, PcTyped, Pending
  <2>2. CASE Connect(t)
    BY <1>0, <2>2 DEF Connect, Finish, global, TypeOK, PcTyped
  <2>3. CASE Assign(t)
    BY <1>0, <2>3 DEF Assign, TypeOK, PcTyped
  <2>4. CASE DefineMap(t)
    BY <1>0, <2>4 DEF DefineMap, TypeOK, PcTyped
  <2>5. CASE WriteRow(t)
    BY <1>0, <2>5 DEF WriteRow, Finish, global, TypeOK, PcTyped
  <2>6. CASE Flush(t)
    BY <1>0, <2>6 DEF Flush, Finish, global, TypeOK, PcTyped
  <2>7. QED
    BY <1>3, <2>1, <2>2, <2>3, <2>4, <2>5, <2>6 DEF Step
<1>4. QED
  BY <1>1, <1>2, <1>3 DEF Next

\* A request that begins once the map is defined never meets the NameError,
\* whichever connections other threads make and assign meanwhile.
THEOREM ReadyServed == Spec => []ReadyIsServed
<1>1. Init => ReadyInv
  BY DEF Init, ReadyInv
<1>2. ReadyInv => ReadyIsServed
  BY DEF ReadyInv, ReadyIsServed
<1>3. QED
  BY <1>1, <1>2, InitInv, NextInv, ReadyNext, PTL DEF Spec

-------------------------------------------------------------------------------
(* The constructor of CASSANDRA_DB, part by part, on top of Connection. *)

\* Whatever the constructors of the process and of other programs do to the schema,
\* the process takes only steps of Connection: what is proved above holds there.
THEOREM StartupImplementsConnection == StartSpec => ImplementsConnection
<1>1. StartInit => Init
  BY DEF StartInit
<1>2. [StartNext]_allVars => [Next]_vars
  <2> SUFFICES ASSUME [StartNext]_allVars PROVE [Next]_vars
    OBVIOUS
  <2>1. CASE UNCHANGED allVars
    BY <2>1 DEF allVars
  <2>2. CASE StartBoot
    BY <2>2 DEF StartBoot, Next
  <2>3. ASSUME NEW t \in Thread, Serve(t) PROVE [Next]_vars
    BY <2>3 DEF Serve, Next, Step
  <2>4. ASSUME NEW b \in Builder, Raised(b) \/ Opened(b) PROVE [Next]_vars
    BY <2>4 DEF Raised, Opened, Next, Step
  <2>5. ASSUME NEW b \in Builder, Construct(b) \/ Die(b) PROVE [Next]_vars
    BY <2>4, <2>5 DEF Construct, Die, Down, Enter, CheckPart, CreatePart, OpenPool, Next
  <2>6. QED
    BY <2>1, <2>2, <2>3, <2>5 DEF StartNext
<1>3. QED
  BY <1>1, <1>2, PTL DEF StartSpec, Spec, ImplementsConnection

\* Every constructor has seen or made the parts before the one it is at; unless
\* another one made a part meanwhile, one that is about to make a part is right.
BuilderInv ==
    /\ stage \in [Builder -> {"off", "check", "create", "pool"}]
    /\ part \in [Builder -> Part] /\ schema \subseteq Part
    /\ deaths \in Nat
    /\ \A b \in Builder :
        /\ stage[b] = "off" => part[b] = 1
        /\ \A k \in Part : k < part[b] => k \in schema
        /\ stage[b] = "create" /\ b \notin disturbed => part[b] \notin schema
        /\ stage[b] = "pool" => schema = Part

\* On to the next part, once this one is there.
LEMMA ProceedInv ==
    ASSUME BuilderInv, NEW b \in Builder, stage[b] # "off", Proceed(b),
           schema \subseteq schema', schema' \subseteq Part, part[b] \in schema'
    PROVE  /\ stage' \in [Builder -> {"off", "check", "create", "pool"}]
           /\ part' \in [Builder -> Part]
           /\ \A c \in Builder : c # b => stage'[c] = stage[c] /\ part'[c] = part[c]
           /\ stage'[b] \in {"check", "pool"}
           /\ \A k \in Part : k < part'[b] => k \in schema'
           /\ stage'[b] = "pool" => schema' = Part
<1> USE StartupAssumption
<1>1. part[b] \in 1..(Families + 1) /\ Families \in Nat
  BY DEF BuilderInv, Part
<1>2. CASE part[b] = Families + 1
  <2>1. stage' = [stage EXCEPT ![b] = "pool"] /\ part' = part
    BY <1>2 DEF Proceed, BuilderInv
  <2>2. Part \subseteq schema'
    BY <1>1, <1>2 DEF BuilderInv, Part
  <2>3. QED
    BY <2>1, <2>2 DEF BuilderInv
<1>3. CASE part[b] # Families + 1
  <2>1. stage' = [stage EXCEPT ![b] = "check"] /\ part' = [part EXCEPT ![b] = part[b] + 1]
    BY <1>3 DEF Proceed
  <2>2. part[b] + 1 \in Part
    BY <1>1, <1>3 DEF Part
  <2>3. \A k \in Part : k < part[b] + 1 => k \in schema'
    BY <1>1 DEF BuilderInv, Part
  <2>4. QED
    BY <2>1, <2>2, <2>3 DEF BuilderInv
<1>4. QED
  BY <1>2, <1>3

\* The steps of the constructors keep the invariant: who makes a part disturbs
\* every other one that is at work.
LEMMA BuilderNext == BuilderInv /\ [StartNext]_allVars => BuilderInv'
<1> SUFFICES ASSUME BuilderInv, [StartNext]_allVars PROVE BuilderInv'
  OBVIOUS
<1> USE StartupAssumption
<1>0. 1 \in Part
  BY DEF Part
<1>1. CASE UNCHANGED <<schema, stage, part, disturbed, deaths>>
  BY <1>1 DEF BuilderInv
<1>2. ASSUME NEW b \in Builder, End(b), UNCHANGED schema, deaths' \in Nat PROVE BuilderInv'
  <2>1. /\ stage' = [stage EXCEPT ![b] = "off"] /\ part' = [part EXCEPT ![b] = 1]
        /\ disturbed' = disturbed \ {b}
    BY <1>2 DEF End
  <2>2. stage' \in [Builder -> {"off", "check", "create", "pool"}] /\ part' \in [Builder -> Part]
    BY <1>0, <2>1 DEF BuilderInv
  <2>3. ASSUME NEW c \in Builder
        PROVE  /\ stage'[c] = "off" => part'[c] = 1
               /\ \A k \in Part : k < part'[c] => k \in schema
               /\ stage'[c] = "create" /\ c \notin disturbed' => part'[c] \notin schema
               /\ stage'[c] = "pool" => schema = Part
    <3>1. CASE c = b
      BY <2>1, <3>1 DEF BuilderInv, Part
    <3>2. CASE c # b
      BY <2>1, <3>2 DEF BuilderInv
    <3>3. QED
      BY <3>1, <3>2
  <2>4. QED
    BY <1>2, <2>2, <2>3 DEF BuilderInv
<1>3. ASSUME NEW b \in Builder, Enter(b) PROVE BuilderInv'
  BY <1>0, <1>3 DEF Enter, BuilderInv
<1>4. ASSUME NEW b \in Builder, CheckPart(b) PROVE BuilderInv'
  <2>1. stage[b] = "check" /\ UNCHANGED <<schema, deaths, disturbed>>
    BY <1>4 DEF CheckPart
  <2>2. CASE part[b] \in schema
    <3>1. Proceed(b)
      BY <1>4, <2>2 DEF CheckPart, Look
    <3>2. schema \subseteq Part
      BY DEF BuilderInv
    <3>3. /\ stage' \in [Builder -> {"off", "check", "create", "pool"}] /\ part' \in [Builder -> Part]
          /\ \A c \in Builder : c # b => stage'[c] = stage[c] /\ part'[c] = part[c]
          /\ stage'[b] \in {"check", "pool"}
          /\ \A k \in Part : k < part'[b] => k \in schema
          /\ stage'[b] = "pool" => schema = Part
      BY <2>1, <2>2, <3>1, <3>2, ProceedInv
    <3>4. QED
      BY <2>1, <3>3 DEF BuilderInv
  <2>3. CASE part[b] \notin schema
    <3>1. stage' = [stage EXCEPT ![b] = "create"] /\ UNCHANGED part
      BY <1>4, <2>3 DEF CheckPart, Look
    <3>2. QED
      BY <2>1, <2>3, <3>1 DEF BuilderInv
  <2>4. QED
    BY <2>2, <2>3
<1>5. ASSUME NEW b \in Builder, CreatePart(b) PROVE BuilderInv'
  <2>1. CASE part[b] \notin schema
    <3>1. /\ stage[b] = "create" /\ schema' = schema \cup {part[b]} /\ Proceed(b)
          /\ disturbed' = disturbed \cup {c \in Builder \ {b} : stage[c] # "off"}
          /\ UNCHANGED deaths
      BY <1>5, <2>1 DEF CreatePart
    <3>2. part[b] \in Part /\ schema \subseteq Part
      BY DEF BuilderInv
    <3>3. schema' \subseteq Part /\ schema \subseteq schema' /\ part[b] \in schema'
      BY <3>1, <3>2
    <3>4. /\ stage' \in [Builder -> {"off", "check", "create", "pool"}] /\ part' \in [Builder -> Part]
          /\ \A c \in Builder : c # b => stage'[c] = stage[c] /\ part'[c] = part[c]
          /\ stage'[b] \in {"check", "pool"}
          /\ \A k \in Part : k < part'[b] => k \in schema'
          /\ stage'[b] = "pool" => schema' = Part
      BY <3>1, <3>3, ProceedInv
    <3>5. QED
      BY <3>1, <3>3, <3>4 DEF BuilderInv
  <2>2. CASE part[b] \in schema
    <3>1. End(b) /\ UNCHANGED schema /\ deaths' \in Nat
      BY <1>5, <2>2 DEF CreatePart, BuilderInv
    <3>2. QED
      BY <1>2, <3>1
  <2>3. QED
    BY <2>1, <2>2
<1>6. ASSUME NEW b \in Builder, OpenPool(b) \/ Die(b) PROVE BuilderInv'
  <2>1. End(b) /\ UNCHANGED schema /\ deaths' \in Nat
    BY <1>6 DEF OpenPool, Die, BuilderInv
  <2>2. QED
    BY <1>2, <2>1
<1>7. QED
  BY <1>1, <1>3, <1>4, <1>5, <1>6 DEF StartNext, StartBoot, Serve, Construct, Down,
     constructors, allVars

\* A constructor that ends without a connection, and not by a kill, has been
\* disturbed: for any number of programs and column families.
THEOREM OnlyRacesFail == StartSpec => OnlyARaceFails
<1>1. StartInit => BuilderInv
  BY StartupAssumption DEF StartInit, BuilderInv, Part
<1>2. BuilderInv /\ [StartNext]_allVars =>
        [\A b \in Builder : Fails(b) => b \in disturbed]_allVars
  <2> SUFFICES ASSUME BuilderInv, StartNext, NEW b \in Builder, Fails(b)
               PROVE  b \in disturbed
    OBVIOUS
  <2> USE DEF Fails
  <2>1. ASSUME NEW c \in Builder, Construct(c) \/ Die(c) PROVE b \in disturbed
    <3>1. CASE Down(c) \/ Enter(c)
      BY <3>1 DEF Down, Enter, constructors, BuilderInv
    <3>2. CASE CheckPart(c)
      BY <3>2 DEF CheckPart, Look, Proceed, BuilderInv
    <3>3. CASE CreatePart(c)
      BY <3>3 DEF CreatePart, Proceed, End, BuilderInv
    <3>4. CASE OpenPool(c)
      BY <3>4 DEF OpenPool, End, BuilderInv
    <3>5. CASE Die(c)
      BY <3>5 DEF Die, BuilderInv
    <3>6. QED
      BY <2>1, <3>1, <3>2, <3>3, <3>4, <3>5 DEF Construct
  <2>2. CASE StartBoot \/ \E t \in Thread : Serve(t)
    BY <2>2 DEF StartBoot, Serve, constructors
  <2>3. QED
    BY <2>1, <2>2 DEF StartNext
<1>3. QED
  BY <1>1, <1>2, BuilderNext, PTL DEF StartSpec, OnlyARaceFails
===============================================================================
