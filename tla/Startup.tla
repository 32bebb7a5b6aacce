------------------------------- MODULE Startup -------------------------------
(***************************************************************************)
(* How a connection of Connection comes about: the constructor of          *)
(* CASSANDRA_DB looks for the keyspace and then for each column family,    *)
(* and makes what is not there.  Nothing keeps two programs from doing so  *)
(* at the same time: the processes of the server, each at its import or in *)
(* its requests, the cleaner, cassandra_init.  Who is second to make a     *)
(* part gets an exception, and one that dies leaves half a schema.         *)
(*                                                                         *)
(* Part 1 is the keyspace, the others are its column families.             *)
(***************************************************************************)
EXTENDS Connection

CONSTANTS
    Program,    \* other programs that open a connection, again and again
    Families,   \* the number of column families: 4
    MaxDeaths

ASSUME StartupAssumption ==
    /\ Families \in Nat /\ MaxDeaths \in Nat
    /\ Program \cap (Handle \cup {None}) = {}

Builder == Handle \cup Program
Part == 1..(Families + 1)

VARIABLES
    schema,    \* the parts that are there
    stage,     \* of each constructor: "off", "check", "create", "pool"
    part,      \* the part it is at
    deaths,
    disturbed  \* history: the constructors during which another one made a part

constructors == <<stage, part, disturbed>>
allVars == <<vars, schema, constructors, deaths>>

StartInit ==
    /\ Init
    /\ schema = {} /\ deaths = 0
    /\ stage = [b \in Builder |-> "off"] /\ part = [b \in Builder |-> 1]
    /\ disturbed = {}

\* Who calls the constructor: the import, a thread in check_connection, a program.
Calls(b) ==
    \/ b \in Program
    \/ b = Import /\ ~ imported
    \/ b \in Thread /\ pc[b] = "connect"

\* What the caller makes of the connection, and of an exception: at the import, only
\* ConnectionException is caught; after another one the next request imports again.
Opened(b) ==
    \/ b = Import /\ Load
    \/ b \in Thread /\ Connect(b) /\ pc'[b] = "assign"
    \/ b \in Program /\ UNCHANGED vars

\* Mutant of Raised: whatever goes wrong, the module is imported.
RaisedCaught(b) ==
    \/ /\ b = Import
       /\ imported' = TRUE /\ UNCHANGED <<up, db, cfMap, made, batch, stored, local>>
    \/ b \in Thread /\ Connect(b) /\ pc'[b] = "done"
    \/ b \in Program /\ UNCHANGED vars

Raised(b) ==
    \/ b \in Thread /\ Connect(b) /\ pc'[b] = "done"
    \/ b \notin Thread /\ UNCHANGED vars

End(b) ==
    /\ stage' = [stage EXCEPT ![b] = "off"]
    /\ part' = [part EXCEPT ![b] = 1]
    /\ disturbed' = disturbed \ {b}

\* Cassandra is down: a ConnectionException, with which the import goes on.
Down(b) ==
    /\ Calls(b) /\ stage[b] = "off" /\ ~ up
    /\ IF b = Import THEN Load ELSE Raised(b)
    /\ UNCHANGED <<schema, constructors, deaths>>

\* The SystemManager has a connection.
Enter(b) ==
    /\ Calls(b) /\ stage[b] = "off" /\ up
    /\ stage' = [stage EXCEPT ![b] = "check"]
    /\ UNCHANGED <<vars, schema, part, deaths, disturbed>>

\* On to the next part, or to the ConnectionPool.
Proceed(b) ==
    /\ stage' = [stage EXCEPT ![b] = IF part[b] = Families + 1 THEN "pool" ELSE "check"]
    /\ part' = [part EXCEPT ![b] = IF @ = Families + 1 THEN @ ELSE @ + 1]

\* Mutant of Look: the column families are taken to be there with their keyspace.
LookOnce(b) ==
    IF part[b] = 1 /\ 1 \in schema
    THEN /\ stage' = [stage EXCEPT ![b] = "pool"]
         /\ part' = [part EXCEPT ![b] = Families + 1]
    ELSE IF part[b] \in schema THEN Proceed(b)
    ELSE stage' = [stage EXCEPT ![b] = "create"] /\ UNCHANGED part

\* Mutant of Look: a part is made without a look.
LookNever(b) == stage' = [stage EXCEPT ![b] = "create"] /\ UNCHANGED part

\* list_keyspaces, get_keyspace_column_families.
Look(b) ==
    IF part[b] \in schema THEN Proceed(b)
    ELSE stage' = [stage EXCEPT ![b] = "create"] /\ UNCHANGED part

CheckPart(b) ==
    /\ stage[b] = "check"
    /\ Look(b)
    /\ UNCHANGED <<vars, schema, deaths, disturbed>>

\* create_keyspace, create_column_family: an exception if another one was faster.
CreatePart(b) ==
    /\ stage[b] = "create"
    /\ \/ /\ part[b] \notin schema
          /\ schema' = schema \cup {part[b]}
          /\ disturbed' = disturbed \cup {c \in Builder \ {b} : stage[c] # "off"}
          /\ Proceed(b)
          /\ UNCHANGED vars
       \/ /\ part[b] \in schema
          /\ Raised(b)
          /\ End(b)
          /\ UNCHANGED schema
    /\ UNCHANGED deaths

\* The pool and the four ColumnFamily objects, which read the schema.
OpenPool(b) ==
    /\ stage[b] = "pool"
    /\ IF schema = Part THEN Opened(b) ELSE Raised(b)
    /\ End(b)
    /\ UNCHANGED <<schema, deaths>>

\* A program is killed.
Die(b) ==
    /\ b \in Program /\ stage[b] # "off" /\ deaths < MaxDeaths
    /\ deaths' = deaths + 1
    /\ End(b)
    /\ UNCHANGED <<vars, schema>>

Construct(b) == Down(b) \/ Enter(b) \/ CheckPart(b) \/ CreatePart(b) \/ OpenPool(b)

\* A request, but for its connection.
Serve(t) ==
    /\ Check(t) \/ Assign(t) \/ DefineMap(t) \/ WriteRow(t) \/ Flush(t)
    /\ UNCHANGED <<schema, constructors, deaths>>

StartBoot == Boot /\ UNCHANGED <<schema, constructors, deaths>>

StartNext ==
    \/ StartBoot
    \/ \E b \in Builder : Construct(b) \/ Die(b)
    \/ \E t \in Thread : Serve(t)

StartSpec == StartInit /\ [][StartNext]_allVars

\* Each program runs again and again, and comes to its end unless it is killed.
FairStart == StartSpec /\ \A b \in Program : WF_allVars(Construct(b))

-------------------------------------------------------------------------------
(* Properties *)

\* With the constructor in all its steps and other programs at work, the process
\* still behaves as Connection says, so that what is proved there holds here.
ImplementsConnection == Spec

\* Once Cassandra is up the schema gets complete, whoever makes which part of it, and
\* also when a program was killed after it had made some: the next one goes on.
SchemaIsMade == <>[](up => schema = Part)

\* A step in which a constructor ends, but not with a connection and not by a kill.
Fails(b) ==
    /\ stage[b] # "off" /\ stage'[b] = "off" /\ deaths' = deaths
    /\ ~ (stage[b] = "pool" /\ schema = Part)

\* A constructor fails only if another program made a part while it was looking: one
\* that is alone succeeds, whatever part of the schema it finds.
OnlyARaceFails == [][\A b \in Builder : Fails(b) => b \in disturbed]_allVars
===============================================================================
