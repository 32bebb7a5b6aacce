------------------------------ MODULE Connection ------------------------------
(***************************************************************************)
(* The connection to Cassandra of one server process: the global db of     *)
(* api_v2, made when the module is imported or, when Cassandra is not up   *)
(* yet, by check_connection() in the first requests.  The threads of the   *)
(* process share it without a lock, and read it anew at every use.         *)
(*                                                                         *)
(* A connection is known by who made it: the import or a thread.  What a   *)
(* request writes is known by its thread and the number of the row.        *)
(***************************************************************************)
EXTENDS Naturals, FiniteSets

CONSTANTS
    Thread,  \* the threads of the process, each with one request to write
    None,    \* no connection
    Import,  \* the connection made by the import of the module
    MaxRows  \* rows a request writes

ASSUME ConnectionAssumption ==
    /\ MaxRows \in Nat \ {0} /\ IsFiniteSet(Thread)
    /\ None \notin Thread /\ Import \notin Thread /\ None # Import

Handle == Thread \cup {Import}
Write == Thread \X (1..MaxRows)

VARIABLES
    up,       \* Cassandra is up
    imported, \* the module is imported, and requests are served
    db,       \* the global db
    cfMap,    \* EVENT_TYPE_CF_MAP is defined
    made,     \* the connections that were opened
    batch,    \* the unsent writes of each connection
    stored,   \* the writes in Cassandra
    pc, row, answer,
    ready     \* history: threads that found the map when they began

global == <<imported, db, cfMap>>
local == <<pc, row, answer, ready>>
vars == <<up, global, made, batch, stored, local>>

Init ==
    /\ up \in BOOLEAN
    /\ imported = FALSE
    /\ db = None /\ cfMap = FALSE
    /\ made = {}
    /\ batch = [h \in Handle |-> {}]
    /\ stored = {}
    /\ pc = [t \in Thread |-> "idle"]
    /\ row = [t \in Thread |-> 1]
    /\ answer = [t \in Thread |-> "none"]
    /\ ready = {}

\* Cassandra comes up.
Boot == ~ up /\ up' = TRUE /\ UNCHANGED <<global, made, batch, stored, local>>

\* The module is imported; a ConnectionException leaves db None.
Load ==
    /\ ~ imported
    /\ imported' = TRUE
    /\ IF up THEN db' = Import /\ cfMap' = TRUE /\ made' = made \cup {Import}
             ELSE UNCHANGED <<db, cfMap, made>>
    /\ UNCHANGED <<up, batch, stored, local>>

Finish(t, code) ==
    /\ pc' = [pc EXCEPT ![t] = "done"]
    /\ answer' = [answer EXCEPT ![t] = code]

\* check_connection() tests the global ...
Check(t) ==
    /\ imported /\ pc[t] = "idle"
    /\ pc' = [pc EXCEPT ![t] = IF db = None THEN "connect" ELSE "write"]
    /\ ready' = IF cfMap THEN ready \cup {t} ELSE ready
    /\ UNCHANGED <<up, global, made, batch, stored, row, answer>>

\* ... opens a connection, which takes a while, or raises: Cassandra is down, or
\* another program is making the schema (Startup) ...
Connect(t) ==
    /\ pc[t] = "connect"
    /\ \/ /\ up
          /\ made' = made \cup {t}
          /\ pc' = [pc EXCEPT ![t] = "assign"]
          /\ UNCHANGED answer
       \/ /\ Finish(t, "500")
          /\ UNCHANGED made
    /\ UNCHANGED <<up, global, batch, stored, row, ready>>

\* Mutant of Assign: the map is cleared with every new connection.
AssignClearsMap(t) ==
    /\ pc[t] = "assign"
    /\ db' = t /\ cfMap' = FALSE
    /\ pc' = [pc EXCEPT ![t] = "map"]
    /\ UNCHANGED <<up, imported, made, batch, stored, row, answer, ready>>

\* ... assigns it, whatever another thread has assigned meanwhile ...
Assign(t) ==
    /\ pc[t] = "assign"
    /\ db' = t
    /\ pc' = [pc EXCEPT ![t] = "map"]
    /\ UNCHANGED <<up, imported, cfMap, made, batch, stored, row, answer, ready>>

\* ... and defines the map of column families.
DefineMap(t) ==
    /\ pc[t] = "map"
    /\ cfMap' = TRUE
    /\ pc' = [pc EXCEPT ![t] = "write"]
    /\ UNCHANGED <<up, imported, db, made, batch, stored, row, answer, ready>>

\* Mutant of WriteRow: the last row is not written.
WriteRowShort(t) ==
    /\ pc[t] = "write"
    /\ \/ /\ cfMap /\ row[t] < MaxRows
          /\ batch' = [batch EXCEPT ![db] = @ \cup {<<t, row[t]>>}]
          /\ row' = [row EXCEPT ![t] = @ + 1]
          /\ UNCHANGED pc
       \/ /\ cfMap /\ row[t] >= MaxRows
          /\ pc' = [pc EXCEPT ![t] = "flush"]
          /\ UNCHANGED <<batch, row>>
    /\ UNCHANGED <<up, global, made, stored, answer, ready>>

\* save() and database_write(): a NameError without the map, else a row goes into
\* the batch of the connection that db is now.
WriteRow(t) ==
    /\ pc[t] = "write"
    /\ \/ /\ ~ cfMap
          /\ Finish(t, "500")
          /\ UNCHANGED <<batch, row>>
       \/ /\ cfMap /\ row[t] <= MaxRows
          /\ batch' = [batch EXCEPT ![db] = @ \cup {<<t, row[t]>>}]
          /\ row' = [row EXCEPT ![t] = @ + 1]
          /\ UNCHANGED <<pc, answer>>
       \/ /\ cfMap /\ row[t] > MaxRows
          /\ pc' = [pc EXCEPT ![t] = "flush"]
          /\ UNCHANGED <<batch, row, answer>>
    /\ UNCHANGED <<up, global, made, stored, ready>>

\* db.flush() sends the batches of the connection that db is now.
Flush(t) ==
    /\ pc[t] = "flush"
    /\ stored' = stored \cup batch[db]
    /\ batch' = [batch EXCEPT ![db] = {}]
    /\ Finish(t, "201")
    /\ UNCHANGED <<up, global, made, row, ready>>

Step(t) ==
    \/ Check(t) \/ Connect(t) \/ Assign(t) \/ DefineMap(t) \/ WriteRow(t) \/ Flush(t)

Stopped == (\A t \in Thread : pc[t] = "done") /\ UNCHANGED vars

Next == Boot \/ Load \/ (\E t \in Thread : Step(t)) \/ Stopped

Spec == Init /\ [][Next]_vars

-------------------------------------------------------------------------------
(* Properties. *)

Stored(t) == \A i \in 1..MaxRows : <<t, i>> \in stored

\* As long as the process has opened one connection only, a request answered 201
\* is in Cassandra, whoever flushed it.
OneConnectionLosesNothing ==
    Cardinality(made) <= 1 =>
        \A t \in Thread : answer[t] = "201" => Stored(t)

\* What a request answered 201 wrote is in Cassandra or in the batch of a
\* connection that was given up for another: nothing else loses a write.
OnlyAnOrphanLoses ==
    \A t \in Thread : answer[t] = "201" =>
        \A i \in 1..MaxRows :
            \/ <<t, i>> \in stored
            \/ \E h \in made \ {db} : <<t, i>> \in batch[h]

\* A request that begins once the connection and the map are there is served,
\* although other threads may still replace the connection.
ReadyIsServed == \A t \in ready : answer[t] # "500"

\* Types; a thread that writes has a connection to write to.
TypeOK ==
    /\ db \in Handle \cup {None}
    /\ made \subseteq Handle /\ (db # None => db \in made)
    /\ batch \in [Handle -> SUBSET Write] /\ stored \subseteq Write
    /\ \A t \in Thread : pc[t] \in {"map", "write", "flush"} => db # None
    /\ row \in [Thread -> 1..(MaxRows + 1)] /\ ready \subseteq Thread
    /\ answer \in [Thread -> {"none", "201", "500"}]
===============================================================================
