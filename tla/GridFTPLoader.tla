---------------------------- MODULE GridFTPLoader ----------------------------
(***************************************************************************)
(* esmond-ps-load-gridftp, run by cron over a log that a GridFTP server    *)
(* writes and logrotate replaces.  A pass reads the record at which the    *)
(* last one ended from its state file, looks for it in the log, reads the  *)
(* log again and posts, for each transfer after that record, a description *)
(* and then the values; at its end it remembers the record it saw last.    *)
(*                                                                         *)
(* No two rows of a log are equal, for they carry their time: a row is     *)
(* known by its number and its kind.                                       *)
(***************************************************************************)
EXTENDS Integers, Sequences, Functions

CONSTANTS
    MaxRows,      \* how many rows the server writes
    MaxFaults     \* failures, signals and rotations

ASSUME LoaderAssumption == MaxRows \in Nat /\ MaxFaults \in Nat

\* A transfer; a row of another type; a transfer that lacks what its description needs
\* (a host with an address; in json, a host, or RETR or STOR as its cmd_type); one that
\* lacks what its values are computed from (its start, its size); a row that cannot be
\* parsed.
Kinds == {"transfer", "other", "unusable", "valueless", "malformed"}
Row == [id : 1..MaxRows, kind : Kinds]
NoRow == [id |-> 0, kind |-> "none"]
Truncated == [id |-> 0, kind |-> "truncated"]

VARIABLES
    json,         \* whether the log is in the json format
    python,       \* 2 or 3: setup.py takes both
    log,          \* the rows of the file
    written,      \* how many rows there have been
    pickle,       \* the state file: a row, NoRow if it is not there, Truncated if it is empty
    pc,           \* "off", "check", "open", "scan", "describe", "publish", "finish", "dump", "unlink"
    write, delete,\* the options --dont_write, negated, and --delete_state
    last,         \* last_record
    data, at,     \* the rows that were read, and how many of them were looked at
    scanning, obj, interrupted,
    faults,
    tried,        \* the rows whose values were posted, well or not
    lost          \* the rows of the passes that could not find their place

environment == <<json, python, log, written>>
pass == <<write, delete, last, data, at, scanning, obj, interrupted>>
vars == <<environment, pickle, pc, pass, faults, tried, lost>>

Init ==
    /\ json \in BOOLEAN /\ python \in {2, 3}
    /\ log = <<>> /\ written = 0
    /\ pickle = NoRow
    /\ pc = "off"
    /\ write = TRUE /\ delete = FALSE /\ last = NoRow /\ data = <<>> /\ at = 0
    /\ scanning = FALSE /\ obj = NoRow /\ interrupted = FALSE
    /\ faults = 0 /\ tried = {} /\ lost = {}

Fault == faults < MaxFaults /\ faults' = faults + 1

-------------------------------------------------------------------------------
(* The server, and the system *)

\* A row gets into the file in one piece.
WriteRow ==
    /\ written < MaxRows
    /\ written' = written + 1
    /\ \E k \in Kinds : log' = Append(log, [id |-> written + 1, kind |-> k])
    /\ UNCHANGED <<json, python, pickle, pc, pass, faults, tried, lost>>

\* logrotate: a new file, under the old name.
Rotate ==
    /\ log # <<>> /\ Fault
    /\ log' = <<>>
    /\ UNCHANGED <<json, python, written, pickle, pc, pass, tried, lost>>

\* The first SIGINT is remembered.
Interrupt ==
    /\ pc \in {"scan", "describe", "publish"} /\ ~interrupted /\ Fault
    /\ interrupted' = TRUE
    /\ UNCHANGED <<environment, pickle, pc, write, delete, last, data, at, scanning, obj, tried, lost>>

\* What a pass knows goes with it.
Exit ==
    /\ pc' = "off"
    /\ write' = TRUE /\ delete' = FALSE /\ last' = NoRow /\ data' = <<>> /\ at' = 0
    /\ scanning' = FALSE /\ obj' = NoRow /\ interrupted' = FALSE

Kill ==
    /\ pc # "off" /\ Fault
    /\ Exit
    /\ UNCHANGED <<environment, pickle, tried, lost>>

-------------------------------------------------------------------------------
(* main *)

\* An empty state file cannot be read, and the pass is over.
Start ==
    /\ pc = "off" /\ pickle # Truncated
    /\ write' \in BOOLEAN /\ delete' \in BOOLEAN
    /\ last' = pickle
    /\ pc' = IF pickle = NoRow THEN "open" ELSE "check"
    /\ UNCHANGED <<environment, pickle, data, at, scanning, obj, interrupted, faults, tried, lost>>

\* LogEntryDataObject raises an exception for a row it cannot split; of json, the
\* row is no record.
Unreadable(row) == ~json /\ row.kind = "malformed"

\* Mutant of NotFound: a file without the last record is not read.
NotFoundStops == Exit

\* The log must have been rotated: it is read from its beginning.
NotFound ==
    /\ last' = NoRow /\ pc' = "open"
    /\ UNCHANGED <<write, delete, data, at, scanning, obj, interrupted>>

\* Is the last record in the file?  Its rows are read up to the one looked for.
CheckLastRecord ==
    /\ pc = "check"
    /\ LET rows == Range(log)
       IN  \/ /\ \E r \in rows : Unreadable(r) /\ (last \in rows => r.id < last.id)
              /\ Exit
           \/ /\ \A r \in rows : Unreadable(r) => last \in rows /\ r.id > last.id
              /\ IF last \in rows THEN pc' = "open" /\ UNCHANGED pass ELSE NotFound
    /\ UNCHANGED <<environment, pickle, faults, tried, lost>>

IsTransfer(row) == row.kind \in {"transfer", "unusable", "valueless"}

\* The file is read again.
Open ==
    /\ pc = "open"
    /\ data' = log
    /\ pc' = "scan"
    /\ lost' = IF last = NoRow \/ (last \in Range(log) /\ IsTransfer(last)) THEN lost
               ELSE lost \cup Range(log)
    /\ UNCHANGED <<environment, pickle, write, delete, last, at, scanning, obj, interrupted, faults, tried>>

-------------------------------------------------------------------------------
(* scan_and_load_netlogger and scan_and_load_json *)

\* Mutant of Resuming: the last record is loaded again.
ResumingAt(row) == last # NoRow /\ ~scanning /\ row # last

\* Rows up to the last record are passed over, that one included.
Resuming(row) == last # NoRow /\ ~scanning

\* _generate_metadata_args: a host that _convert_host finds no address for raises an
\* exception, and the row is skipped.  Of json nothing is converted, ...
HasMetadataArgs(row) == json \/ row.kind # "unusable"

\* ... and _validate of MetadataPost refuses what is not there, in every pass.
Refused(row) == json /\ row.kind = "unusable"

\* The next row: obj is set before it is known whether the row counts.
Scan ==
    /\ pc = "scan" /\ at < Len(data)
    /\ LET row == data[at + 1]
       IN  IF Unreadable(row) THEN Exit
           ELSE /\ at' = at + 1
                /\ obj' = IF row.kind = "malformed" THEN obj ELSE row
                /\ scanning' = (scanning \/ (IsTransfer(row) /\ row = last))
                /\ pc' = IF IsTransfer(row) /\ ~Resuming(row) /\ HasMetadataArgs(row)
                         THEN "describe" ELSE "scan"
                /\ UNCHANGED <<write, delete, last, data, interrupted>>
    /\ UNCHANGED <<environment, pickle, faults, tried, lost>>

Describe ==
    /\ pc = "describe" /\ ~Refused(obj)
    /\ pc' = "publish"
    /\ UNCHANGED <<environment, pickle, pass, faults, tried, lost>>

\* Mutant of Abort: what was loaded so far is remembered.
AbortHere == UNCHANGED obj

\* MetadataPostException: the function returns None.
Abort == obj' = NoRow

Halt ==
    /\ pc = "describe"
    /\ Abort
    /\ pc' = "finish"
    /\ UNCHANGED <<environment, pickle, write, delete, last, data, at, scanning, interrupted, tried, lost>>

Refuse == Refused(obj) /\ Halt /\ UNCHANGED faults

\* The archive does not answer, or not well.
DescribeFails == Fault /\ Halt

\* Whether the archive takes the values or not, the loop goes on; after a signal it
\* ends here.  (Option --single takes the same way out.)
Publish ==
    /\ pc = "publish" /\ obj.kind # "valueless"
    /\ tried' = tried \cup {obj}
    /\ pc' = IF interrupted THEN "finish" ELSE "scan"
    /\ UNCHANGED <<environment, pickle, pass, faults, lost>>

\* Values that cannot be computed: nobody handles the exception.
NoValues ==
    /\ pc = "publish" /\ obj.kind = "valueless"
    /\ Exit
    /\ UNCHANGED <<environment, pickle, faults, tried, lost>>

EndOfLog ==
    /\ pc = "scan" /\ at = Len(data)
    /\ pc' = "finish"
    /\ UNCHANGED <<environment, pickle, pass, faults, tried, lost>>

-------------------------------------------------------------------------------
(* The end of main *)

\* to_pickle opens the file, which empties it.
Finish ==
    /\ pc = "finish"
    /\ IF obj # NoRow /\ write THEN pickle' = Truncated /\ pc' = "dump"
       ELSE UNCHANGED pickle /\ pc' = "unlink"
    /\ UNCHANGED <<environment, pass, faults, tried, lost>>

\* pickle writes bytes: Python 3 does not take them for a file opened with 'w'.
Save ==
    /\ pc = "dump"
    /\ IF python = 2 THEN pickle' = obj /\ pc' = "unlink" /\ UNCHANGED pass
       ELSE UNCHANGED pickle /\ Exit
    /\ UNCHANGED <<environment, faults, tried, lost>>

Unlink ==
    /\ pc = "unlink"
    /\ pickle' = IF delete THEN NoRow ELSE pickle
    /\ Exit
    /\ UNCHANGED <<environment, faults, tried, lost>>

Loader ==
    \/ Start \/ CheckLastRecord \/ Open \/ Scan
    \/ Describe \/ Refuse \/ Publish \/ NoValues \/ EndOfLog \/ Finish \/ Save \/ Unlink

Next == Loader \/ DescribeFails \/ WriteRow \/ Rotate \/ Interrupt \/ Kill

Spec == Init /\ [][Next]_vars

\* cron starts a pass again and again, and a pass that is not killed goes on.
FairSpec == Spec /\ WF_vars(Loader)

-------------------------------------------------------------------------------
(* Properties *)

Transfers(rows) == {r \in rows : r.kind = "transfer"}

\* Crashes, signals, rotations and refused descriptions: the state file never gets
\* ahead of what was loaded.  Every transfer of the log up to the record it holds has
\* been posted, except by a pass that could not find its place, because the record
\* it looked for is no transfer or was rotated away after the check.
NotAhead ==
    \A r \in Transfers(Range(log)) : r.id <= pickle.id => r \in tried \cup lost

\* As long as the state file is kept, no pass posts a row again that is behind it.
NothingTwice == pc \in {"describe", "publish"} => obj.id > pickle.id

\* A row that ends each pass that comes to it, and leaves the state file as it is.
Blocks(row) == Refused(row) \/ row.kind = "valueless"

\* The loader cannot get to row n: its state file is empty, or a row of the log cannot be
\* split, or a row between the place in the state file and n ends each pass.
Stuck(n) ==
    \/ pickle = Truncated
    \/ \E r \in Range(log) : Unreadable(r)
    \/ \E r \in Range(log) : Blocks(r) /\ pickle.id < r.id /\ r.id < n

\* Every transfer is posted at last, unless it was rotated away before, or passed over
\* by a pass that could not find its place, or the loader is stuck before it.  Stuck it
\* is for good: one row whose description is refused, or whose values cannot be
\* computed, holds up all the transfers behind it until the log is rotated.
Drained ==
    \A n \in 1..MaxRows :
        LET r == [id |-> n, kind |-> "transfer"]
        IN  r \in Range(log) ~> r \in tried \cup lost \/ r \notin Range(log) \/ Stuck(n)
===============================================================================
