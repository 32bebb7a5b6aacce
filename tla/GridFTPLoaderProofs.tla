------------------------- MODULE GridFTPLoaderProofs -------------------------
(***************************************************************************)
(* Proofs about the GridFTP loader, for a log of any length and any number *)
(* of failures, signals and rotations.                                     *)
(***************************************************************************)
EXTENDS GridFTPLoader, TLAPS

-------------------------------------------------------------------------------
(* The inductive invariant. *)

Record == Row \cup {NoRow, Truncated}

Types ==
    /\ log \in Seq(Row) /\ written \in Nat
    /\ pickle \in Record /\ last \in Row \cup {NoRow} /\ obj \in Row \cup {NoRow}
    /\ data \in Seq(Row) /\ at \in 0..Len(data)
    /\ scanning \in BOOLEAN

\* The rows of the log are numbered one by one up to the last one written.
LogInv ==
    /\ Len(log) <= written
    /\ \A i \in 1..Len(log) : log[i].id = written - Len(log) + i

\* The rows that were read come in the order they were written.
DataInv == \A i, j \in 1..Len(data) : i < j => data[i].id < data[j].id

\* All the rows there are, on disk and in the pass.
Known == Range(log) \cup Range(data) \cup {pickle, last, obj}

\* None of them was written after the last, and no two have the same number.
KnownInv ==
    /\ \A r \in Known : r.id <= written
    /\ \A r, s \in Known : r.id = s.id /\ r.id > 0 => r = s

\* The log has grown since it was read, or was replaced.
AfterInv == \A r \in Range(log) : r \in Range(data) \/ \A d \in Range(data) : d.id < r.id

\* A pass that has not read the log knows nothing of it.
FreshInv ==
    pc \in {"off", "check", "open"} => at = 0 /\ ~scanning /\ obj = NoRow /\ data = <<>>

\* What a pass that did not get its place from the state file, or gave it up, has to
\* read is behind the record of that file.
BeginInv ==
    /\ pc = "check" => last = pickle /\ last # NoRow
    /\ pc = "open" => pickle # Truncated /\ last \in {pickle, NoRow}
    /\ pc = "open" /\ last = NoRow => \A r \in Range(log) : r.id > pickle.id

Looping == pc \in {"scan", "describe", "publish"}

\* A pass that looks for its place finds it, or all it passes over is accounted for.
PlaceInv ==
    Looping =>
        /\ pickle # Truncated /\ last \in {pickle, NoRow}
        /\ last = NoRow => \A r \in Range(data) : r.id > pickle.id
        /\ last # NoRow =>
             /\ scanning => \E k \in 1..at : data[k] = last
             /\ \/ Range(data) \subseteq lost
                \/ /\ IsTransfer(last)
                   /\ \E k \in 1..Len(data) : data[k] = last /\ (k <= at => scanning)

Posting == pc \in {"describe", "publish"}

\* A transfer that is still in the log has been posted, or its pass is accounted for.
Done(r) == r.kind = "transfer" /\ r \in Range(log) => r \in tried \cup lost

\* Of the rows that were looked at, the transfers were posted, but for the one at
\* hand and the one whose description was refused.
CoverInv ==
    pc \in {"scan", "describe", "publish", "finish", "dump"} =>
        /\ obj # NoRow => \E k \in 1..at : data[k] = obj
        /\ Posting => at > 0 /\ obj = data[at]
        /\ \A i \in 1..at :
             \/ Done(data[i])
             \/ Posting /\ i = at
             \/ pc = "finish" /\ obj = NoRow

LoaderInv ==
    /\ Types /\ LogInv /\ DataInv /\ KnownInv /\ AfterInv /\ FreshInv /\ BeginInv
    /\ PlaceInv /\ CoverInv /\ NothingTwice /\ NotAhead
-------------------------------------------------------------------------------
(* The steps, by what they change. *)

\* The pass is over; the state file stays or is deleted.
Ends == Exit /\ pickle' \in {pickle, NoRow} /\ UNCHANGED <<log, written, tried, lost>>

\* The last record is looked for.
Looks ==
    /\ pc = "check" /\ pc' = "open"
    /\ \/ last \in Range(log) /\ last' = last
       \/ last \notin Range(log) /\ last' = NoRow
    /\ UNCHANGED <<log, written, pickle, data, at, scanning, obj, tried, lost>>

\* A row is read, and passed over or going to be posted.
Reads ==
    /\ pc = "scan" /\ at < Len(data) /\ at' = at + 1
    /\ LET row == data[at + 1]
       IN  /\ obj' = IF row.kind = "malformed" THEN obj ELSE row
           /\ scanning' = (scanning \/ (IsTransfer(row) /\ row = last))
           /\ pc' = IF IsTransfer(row) /\ ~Resuming(row) /\ HasMetadataArgs(row)
                    THEN "describe" ELSE "scan"
    /\ UNCHANGED <<log, written, pickle, last, data, tried, lost>>

\* The record is in the state file.
Saves ==
    /\ pc = "dump" /\ pc' = "unlink" /\ pickle' = obj
    /\ UNCHANGED <<log, written, last, data, at, scanning, obj, tried, lost>>

\* Nothing of the log, the pass and the state file changes.
Rests ==
    /\ pc' = pc
    /\ UNCHANGED <<log, written, pickle, last, data, at, scanning, obj, tried, lost>>

\* Every step is one of these.
LEMMA Steps ==
    [Next]_vars =>
        \/ WriteRow \/ Rotate \/ Start \/ Open \/ Describe \/ Halt \/ Publish
        \/ EndOfLog \/ Finish \/ Ends \/ Looks \/ Reads \/ Saves \/ Rests
<1>1. CASE CheckLastRecord
  <2>1. Exit => Ends
    BY <1>1 DEF CheckLastRecord, Ends, environment
  <2>2. ~ Exit => Looks
    BY <1>1 DEF CheckLastRecord, Looks, NotFound, environment, pass
  <2>3. QED
    BY <2>1, <2>2
<1>2. CASE Scan
  <2>1. CASE Unreadable(data[at + 1])
    BY <1>2, <2>1 DEF Scan, Ends, environment
  <2>2. CASE ~ Unreadable(data[at + 1])
    BY <1>2, <2>2 DEF Scan, Reads, environment
  <2>3. QED
    BY <2>1, <2>2
<1>3. CASE Save
  <2>1. CASE python = 2
    BY <1>3, <2>1 DEF Save, Saves, environment, pass
  <2>2. CASE python # 2
    BY <1>3, <2>2 DEF Save, Ends, environment
  <2>3. QED
    BY <2>1, <2>2
<1>4. CASE Unlink
  BY <1>4 DEF Unlink, Ends, environment
<1>5. CASE Kill
  BY <1>5 DEF Kill, Ends, environment
<1>6. CASE Interrupt
  BY <1>6 DEF Interrupt, Rests, environment
<1>7. CASE UNCHANGED vars
  BY <1>7 DEF vars, Rests, environment, pass
<1>8. CASE NoValues
  BY <1>8 DEF NoValues, Ends, environment
<1>9. CASE Refuse \/ DescribeFails
  BY <1>9 DEF Refuse, DescribeFails
<1>10. QED
  BY <1>1, <1>2, <1>3, <1>4, <1>5, <1>6, <1>7, <1>8, <1>9 DEF Next, Loader

-------------------------------------------------------------------------------
(* The rows. *)

\* The rows of a sequence of them.
LEMMA RowsOf ==
    ASSUME NEW s \in Seq(Row)
    PROVE  /\ Range(s) = {s[i] : i \in 1..Len(s)}
           /\ Range(s) \subseteq Row
           /\ \A r \in Range(s) : r.id \in Nat /\ r.id > 0
           /\ \A i \in 1..Len(s) : s[i] \in Row /\ s[i] \in Range(s) /\ s[i].id \in Nat
<1>1. DOMAIN s = 1..Len(s) /\ Len(s) \in Nat /\ \A i \in 1..Len(s) : s[i] \in Row
  OBVIOUS
<1>2. Range(s) = {s[i] : i \in 1..Len(s)}
  BY <1>1 DEF Range
<1>3. \A r \in Row : r.id \in Nat /\ r.id > 0
  BY LoaderAssumption DEF Row
<1>4. QED
  BY <1>1, <1>2, <1>3

\* A row that is written comes after those of the log.
LEMMA Written ==
    ASSUME Types, WriteRow
    PROVE  \E row \in Row :
             /\ row.id = written + 1 /\ written' = written + 1
             /\ log' = Append(log, row) /\ log' \in Seq(Row)
             /\ Len(log') = Len(log) + 1
             /\ \A i \in 1..Len(log) : log'[i] = log[i]
             /\ log'[Len(log) + 1] = row
             /\ Range(log') = Range(log) \cup {row}
             /\ UNCHANGED <<pickle, pc, last, data, at, scanning, obj, tried, lost>>
<1>1. PICK k \in Kinds : log' = Append(log, [id |-> written + 1, kind |-> k])
  BY DEF WriteRow
<1>2. PICK row : row = [id |-> written + 1, kind |-> k]
  OBVIOUS
<1>3. row \in Row /\ row.id = written + 1
  BY <1>2, LoaderAssumption DEF WriteRow, Row, Types
<1>4. log' = Append(log, row) /\ log \in Seq(Row) /\ Len(log) \in Nat
  BY <1>1, <1>2 DEF Types
<1>5. /\ log' \in Seq(Row) /\ Len(log') = Len(log) + 1
      /\ \A i \in 1..Len(log) : log'[i] = log[i]
      /\ log'[Len(log) + 1] = row
  BY <1>3, <1>4
<1>6. Range(log') = Range(log) \cup {row}
  <2>1. Range(log') = {log'[i] : i \in 1..Len(log')} /\ Range(log) = {log[i] : i \in 1..Len(log)}
    BY <1>4, <1>5, RowsOf
  <2>2. 1..Len(log') = 1..Len(log) \cup {Len(log) + 1}
    BY <1>4, <1>5
  <2>3. QED
    BY <1>5, <2>1, <2>2
<1>7. UNCHANGED <<pickle, pc, last, data, at, scanning, obj, tried, lost>> /\ written' = written + 1
  BY DEF WriteRow, pass
<1>8. QED
  BY <1>3, <1>4, <1>5, <1>6, <1>7

\* Types.
LEMMA TypesNext == Types /\ FreshInv /\ [Next]_vars => Types'
<1> SUFFICES ASSUME Types, FreshInv, [Next]_vars PROVE Types'
  OBVIOUS
<1>1. CASE WriteRow
  BY <1>1, Written DEF Types
<1>2. CASE Rotate
  BY <1>2 DEF Rotate, Types, pass
<1>3. CASE Start
  BY <1>3 DEF Start, Types, environment, Record
<1>4. CASE Open
  <2>1. at = 0 /\ Len(log) \in Nat
    BY <1>4 DEF Open, FreshInv, Types
  <2>2. QED
    BY <1>4, <2>1 DEF Open, Types, environment
<1>5. CASE Describe \/ Halt \/ Publish \/ EndOfLog \/ Rests
  BY <1>5 DEF Describe, Halt, Publish, EndOfLog, Rests, Types, environment, pass, Abort
<1>6. CASE Finish
  BY <1>6 DEF Finish, Types, environment, pass, Record
<1>7. CASE Ends
  <2>1. <<>> \in Seq(Row) /\ 0 \in 0..Len(<<>>)
    OBVIOUS
  <2>2. UNCHANGED <<log, written>> /\ pickle' \in Record
    BY <1>7 DEF Ends, Types, Record
  <2>3. last' = NoRow /\ obj' = NoRow /\ data' = <<>> /\ at' = 0 /\ scanning' = FALSE
    BY <1>7 DEF Ends, Exit
  <2>4. QED
    BY <2>1, <2>2, <2>3 DEF Types
<1>8. CASE Looks
  BY <1>8 DEF Looks, Types
<1>9. CASE Reads
  <2>1. data[at + 1] \in Row /\ at' \in 0..Len(data)
    BY <1>9 DEF Reads, Types
  <2>2. obj' \in Row \cup {NoRow} /\ scanning' \in BOOLEAN
    BY <1>9, <2>1 DEF Reads, Types
  <2>3. QED
    BY <1>9, <2>1, <2>2 DEF Reads, Types
<1>10. CASE Saves
  BY <1>10 DEF Saves, Types, Record
<1>11. QED
  BY <1>1, <1>2, <1>3, <1>4, <1>5, <1>6, <1>7, <1>8, <1>9, <1>10, Steps

\* The rows of the log are numbered one by one.
LEMMA LogNext == Types /\ LogInv /\ [Next]_vars => LogInv'
<1> SUFFICES ASSUME Types, LogInv, [Next]_vars PROVE LogInv'
  OBVIOUS
<1>1. CASE WriteRow
  <2>1. PICK row \in Row :
            /\ row.id = written + 1 /\ written' = written + 1 /\ Len(log') = Len(log) + 1
            /\ \A i \in 1..Len(log) : log'[i] = log[i]
            /\ log'[Len(log) + 1] = row
    BY <1>1, Written
  <2>2. Len(log) \in Nat /\ written \in Nat
    BY DEF Types
  <2>3. ASSUME NEW i \in 1..Len(log') PROVE log'[i].id = written' - Len(log') + i
    <3>1. CASE i \in 1..Len(log)
      <4>1. log'[i].id = written - Len(log) + i
        BY <2>1, <3>1 DEF LogInv
      <4>2. QED
        BY <2>1, <2>2, <3>1, <4>1
    <3>2. CASE i = Len(log) + 1
      BY <2>1, <2>2, <3>2
    <3>3. QED
      BY <2>1, <2>2, <3>1, <3>2
  <2>4. QED
    BY <2>1, <2>2, <2>3 DEF LogInv
<1>2. CASE Rotate
  BY <1>2 DEF Rotate, Types, LogInv
<1>3. CASE ~ WriteRow /\ ~ Rotate
  <2>1. UNCHANGED <<log, written>>
    BY <1>3, Steps DEF Start, Open, Describe, Halt, Publish, EndOfLog, Finish, Ends,
       Looks, Reads, Saves, Rests, environment
  <2>2. QED
    BY <2>1 DEF LogInv
<1>4. QED
  BY <1>1, <1>2, <1>3

\* What is read is the log, in its order.
LEMMA DataNext == Types /\ LogInv /\ DataInv /\ [Next]_vars => DataInv'
<1> SUFFICES ASSUME Types, LogInv, DataInv, [Next]_vars PROVE DataInv'
  OBVIOUS
<1>1. CASE Open
  <2>1. data' = log
    BY <1>1 DEF Open
  <2>2. ASSUME NEW i \in 1..Len(log), NEW j \in 1..Len(log), i < j
        PROVE  log[i].id < log[j].id
    <3>1. Len(log) \in Nat /\ written \in Nat
      BY DEF Types
    <3>2. log[i].id = written - Len(log) + i /\ log[j].id = written - Len(log) + j
      BY DEF LogInv
    <3>3. written - Len(log) + i < written - Len(log) + j
      BY ONLY <2>2, <3>1
    <3>4. QED
      BY <3>2, <3>3
  <2>3. QED
    BY <2>1, <2>2 DEF DataInv
<1>2. CASE Ends
  BY <1>2 DEF Ends, Exit, DataInv
<1>3. CASE ~ Open /\ ~ Ends
  <2>1. UNCHANGED data
    BY <1>3, Steps, Written DEF Rotate, Start, Describe, Halt, Publish, EndOfLog, Finish,
       Looks, Reads, Saves, Rests, pass
  <2>2. QED
    BY <2>1 DEF DataInv
<1>4. QED
  BY <1>1, <1>2, <1>3

\* The rows there are were there before, but for the one that is written.
LEMMA KnownStep ==
    ASSUME Types, [Next]_vars, ~ WriteRow
    PROVE  Known' \subseteq Known \cup {NoRow, Truncated} /\ written' = written
<1>1. Range(<<>>) = {}
  BY DEF Range
<1>2. CASE Rotate
  BY <1>1, <1>2 DEF Rotate, Known, pass
<1>3. CASE Start \/ Open \/ Describe \/ Halt \/ Publish \/ EndOfLog \/ Finish
  BY <1>3 DEF Start, Open, Describe, Halt, Publish, EndOfLog, Finish, Known,
     environment, pass, Abort
<1>4. CASE Ends
  BY <1>1, <1>4 DEF Ends, Exit, Known
<1>5. CASE Looks \/ Saves \/ Rests
  BY <1>5 DEF Looks, Saves, Rests, Known
<1>6. CASE Reads
  <2>1. data[at + 1] \in Range(data)
    BY <1>6, RowsOf DEF Reads, Types
  <2>2. QED
    BY <1>6, <2>1 DEF Reads, Known
<1>7. QED
  BY <1>2, <1>3, <1>4, <1>5, <1>6, Steps

\* A record has a number.
LEMMA KnownType ==
    ASSUME Types
    PROVE  Known \subseteq Record /\ \A r \in Record : r.id \in Nat
<1>1. \A r \in Record : r.id \in Nat
  BY LoaderAssumption DEF Record, Row, NoRow, Truncated
<1>2. Range(log) \subseteq Row /\ Range(data) \subseteq Row
  BY RowsOf DEF Types
<1>3. QED
  BY <1>1, <1>2 DEF Known, Types, Record

\* Every row keeps its number, and no row gets one that is taken.
LEMMA KnownNext == Types /\ KnownInv /\ [Next]_vars => KnownInv'
<1> SUFFICES ASSUME Types, KnownInv, [Next]_vars PROVE KnownInv'
  OBVIOUS
<1>1. Known \subseteq Record /\ (\A r \in Record : r.id \in Nat) /\ written \in Nat
  BY KnownType DEF Types
<1>2. CASE WriteRow
  <2>1. PICK row \in Row : /\ row.id = written + 1 /\ written' = written + 1
                           /\ Range(log') = Range(log) \cup {row}
                           /\ UNCHANGED <<pickle, last, data, obj>>
    BY <1>2, Written
  <2>2. Known' = Known \cup {row}
    BY <2>1 DEF Known
  <2>3. \A r \in Known : r.id \in Nat /\ r.id <= written
    BY <1>1 DEF KnownInv
  <2>4. \A r \in Known' : r.id <= written'
    BY <1>1, <2>1, <2>2, <2>3
  <2>5. \A r, s \in Known' : r.id = s.id /\ r.id > 0 => r = s
    BY <1>1, <2>1, <2>2, <2>3 DEF KnownInv
  <2>6. QED
    BY <2>4, <2>5 DEF KnownInv
<1>3. CASE ~ WriteRow
  <2>1. Known' \subseteq Known \cup {NoRow, Truncated} /\ written' = written
    BY <1>3, KnownStep
  <2>2. NoRow.id = 0 /\ Truncated.id = 0
    BY DEF NoRow, Truncated
  <2>3. QED
    BY <1>1, <2>1, <2>2 DEF KnownInv
<1>4. QED
  BY <1>2, <1>3

\* The log grows behind what was read.
LEMMA AfterNext == Types /\ KnownInv /\ AfterInv /\ [Next]_vars => AfterInv'
<1> SUFFICES ASSUME Types, KnownInv, AfterInv, [Next]_vars PROVE AfterInv'
  OBVIOUS
<1>1. Range(<<>>) = {}
  BY DEF Range
<1>2. CASE WriteRow
  <2>1. PICK row \in Row : /\ row.id = written + 1
                           /\ Range(log') = Range(log) \cup {row} /\ UNCHANGED data
    BY <1>2, Written
  <2>2. \A d \in Range(data) : d.id \in Nat /\ d.id <= written
    BY KnownType DEF KnownInv, Known
  <2>3. \A d \in Range(data) : d.id < row.id
    BY <2>1, <2>2 DEF Types
  <2>4. QED
    BY <2>1, <2>3 DEF AfterInv
<1>3. CASE Rotate
  BY <1>1, <1>3 DEF Rotate, AfterInv, pass
<1>4. CASE Open
  BY <1>4 DEF Open, AfterInv, environment
<1>5. CASE Ends
  BY <1>1, <1>5 DEF Ends, Exit, AfterInv
<1>6. CASE ~ WriteRow /\ ~ Rotate /\ ~ Open /\ ~ Ends
  <2>1. UNCHANGED <<log, data>>
    BY <1>6, Steps DEF Start, Describe, Halt, Publish, EndOfLog, Finish, Looks, Reads,
       Saves, Rests, environment, pass
  <2>2. QED
    BY <2>1 DEF AfterInv
<1>7. QED
  BY <1>2, <1>3, <1>4, <1>5, <1>6

-------------------------------------------------------------------------------
(* The pass. *)

\* Before the log is read.
LEMMA FreshNext == FreshInv /\ [Next]_vars => FreshInv'
<1> SUFFICES ASSUME FreshInv, [Next]_vars PROVE FreshInv'
  OBVIOUS
<1>1. CASE WriteRow \/ Rotate
  BY <1>1 DEF WriteRow, Rotate, FreshInv, pass
<1>2. CASE Start \/ Looks \/ Rests
  BY <1>2 DEF Start, Looks, Rests, FreshInv
<1>3. CASE Ends
  BY <1>3 DEF Ends, Exit, FreshInv
<1>4. CASE Open \/ Describe \/ Halt \/ Publish \/ EndOfLog \/ Finish \/ Reads \/ Saves
  <2>1. pc' \notin {"off", "check", "open"}
    BY <1>4 DEF Open, Describe, Halt, Publish, EndOfLog, Finish, Reads, Saves
  <2>2. QED
    BY <2>1 DEF FreshInv
<1>5. QED
  BY <1>1, <1>2, <1>3, <1>4, Steps

\* A record that is not in the log is older than it.
LEMMA RotatedAway ==
    ASSUME Types, LogInv, KnownInv, last \notin Range(log), NEW r \in Range(log)
    PROVE  r.id > last.id
<1>1. PICK i \in 1..Len(log) : r = log[i]
  <2>1. log \in Seq(Row)
    BY DEF Types
  <2>2. Range(log) = {log[i] : i \in 1..Len(log)}
    BY <2>1, RowsOf
  <2>3. QED
    BY <2>2
<1>2. last.id \in Nat /\ last.id <= written /\ written \in Nat /\ Len(log) \in Nat
  <2>1. last \in Known
    BY DEF Known
  <2>2. last.id \in Nat /\ last.id <= written
    BY <2>1, KnownType DEF KnownInv
  <2>3. QED
    BY <2>2 DEF Types
<1>3. SUFFICES ASSUME last.id >= r.id PROVE FALSE
  BY <1>1, <1>2, RowsOf DEF Types
<1>4. PICK j : j = last.id - (written - Len(log))
  OBVIOUS
<1>5. j \in 1..Len(log) /\ log[j].id = last.id
  <2>1. r.id = written - Len(log) + i
    BY <1>1 DEF LogInv
  <2>2. PICK n \in Nat : n = Len(log)
    BY <1>2
  <2>3. PICK l \in Nat : l = last.id
    BY <1>2
  <2>4. l <= written /\ l >= written - n + i /\ i \in 1..n /\ j = l - (written - n)
    BY <1>1, <1>2, <1>3, <1>4, <2>1, <2>2, <2>3
  <2>5. j \in 1..n /\ written - n + j = l
    BY ONLY <1>2, <2>4, n \in Nat, l \in Nat
  <2>6. log[j].id = written - Len(log) + j
    BY <2>2, <2>5 DEF LogInv
  <2>7. QED
    BY <2>2, <2>3, <2>5, <2>6
<1>6. log[j] \in Range(log) /\ log[j].id > 0
  BY <1>5, RowsOf DEF Types
<1>7. log[j] = last
  BY <1>5, <1>6 DEF KnownInv, Known
<1>8. QED
  BY <1>6, <1>7

\* Where a pass begins.
LEMMA BeginNext ==
    Types /\ LogInv /\ KnownInv /\ FreshInv /\ BeginInv /\ [Next]_vars => BeginInv'
<1> SUFFICES ASSUME Types, LogInv, KnownInv, FreshInv, BeginInv, [Next]_vars PROVE BeginInv'
  OBVIOUS
<1>1. pickle.id \in Nat /\ pickle.id <= written /\ written \in Nat
  BY KnownType DEF KnownInv, Known, Types
<1>2. CASE WriteRow
  <2>1. PICK row \in Row : /\ row.id = written + 1
                           /\ Range(log') = Range(log) \cup {row}
                           /\ UNCHANGED <<pc, pickle, last>>
    BY <1>2, Written
  <2>2. row.id > pickle.id
    BY <1>1, <2>1
  <2>3. QED
    BY <2>1, <2>2 DEF BeginInv
<1>3. CASE Rotate
  <2>1. Range(log') = {} /\ UNCHANGED <<pc, pickle, last>>
    BY <1>3 DEF Rotate, pass, Range
  <2>2. QED
    BY <2>1 DEF BeginInv
<1>4. CASE Start
  <2>1. \A r \in Range(log) : r.id > 0
    BY RowsOf DEF Types
  <2>2. NoRow.id = 0
    BY DEF NoRow
  <2>3. QED
    BY <1>4, <2>1, <2>2 DEF Start, BeginInv, environment
<1>5. CASE Looks
  <2>1. last # Truncated
    <3>1. Truncated \notin Row \cup {NoRow}
      BY LoaderAssumption DEF Truncated, Row, NoRow
    <3>2. QED
      BY <3>1 DEF Types
  <2>2. last = pickle /\ UNCHANGED <<pickle, log>> /\ pc' = "open"
    BY <1>5 DEF Looks, BeginInv
  <2>3. last' \in {pickle, NoRow} /\ pickle # Truncated
    BY <1>5, <2>1, <2>2 DEF Looks
  <2>4. last' = NoRow => \A r \in Range(log) : r.id > pickle.id
    BY <1>5, <2>2, RotatedAway DEF Looks, BeginInv
  <2>5. QED
    BY <2>2, <2>3, <2>4 DEF BeginInv
<1>6. CASE Rests
  BY <1>6 DEF Rests, BeginInv
<1>7. CASE \/ Open \/ Describe \/ Halt \/ Publish \/ EndOfLog \/ Finish
           \/ Reads \/ Saves \/ Ends
  <2>1. pc' \notin {"check", "open"}
    BY <1>7 DEF Open, Describe, Halt, Publish, EndOfLog, Finish, Reads, Saves, Ends, Exit
  <2>2. QED
    BY <2>1 DEF BeginInv
<1>8. QED
  BY <1>2, <1>3, <1>4, <1>5, <1>6, <1>7, Steps

\* The place of a pass in what it reads.
LEMMA PlaceNext ==
    Types /\ FreshInv /\ BeginInv /\ PlaceInv /\ [Next]_vars => PlaceInv'
<1> SUFFICES ASSUME Types, FreshInv, BeginInv, PlaceInv, [Next]_vars, Looping' PROVE PlaceInv'
  BY DEF PlaceInv
<1>1. CASE WriteRow \/ Rotate \/ Describe \/ Publish \/ Rests
  <2>1. Looping /\ UNCHANGED <<pickle, last, data, at, scanning, lost>>
    BY <1>1, Written DEF Rotate, Describe, Publish, Rests, pass, Looping
  <2>2. QED
    BY <2>1 DEF PlaceInv
<1>2. CASE Open
  <2>1. /\ pc = "open" /\ data' = log /\ UNCHANGED <<log, pickle, last, at, scanning>>
        /\ lost' = IF last = NoRow \/ (last \in Range(log) /\ IsTransfer(last)) THEN lost
                   ELSE lost \cup Range(log)
    BY <1>2 DEF Open, environment
  <2>2. at = 0 /\ ~scanning
    BY <2>1 DEF FreshInv
  <2>3. pickle # Truncated /\ last \in {pickle, NoRow}
    BY <2>1 DEF BeginInv
  <2>4. last = NoRow => \A r \in Range(log) : r.id > pickle.id
    BY <2>1 DEF BeginInv
  <2>5. last # NoRow =>
          \/ Range(log) \subseteq lost'
          \/ IsTransfer(last) /\ \E k \in 1..Len(log) : log[k] = last
    <3>1. Range(log) = {log[k] : k \in 1..Len(log)}
      BY RowsOf DEF Types
    <3>2. QED
      BY <2>1, <3>1
  <2>6. last' # NoRow =>
          \/ Range(data') \subseteq lost'
          \/ /\ IsTransfer(last')
             /\ \E k \in 1..Len(data') : data'[k] = last' /\ (k <= at' => scanning')
    BY <2>1, <2>2, <2>5
  <2>7. QED
    BY <2>1, <2>2, <2>3, <2>4, <2>6 DEF PlaceInv, IsTransfer
<1>3. CASE Reads
  <2>1. PICK row : row = data[at + 1]
    OBVIOUS
  <2>2. /\ pc = "scan" /\ at' = at + 1 /\ UNCHANGED <<pickle, last, data, lost>>
        /\ scanning' = (scanning \/ (IsTransfer(row) /\ row = last))
    BY <1>3, <2>1 DEF Reads
  <2>3. at \in Nat
    BY DEF Types
  <2>4. scanning' /\ last # NoRow => \E k \in 1..at' : data'[k] = last'
    <3>1. CASE scanning /\ last # NoRow
      BY <2>2, <2>3, <3>1 DEF PlaceInv, Looping
    <3>2. CASE row = last
      <4>1. at + 1 \in 1..at'
        BY <2>2, <2>3
      <4>2. QED
        BY <2>1, <2>2, <3>2, <4>1
    <3>3. QED
      BY <2>2, <3>1, <3>2
  <2>5. last # NoRow =>
          \/ Range(data) \subseteq lost
          \/ IsTransfer(last) /\ \E k \in 1..Len(data) : data[k] = last /\ (k <= at' => scanning')
    <3>1. SUFFICES ASSUME last # NoRow, IsTransfer(last),
                          NEW k \in 1..Len(data), data[k] = last, k <= at => scanning
                   PROVE  k <= at' => scanning'
      BY <2>2 DEF PlaceInv, Looping
    <3>2. CASE k <= at
      BY <2>2, <3>1, <3>2
    <3>3. CASE k = at + 1
      BY <2>1, <2>2, <3>1, <3>3
    <3>4. QED
      BY <2>2, <2>3, <3>2, <3>3
  <2>6. QED
    BY <2>2, <2>4, <2>5 DEF PlaceInv, Looping, IsTransfer
<1>4. CASE Start \/ Halt \/ EndOfLog \/ Finish \/ Ends \/ Looks \/ Saves
  BY <1>4 DEF Start, Halt, EndOfLog, Finish, Ends, Exit, Looks, Saves, Looping
<1>5. QED
  BY <1>1, <1>2, <1>3, <1>4, Steps

\* A row that is going to be posted is behind the record of the state file.
LEMMA TwiceNext == Types /\ DataInv /\ PlaceInv /\ NothingTwice /\ [Next]_vars => NothingTwice'
<1> SUFFICES ASSUME Types, DataInv, PlaceInv, NothingTwice, [Next]_vars, Posting'
             PROVE  obj'.id > pickle'.id
  BY DEF NothingTwice, Posting
<1>1. CASE WriteRow \/ Rotate \/ Describe \/ Rests
  <2>1. Posting /\ UNCHANGED <<pickle, obj>>
    BY <1>1, Written DEF Rotate, Describe, Rests, pass, Posting
  <2>2. QED
    BY <2>1 DEF NothingTwice, Posting
<1>2. CASE Reads
  <2>1. PICK row \in Row : row = data[at + 1] /\ row \in Range(data)
    BY <1>2, RowsOf DEF Reads, Types
  <2>2. /\ pc = "scan" /\ at < Len(data) /\ pickle' = pickle
        /\ IsTransfer(row) /\ ~ Resuming(row) /\ obj' = row
    BY <1>2, <2>1 DEF Reads, Posting, IsTransfer
  <2>3. CASE last = NoRow
    BY <2>1, <2>2, <2>3 DEF PlaceInv, Looping
  <2>4. CASE last # NoRow
    <3>1. scanning /\ last = pickle
      BY <2>2, <2>4 DEF Resuming, PlaceInv, Looping
    <3>2. PICK k \in 1..at : data[k] = last
      BY <2>2, <2>4, <3>1 DEF PlaceInv, Looping
    <3>3. k \in 1..Len(data) /\ at + 1 \in 1..Len(data) /\ k < at + 1
      BY <2>2, <3>2 DEF Types
    <3>4. last.id < row.id /\ last.id \in Nat /\ row.id \in Nat
      BY <2>1, <3>2, <3>3, RowsOf DEF DataInv, Types
    <3>5. QED
      BY <2>2, <3>1, <3>4
  <2>5. QED
    BY <2>3, <2>4
<1>3. CASE Start \/ Open \/ Publish \/ Halt \/ EndOfLog \/ Finish \/ Ends \/ Looks \/ Saves
  BY <1>3 DEF Start, Open, Publish, Halt, EndOfLog, Finish, Ends, Exit, Looks,
     Saves, Posting
<1>4. QED
  BY <1>1, <1>2, <1>3, Steps

\* What is done stays done: rows are only added to the log with numbers of their own.
LEMMA DoneStays ==
    ASSUME Types, KnownInv, [Next]_vars, NEW r \in Range(data), Done(r)
    PROVE  Done(r)'
<1>1. tried \subseteq tried' /\ lost \subseteq lost'
  BY Steps, Written DEF Rotate, Start, Open, Describe, Halt, Publish, EndOfLog, Finish,
     Ends, Looks, Reads, Saves, Rests
<1>2. r \in Range(log') => r \in Range(log)
  <2>1. CASE WriteRow
    <3>1. PICK row \in Row : row.id = written + 1 /\ Range(log') = Range(log) \cup {row}
      BY <2>1, Written
    <3>2. r.id \in Nat /\ r.id <= written /\ written \in Nat
      BY KnownType DEF KnownInv, Known, Types
    <3>3. QED
      BY <3>1, <3>2
  <2>2. CASE Rotate
    BY <2>2 DEF Rotate, Range
  <2>3. CASE ~ WriteRow /\ ~ Rotate
    BY <2>3, Steps DEF Start, Open, Describe, Halt, Publish, EndOfLog, Finish,
       Ends, Looks, Reads, Saves, Rests, environment
  <2>4. QED
    BY <2>1, <2>2, <2>3
<1>3. QED
  BY <1>1, <1>2 DEF Done

\* A transfer that a pass skips, for it is looking for its place, was posted before.
LEMMA SkippedIsDone ==
    ASSUME Types, DataInv, PlaceInv, NotAhead, pc = "scan", at < Len(data),
           Resuming(data[at + 1])
    PROVE  Done(data[at + 1])
<1>1. last # NoRow /\ ~ scanning /\ last = pickle
  BY DEF Resuming, PlaceInv, Looping
<1>2. at + 1 \in 1..Len(data) /\ data[at + 1] \in Range(data)
  BY RowsOf DEF Types
<1>3. CASE Range(data) \subseteq lost
  BY <1>2, <1>3 DEF Done
<1>4. CASE \E k \in 1..Len(data) : data[k] = last /\ (k <= at => scanning)
  <2>1. PICK k \in 1..Len(data) : data[k] = last /\ k > at
    BY <1>1, <1>4 DEF Types
  <2>2. k = at + 1 \/ at + 1 < k
    BY <2>1 DEF Types
  <2>3. data[at + 1].id <= last.id
    <3>1. data[at + 1].id \in Nat /\ data[k].id \in Nat
      BY <1>2, <2>1, RowsOf DEF Types
    <3>2. at + 1 < k => data[at + 1].id < data[k].id
      BY <1>2, <2>1 DEF DataInv
    <3>3. QED
      BY <2>1, <2>2, <3>1, <3>2
  <2>4. QED
    BY <1>1, <2>3 DEF NotAhead, Transfers, Done
<1>5. QED
  BY <1>1, <1>3, <1>4 DEF PlaceInv, Looping

\* What has been looked at.
LEMMA CoverNext ==
    /\ Types /\ DataInv /\ KnownInv /\ FreshInv /\ PlaceInv /\ CoverInv /\ NotAhead /\ [Next]_vars
    => CoverInv'
<1> SUFFICES ASSUME Types, DataInv, KnownInv, FreshInv, PlaceInv, CoverInv, NotAhead, [Next]_vars,
                    (pc \in {"scan", "describe", "publish", "finish", "dump"})'
             PROVE  CoverInv'
  BY DEF CoverInv
<1>1. \A i \in 1..at : data[i] \in Range(data)
  BY RowsOf DEF Types
<1>2. \A i \in 1..at : Done(data[i]) => (\A r : r = data[i] => Done(r)')
  BY <1>1, DoneStays
<1>3. CASE WriteRow \/ Rotate \/ Describe \/ Rests
  <2>1. /\ pc \in {"scan", "describe", "publish", "finish", "dump"} /\ Posting' = Posting
        /\ (pc' = "finish") = (pc = "finish") /\ UNCHANGED <<data, at, obj>>
    BY <1>3, Written DEF Rotate, Describe, Rests, pass, Posting
  <2>2. \A i \in 1..at : Done(data[i]) => Done(data[i])'
    BY <1>2, <2>1
  <2>3. QED
    BY <2>1, <2>2 DEF CoverInv
<1>4. CASE Open
  <2>1. at' = 0 /\ obj' = NoRow /\ pc' = "scan"
    BY <1>4 DEF Open, FreshInv
  <2>2. QED
    BY <2>1 DEF CoverInv, Posting
<1>5. CASE Reads
  <2>1. PICK row \in Row : row = data[at + 1] /\ row \in Range(data)
    BY <1>5, RowsOf DEF Reads, Types
  <2>2. /\ pc = "scan" /\ at < Len(data) /\ at' = at + 1 /\ at \in Nat
        /\ UNCHANGED <<data, log, tried, lost>>
        /\ obj' = IF row.kind = "malformed" THEN obj ELSE row
        /\ pc' = IF IsTransfer(row) /\ ~Resuming(row) /\ HasMetadataArgs(row)
                 THEN "describe" ELSE "scan"
    BY <1>5, <2>1 DEF Reads, Types
  <2>3. obj' # NoRow => \E k \in 1..at' : data'[k] = obj'
    <3>1. CASE obj' = row
      <4>1. at + 1 \in 1..at'
        BY <2>2
      <4>2. QED
        BY <2>1, <2>2, <3>1, <4>1
    <3>2. CASE obj' = obj
      BY <2>2, <3>2 DEF CoverInv
    <3>3. QED
      BY <2>2, <3>1, <3>2
  <2>4. Posting' => at' > 0 /\ obj' = data'[at']
    BY <2>1, <2>2 DEF Posting, IsTransfer
  <2>5. ASSUME NEW i \in 1..at PROVE Done(data[i])'
    <3>1. Done(data[i])
      BY <2>2, <2>5 DEF CoverInv, Posting
    <3>2. QED
      BY <1>2, <2>2, <2>5, <3>1
  <2>6. Done(row)' \/ Posting'
    <3>1. CASE row.kind # "transfer"
      BY <3>1 DEF Done
    <3>2. CASE row.kind = "transfer" /\ ~ Resuming(row)
      BY <2>2, <3>2 DEF IsTransfer, HasMetadataArgs, Posting
    <3>3. CASE Resuming(row)
      <4>1. Done(row)
        BY <2>1, <2>2, <3>3, SkippedIsDone
      <4>2. QED
        BY <2>2, <4>1 DEF Done
    <3>4. QED
      BY <3>1, <3>2, <3>3
  <2>7. ASSUME NEW i \in 1..at' PROVE Done(data[i])' \/ (Posting' /\ i = at')
    <3>1. i \in 1..at \/ i = at + 1
      BY <2>2, <2>7
    <3>2. CASE i \in 1..at
      BY <2>5, <3>2
    <3>3. CASE i = at + 1
      <4>1. row = data'[i]
        BY <2>1, <2>2, <3>3
      <4>2. Posting' => i = at'
        BY <2>2, <3>3
      <4>3. QED
        BY <2>6, <4>1, <4>2
    <3>4. QED
      BY <3>1, <3>2, <3>3
  <2>8. QED
    BY <2>3, <2>4, <2>7 DEF CoverInv
<1>6. CASE Halt
  BY <1>6 DEF Halt, Abort, CoverInv, Posting
<1>7. CASE Publish
  <2>1. /\ pc = "publish" /\ UNCHANGED <<data, at, obj>> /\ tried' = tried \cup {obj}
        /\ pc' \in {"finish", "scan"}
    BY <1>7 DEF Publish, pass
  <2>2. at > 0 /\ obj = data[at]
    BY <2>1 DEF CoverInv, Posting
  <2>3. ASSUME NEW i \in 1..at PROVE Done(data[i])'
    <3>1. CASE i = at
      BY <2>1, <2>2, <3>1 DEF Done
    <3>2. CASE i # at
      <4>1. Done(data[i])
        BY <2>1, <2>3, <3>2 DEF CoverInv
      <4>2. QED
        BY <1>2, <2>1, <2>3, <4>1
    <3>3. QED
      BY <3>1, <3>2
  <2>4. obj' # NoRow => \E k \in 1..at' : data'[k] = obj'
    BY <2>1 DEF CoverInv
  <2>5. QED
    BY <2>1, <2>3, <2>4 DEF CoverInv, Posting
<1>8. CASE EndOfLog
  <2>1. pc = "scan" /\ pc' = "finish" /\ UNCHANGED <<data, at, obj, log, tried, lost>>
    BY <1>8 DEF EndOfLog, pass, environment
  <2>2. \A i \in 1..at : Done(data[i])'
    BY <2>1 DEF CoverInv, Posting, Done
  <2>3. QED
    BY <2>1, <2>2 DEF CoverInv, Posting
<1>9. CASE Finish
  <2>1. /\ pc = "finish" /\ pc' = "dump" /\ obj # NoRow
        /\ UNCHANGED <<data, at, obj, log, tried, lost>>
    BY <1>9 DEF Finish, pass, environment
  <2>2. \A i \in 1..at : Done(data[i])'
    BY <2>1 DEF CoverInv, Posting, Done
  <2>3. QED
    BY <2>1, <2>2 DEF CoverInv, Posting
<1>10. CASE Start \/ Ends \/ Looks \/ Saves
  BY <1>10 DEF Start, Ends, Exit, Looks, Saves
<1>11. QED
  BY <1>3, <1>4, <1>5, <1>6, <1>7, <1>8, <1>9, <1>10, Steps

\* The state file gets the record of a pass that has posted what comes before it.
LEMMA AheadNext ==
    Types /\ DataInv /\ KnownInv /\ AfterInv /\ CoverInv /\ NotAhead /\ [Next]_vars => NotAhead'
<1> SUFFICES ASSUME Types, DataInv, KnownInv, AfterInv, CoverInv, NotAhead, [Next]_vars
             PROVE  NotAhead'
  OBVIOUS
<1>1. tried \subseteq tried' /\ lost \subseteq lost'
  BY Steps, Written DEF Rotate, Start, Open, Describe, Halt, Publish, EndOfLog, Finish,
     Ends, Looks, Reads, Saves, Rests
<1>2. \A r \in Range(log) : r.id \in Nat /\ r.id > 0
  BY RowsOf DEF Types
<1>3. CASE WriteRow
  <2>1. PICK row \in Row : /\ row.id = written + 1 /\ pickle' = pickle
                           /\ Range(log') = Range(log) \cup {row}
    BY <1>3, Written
  <2>2. pickle.id \in Nat /\ pickle.id <= written /\ written \in Nat
    BY KnownType DEF KnownInv, Known, Types
  <2>3. ~ (row.id <= pickle.id)
    BY <2>1, <2>2
  <2>4. QED
    BY <1>1, <2>1, <2>3 DEF NotAhead, Transfers
<1>4. CASE Rotate
  <2>1. Range(log') = {}
    BY <1>4 DEF Rotate, Range
  <2>2. QED
    BY <2>1 DEF NotAhead, Transfers
<1>5. CASE Saves
  <2>1. pc = "dump" /\ pickle' = obj /\ UNCHANGED <<log, tried, lost>>
    BY <1>5 DEF Saves
  <2>2. ASSUME NEW r \in Range(log), r.kind = "transfer", r.id <= obj.id
        PROVE  r \in tried \cup lost
    <3>1. obj # NoRow
      BY <1>2, <2>2 DEF NoRow
    <3>2. PICK k \in 1..at : data[k] = obj
      BY <2>1, <3>1 DEF CoverInv
    <3>3. k \in 1..Len(data) /\ obj \in Range(data) /\ obj.id \in Nat
      BY <3>2, RowsOf DEF Types
    <3>4. r \in Range(data)
      BY <1>2, <2>2, <3>3 DEF AfterInv
    <3>5. PICK i \in 1..Len(data) : data[i] = r
      BY <3>4, RowsOf DEF Types
    <3>6. i <= k
      BY <1>2, <2>2, <3>2, <3>3, <3>5 DEF DataInv
    <3>7. i \in 1..at
      BY <3>2, <3>3, <3>5, <3>6 DEF Types
    <3>8. Done(data[i])
      BY <2>1, <3>7 DEF CoverInv, Posting
    <3>9. QED
      BY <2>2, <3>5, <3>8 DEF Done
  <2>3. QED
    BY <2>1, <2>2 DEF NotAhead, Transfers
<1>6. CASE ~ WriteRow /\ ~ Rotate /\ ~ Saves
  <2>1. log' = log /\ pickle' \in {pickle, NoRow, Truncated}
    BY <1>6, Steps DEF Start, Open, Describe, Halt, Publish, EndOfLog, Finish,
       Ends, Looks, Reads, Rests, environment
  <2>2. NoRow.id = 0 /\ Truncated.id = 0
    BY DEF NoRow, Truncated
  <2>3. QED
    BY <1>1, <1>2, <2>1, <2>2 DEF NotAhead, Transfers
<1>7. QED
  BY <1>3, <1>4, <1>5, <1>6

-------------------------------------------------------------------------------
\* All of it holds before the first pass.
LEMMA LoaderInit == Init => LoaderInv
<1> SUFFICES ASSUME Init PROVE LoaderInv
  OBVIOUS
<1>1. Types
  <2>1. <<>> \in Seq(Row) /\ 0 \in 0..Len(<<>>)
    OBVIOUS
  <2>2. QED
    BY <2>1 DEF Init, Types, Record
<1>2. Range(log) = {} /\ Range(data) = {}
  BY DEF Init, Range
<1>3. LogInv /\ DataInv
  BY DEF Init, LogInv, DataInv
<1>4. KnownInv
  <2>1. Known = {NoRow} /\ written = 0
    BY <1>2 DEF Init, Known
  <2>2. QED
    BY <2>1 DEF KnownInv, NoRow
<1>5. AfterInv /\ NotAhead
  BY <1>2 DEF AfterInv, NotAhead, Transfers
<1>6. FreshInv /\ BeginInv /\ PlaceInv /\ CoverInv /\ NothingTwice
  BY DEF Init, FreshInv, BeginInv, PlaceInv, CoverInv, NothingTwice, Looping
<1>7. QED
  BY <1>1, <1>3, <1>4, <1>5, <1>6 DEF LoaderInv

\* And it is kept by every step.
LEMMA LoaderNext == LoaderInv /\ [Next]_vars => LoaderInv'
BY TypesNext, LogNext, DataNext, KnownNext, AfterNext, FreshNext, BeginNext, PlaceNext, CoverNext,
   TwiceNext, AheadNext DEF LoaderInv

\* Whatever crashes, signals, rotations and refused descriptions come between, the
\* state file never gets ahead of what the loader has posted.
THEOREM StateIsNotAhead == Spec => []NotAhead
<1>1. LoaderInv => NotAhead
  BY DEF LoaderInv
<1>2. QED
  BY <1>1, LoaderInit, LoaderNext, PTL DEF Spec

\* As long as the state file is kept, no pass posts a row again that is behind it.
THEOREM NoRowTwice == Spec => []NothingTwice
<1>1. LoaderInv => NothingTwice
  BY DEF LoaderInv
<1>2. QED
  BY <1>1, LoaderInit, LoaderNext, PTL DEF Spec
==============================================================================
