# esmond in TLA+

A verification project for the perfSONAR measurement archive: TLA+ modules
translated from the Python sources, TLC configurations that check them on small
instances, and proofs, checked by TLAPS, of the properties that matter most for
every instance.  Paths are relative to the repository; `api_v2.py` is
`esmond/api/perfsonar/api_v2.py`, `validators.py` is
`esmond/api/perfsonar/validators.py`, `cassandra.py` is `esmond/cassandra.py`,
`query.py` and `post.py` are those of `esmond/api/client/perfsonar/`.
`PROJECT.json` maps every definition that models code to its lines.

## 1. The system

esmond stores network measurements.  A client registers a *measurement* (a
metadata object: a subject, event types with their summaries, parameters) and
then publishes values for its event types.  Metadata lives in a relational
database, values in Cassandra, in three column families:

| column family | holds | kind |
|---|---|---|
| `raw_data` | histograms, JSON, subintervals, statistics | columns, last client timestamp wins |
| `base_rates` | integers and their sums | counters |
| `rate_aggregations` | floats, percentages, averages | pairs of counters (value, count) |

The archive runs under mod_wsgi with 10 processes of 5 threads
(`rpm/config_files/apache-esmond.conf`).  Threads of a process share the module
globals of `api_v2.py`, above all `db`, the one `CASSANDRA_DB`, with its
unsent batches.  Requests are not wrapped in transactions (no
`ATOMIC_REQUESTS`), except where the code says so.

### Components

| component | state it keeps | operations | modelled in |
|---|---|---|---|
| time-series writer (`TimeSeriesViewset.create`, `ArchiveViewset.update`, `PSTimeSeriesObject`, validators, batches of `CASSANDRA_DB`) | the batches of a process, Cassandra, `time_updated` | publish one value, publish in bulk, self-sending batches, flush | `TimeSeries` |
| Cassandra connection (`db`, `EVENT_TYPE_CF_MAP`, `check_connection`) | two globals per process; the schema in Cassandra | import, reconnect, use; look for and make keyspace and column families | `Connection`, `Startup` |
| metadata registration (`ArchiveSerializer`) | `ps_metadata`, subject tables, `ps_event_types`, `ps_metadata_parameters` | parse, look up by checksum, create, show | `Description`, `Archive`, `Registry` |
| cleaner (`util/ps_remove_data.py`) | policies, counts per object, the walk | delete expired columns, delete objects | `RemoveData` |
| query API (`TimeSeriesViewset.retrieve`, `ArchiveViewset.list`, the paginators) | none; its queries see a changing database | GET of a series, GET of the metadata | `QueryAPI`, `MetadataSearch` |
| query client (`query.py`) | filters, paging position | set filters, page through metadata, page through values | `DataQuery`, `MetadataSearch` |
| post client (`post.py`) | payload under construction | describe, post, add points, post points, again after a failure | `PostClient` |
| GridFTP loader (`esmond-ps-load-gridftp`) | pickled position, log file | check, scan, post, remember, resume | `GridFTPLoader` |
| rollups of the persister (`cassandra.py`) | batches, metadata cache, aggregation cache | raw value, rate and statistics bins, restart | `Rollup` |
| statistics of a histogram (`Percentile`, `statistics()`) | none | pure | no, see section 5 |
| pipe and bulk clients, client utilities, configuration, authentication | none of their own | input and output, library calls | no |

### How the components interact

* Writer and registration share `ps_event_types`: the rows of an object decide
  which cells a value is written to (`Rows` of `TimeSeries`, `EventRows` of
  `Description`).
* Writer and connection share `db`: a thread reads the global anew at every
  use, so a write and its flush may go to different connections.
* Writer and cleaner share Cassandra and `time_updated`; registration and
  cleaner share the metadata object, which may go away between two queries of
  a request.
* Requests of one process share batches.  Requests of different processes
  meet in Cassandra and in the relational database.
* Every process, the cleaner and `cassandra_init` run the same constructor, and
  so meet in the schema.
* A page of a search is three kinds of queries, and a result many pages:
  registrations, updates and removals fall between them.
* The post client adds to a payload that `ArchiveSerializer` turns into rows;
  how often its values are counted depends on these rows.  `PostClient` uses
  `Description` for them.
* The GridFTP loader shares its log with the server and with logrotate, and its
  state file with its next pass.

### What is hard

Read-then-write without a lock (existence check, count of a float bin,
histogram union, checksum lookup, `db`); buffers shared by unrelated
requests, with sends that fail after they were applied; processes that die
between two sends or between two inserts; decisions of the cleaner on values
read hours before; walks down to time 0; pages and ranges that move while
they are read, in the presence of row keys by year; positions kept in a file by a
process that may be killed; caches that are behind or ahead of Cassandra after a
restart; a schema that several programs make at once.  `PROJECT.json`,
`hazards`, lists each at its line with the properties that watch it.

### What makes each component correct

* Writer: what was answered 201 is stored (`AckedIsStored`); nothing is counted
  twice except by an ambiguous failure (`AppliedAtMostOnce`,
  `HistogramCountedOnce`); summaries agree with base values
  (`SummariesMatchBase`, `StatisticsMatchAggregation`); a stored bin can be read
  (`AggregationReadable`); a request does not write what was stored before it began (`NoRewrite`).
* Connection: a write is lost only with a connection that another thread
  replaced (`OnlyAnOrphanLoses`), so never with one connection
  (`OneConnectionLosesNothing`); a ready process serves (`ReadyIsServed`).
* Registration: one object per description (`OneObjectPerDescription`), its
  rows a prefix of what was asked for (`RowsAreThoseAskedFor`), all of it shown
  to its maker (`MakerIsShownAll`), with a single linearisation point
  (`Implements`).
* Cleaner: the policy applied is the most specific one
  (`PolicyIsMostSpecific`), nothing younger is deleted
  (`OnlyExpiredIsDeleted`), no hole is left (`NothingLeftBehind`), objects go
  only when idle (`OnlyIdleIsRemoved`), and it ends (`Terminates`).
* Schema: it gets complete although programs race and die (`SchemaIsMade`), a
  constructor fails only in a race (`OnlyARaceFails`), and none of this
  changes what a process does with its connection (`ImplementsConnection`).
* Query of values: pages do not overlap, and leave the range asked for only as far
  as a `time-range` without an end lets them (`PagesFit`), nothing is skipped (`Complete`), limit and offset
  cut a slice although each year is read apart (`PageIsSlice`), the loop ends
  (`Terminates` of `DataQuery`).
* Query of metadata: at most one object is missed for each change, and only one
  that enters makes others come again, one for each page that holds the same place
  (`DriftIsBounded`), what is found can be used (`FoundIsUsable`), the loop ends
  (`Ends`).
* Post client: rows, parameters and bulk entries are those asked for
  (`PayloadAsAsked`), what is stored is a prefix (`ReturnIsStored`, `PrefixIsStored`),
  and a retry counts again only what a failed send left in a batch
  (`CountedOncePerRow`).
* GridFTP loader: the state file is not ahead of the posts (`NotAhead`), nothing
  behind it is posted again (`NothingTwice`), and the log is drained,
  as far as the first row that ends every pass (`Drained`).
* Rollups: extremes were measured, at the time that is stored with them
  (`StatIsMeasured`), and are exact, with the average between them, in a bin
  that is not come back to, and a value is counted again only after a send that failed
  (`BinIsExact`); a restarted persister finds its previous value (`PreviousIsFound`).

## 2. The modules

### TimeSeries

State: for each request the process it runs on, its items, its program counter
(`idle`, `check`, `rows`, `insert`, one label per column family while flushing,
`done`), the loop counters `item` of `update()` and `row` of `save()`,
the summarised value `got`, `local_cache` as `cache`, and the status `answer`;
shared: `buffer[process][column family]`, `stored` and `times` for Cassandra,
`touched` for `time_updated`, `clock` for the client timestamps of raw columns,
`faults`.

A value is known by its *write* `<<request, item>>`, a mutation by
`<<request, item, row>>`.  A counter is the sum of the mutations applied to it,
so the store is the set of mutations applied and how often each was.  A
histogram is the bag of the writes whose samples it counts.  Nothing else of a
value is kept, besides whether the validator takes it and whether it has
samples.

| action | code |
|---|---|
| `Begin`, `Malformed` | the head of `create()` / `update()`: parse the body, refuse an item without its fields (400), or fail for an unknown event type (500) |
| `Conflict`, `Accept` | `save()`: existence check of values that are not raw |
| `Skip`, `Invalid`, `Summarise`, `NoSamples` | `database_write`: skip a summary the type lacks, `validate()`, `aggregation()` / `average()` / `statistics()` |
| `Insert` | `set_raw_data` / `update_rate_bin` / `aggregation_bin`: into the batch, which sends itself when full |
| `Commit` | end of `save()`: `time_updated`, next item or flush |
| `Flush` | `db.flush()`: one batch after another, then 201 |
| `Crash` | a process dies with its batches and its requests |

Each action is one stretch between two points where another thread can see or
change shared state: a query of Cassandra, an insert into a batch (under its
lock), a send.

### Connection

One process: `up`, `imported`, `db`, `cfMap` (is `EVENT_TYPE_CF_MAP` defined),
the connections `made`, a `batch` for each, and threads that check, connect,
assign, define the map, write `MaxRows` rows and flush.  The batches are kept
per connection and not per column family: what is lost here is a whole
connection.

### Startup

`Startup` extends `Connection` and opens up the one step in which `Connection`
gets a connection: `Enter` is the `SystemManager`, `CheckPart` and `CreatePart`
look for a part of the schema and make it, `OpenPool` is the pool with its
column families.  Callers are the import, threads in `check_connection`, and
other programs (`Program`), which may be killed (`Die`).  `Down` is the
constructor without Cassandra.  `Opened` and `Raised` say what each caller makes
of the result; a thread's part of them is an action of `Connection`.
`ImplementsConnection` states the refinement, with the identity as mapping.

### Description, Archive, Registry

`Description` is the pure part of `ArchiveSerializer`: which bodies are
refused, the rows they give, their order, the checksum (a record of what SHA-256
is computed over: collisions of the hash are left out, those made by
lower-casing are in).  `Archive` is `create()` with one action per ORM call,
and `to_representation` with one per query; `Die` loses a request at any point,
`Delete` is the cleaner's cascade.  `Registry` is the abstract specification:
objects are made or found in one atomic step, replies name the object bound then.
`Archive` refines it with `objects <- metadata`, `handle <- key`.

### RemoveData

The cleaner's own state (`todo`, `snapshot`, `counts`, the walk), the world it
works on (`data`, `updated`, `alive`, the clock), `Publish` of a concurrent
writer, and failing queries and deletes.  A nested
dictionary is the set of the policies put into it; `GetPolicy`, `BySummary` and
`ByWindow` are the calls of the recursive search, one for each of the three match
fields.  `Ending` is where the walk of a row starts.
A day is one unit of time.

### QueryAPI, DataQuery

`QueryAPI` is the GET of a series as operators, for the handlers keep no state:
`TimeFilters` (`handle_time_filters`), `Uri` and `ReadKey` (the URI shown for a
row, and the row key made of it again), `Multiget` (the row keys of all the
years in range, each read with its own limit), `QueryDatabase`, `Serialize`,
`Paginate`, and `Retrieve`, which puts them together.  `WriteKey`, `BinOf` and
`Cell` are where `database_write` puts a value: `Complete` compares what is
read with what was written, and not with what is read in another way.

`DataQuery` is a program that sets and deletes filters (`SetFilter`,
`DelFilter`) and calls `get_data` (`GetData`), whose loop `_query_with_limit`
takes one `Page` after the other; `Publish`, `Expire` and `Tick` happen at any
time.  `asked` and `steady` remember the first request and what has been stored
since, for the properties.  Filters may be unreadable (`None`), as after
`_check_time`.

### MetadataSearch

`get_metadata` against `ArchiveViewset.list`.  A page is answered in the steps
`Count` (filters, count), `Slice` (the objects of the page) and one `Show` for
each object (its event types), which are the queries that the paginator and the
serializer make; `Reply` is the client's part of the loop.  `RowMatches`,
`SubjectMatches` and `ParametersMatch` are the filters of `get_queryset`,
`PrepareIp` the lookup of host names under `dns-match-rule`.  `Register`,
`Declare`, `Update` and `Delete` change the tables between any two of these.
`steady`, `entered` and `left` follow the result from the first count on, for the
properties: what was in it all the time, and how many came and went.

The client takes the length of the first page for the step of all the others
(`NextOffset`), and the server's pages have `DefaultLimit` objects whatever the
step.  When objects leave between the count and the slice of the first page, that
page may be short and the total still promise more: the later pages then overlap,
and one object that enters can make `Overlap` others come again.  With
pages of 3 this takes 3 objects of 4 to leave before the slice and 3 to enter after
it, more changes than the run has room for; `DriftIsBounded` allows for it, and the
proof covers every size.

### PostClient

`MetadataPost` (`AddEventType`, `AddSummaryType`, `AddFreeformKeyValue`,
`PostMetadata`, `PostMetadataFails`), then an `EventTypePost` (`AddDataPoint`,
`PostData`, `Send` for each point, `SendFails`, `Return`) or an `EventTypeBulkPost`
(`AddBulkPoint`, `PostBulkData`).  The archive's part is `Valid` and `EventRows` of
`Description`, and the existence check with the count for each base row.

A request that fails has done nothing, has stored the value, or ends in a 500
for a send that failed.  Of the last, `Leave` is the general case: some of the
mutations were applied, and the rest, perhaps with some of those, stay in the
batches (`left`) until a request of anyone on that process sends them (`Flush`), fails
to (`FlushFails`), or the process ends (`ProcessEnds`).  `unsure` counts the
mutations of which a send failed: only these can be counted again.  A description
that was not answered can be changed and posted again; the registration behind it is
`Archive`.

### GridFTPLoader

A pass goes through `Start` (read the state file), `CheckLastRecord`, `Open`,
`Scan` for each row, `Describe` and `Publish` for each transfer, `Finish`, `Save`,
`Unlink`.  `WriteRow`, `Rotate`, `Interrupt`, `Kill` and `DescribeFails` are the
surroundings.  A row is a number and a kind: transfer, other, unusable, valueless,
malformed.  An unusable transfer lacks what its description is made of: in the
netlogger format it is skipped, in json `MetadataPost` refuses it on every pass
(`Refuse`).  A valueless one ends every pass with an exception, when its values are
computed (`NoValues`).  Both formats, `--dont_write`, `--delete_state`, and Python 2
and 3 are in; `--single` leaves the loop where a signal does.

### Rollup

`Measure` gives a value to `set_raw_data`, `get_metadata`, `update_metadata`,
`update_rate_aggregation` and `update_stat_aggregation`; `SendRaw`, `SendAggs` and
`SendStat` are the batches of three column families, sent when full or by
`flush()`, each at its own time; `SendAggsFails` is a send of counters that raised
after some of them were applied, which `update_rate_aggregation` only logs: the batch is
kept, and all of it sent again.  (For the columns of the other two a send made again
changes nothing.)  `Restart` loses batches and caches.  The
persister that calls these methods is no longer in the repository; it is taken
to call them for each value in turn and to pass the bin of the value's time.

### Proof modules

| module | proves about |
|---|---|
| `TimeSeriesProofs` | `TimeSeries`: types, durability, readability, rewrites; what is counted |
| `ConnectionProofs` | `Connection` and `Startup` |
| `ArchiveProofs` | `Archive` and its refinement of `Registry` |
| `RemoveDataProofs` | `RemoveData` |
| `GridFTPLoaderProofs` | `GridFTPLoader` |
| `RollupProofs` | `Rollup` |
| `DataQueryProofs` | `QueryAPI` and `DataQuery` |
| `MetadataSearchProofs` | `MetadataSearch` |

Operators whose comment starts with "Mutant of" are faulty variants of the
definition that follows.  Each stands for a plausible bug, and the property
named with it in `PROJECT.json` fails when the variant takes the definition's
place.  They are used nowhere else.

## 3. The runs

Runs that pass:

| run | instance | properties |
|---|---|---|
| `writer` | 2 requests, 2 processes, a series of each kind (integer, percentage, float, histogram), 9 payloads of 0-2 items (good, refused, malformed, without samples), batches of 3, 1 fault | `TypeOK`, `AckedIsStored`, `AppliedAtMostOnce`, `SummariesMatchBase`, `AggregationReadable`, `NoRewrite`, `HistogramCountedOnce`, `StatisticsMatchAggregation` |
| `race` | 3 requests, 6 bodies, 1 death, 1 deletion | `OneObjectPerDescription`, `RowsAreThoseAskedFor`, `MakerIsShownAll`, `Implements` |
| `clean` | 2 objects, 3 rows, 4 policy files, several histories down to time 0, with and without `-s`, 1 write, 1 fault, `FairSpec` | `PolicyIsMostSpecific`, `OnlyIdleIsRemoved`, `NothingLeftBehind`, `OnlyExpiredIsDeleted`, `Terminates` |
| `boot` | 3 threads, 2 rows, another program that dies once, a keyspace and 2 column families, Cassandra up before, during or after the import, `FairStart` | `OnlyAnOrphanLoses`, `ReadyIsServed`, `ImplementsConnection`, `SchemaIsMade`, `OnlyARaceFails` |
| `pages` | 3 series (base, an aggregation by bins of 2 s, an average without bins), pages of 2, years of 4 seconds, up to 2 filters of every kind, readable or not, 1 change, 1 fault, `FairSpec` | `PagesFit`, `Complete`, `PageIsSlice`, `Terminates` |
| `search` | 4 measurements, pages of 2, up to 2 filters of every kind, 2 changes, 1 fault, `FairSpec` | `DriftIsBounded`, `FoundIsUsable`, `Ends` |
| `bins` | 3 values of 1..2 in any order at 5 times over 2 years, bins of 2, 1 restart, 2 failed sends | `StatIsMeasured`, `BinIsExact`, `PreviousIsFound` |
| `post` | 3 calls, 3 points, 2 posts, 2 faults | `PayloadAsAsked`, `ReturnIsStored`, `PrefixIsStored`, `CountedOncePerRow` |
| `load` | 3 rows of any kind, 2 faults, both formats, Python 2 and 3, `FairSpec` | `NotAhead`, `NothingTwice`, `Drained` |

Runs that show a disagreement between the code and what its documentation,
comments or tests say; the counterexample is the point of the run:

| run | property | what happens |
|---|---|---|
| `failed` | `FailedIsNotStored` | a bulk PUT refused at its second item leaves the first in the shared batches, and another request's flush stores it |
| `never` | `NeverMeansKept` | an object with data to be kept for ever is removed with its expired summaries |
| `twice` | `AddedOnce` | an event type that is added again is not skipped, as the warning says (`post.py:191`), but posted twice, and its object gets two base rows |

Other behaviours that the models show and no run singles out.  Those that
differ from what the repository says come with the place.

* Two requests that publish the same time pass the existence check before either
  is flushed, and both values count in one counter (`api_v2.py:439`,
  `esmond/api/tests/test_api.py:656`).  Two writers that read the same histogram
  lose one another's samples (`docs/perfsonar_client_rest.rst:337`).  Two values
  of a float bin that are summarised before either is sent both count, and the
  bin reads as half its sum.
* A registration that meets another half way is shown part of the event types
  (`docs/perfsonar_client_rest.rst:1062`); the loser of two simultaneous ones gets
  a server error (the second disjunct of `CreateMetadata`).  Descriptions that
  differ in letter case share an object (`Lower` in `Checksum`).
* A 201 from a connection that another thread replaced may stand for rows that
  stay in a batch nobody flushes (`docs/perfsonar_client_rest.rst:1076`); this is
  all that `OnlyAnOrphanLoses` leaves open.  A thread that sees `db` before
  `EVENT_TYPE_CF_MAP` is defined fails (`ReadyIsServed` is about threads that
  found both).
* A process whose import loses a race for the schema gets an exception that the
  import does not catch, and is imported anew by the next request.
* A value of an event type without rows is answered 201 and written nowhere
  (`ReturnIsStored` says exactly when).  Those of an event type that was added twice
  count twice (`twice`, `CountedOncePerRow`).  After a 500 for a send that failed, a
  post made again passes the existence check, and a later flush counts the value a
  second time.
* A request that dies, or a null parameter, leaves an object with part of its rows
  (`api_v2.py:716`), and whoever posts the description later finds it and is told that
  all is well.
* A query or a delete of the cleaner that fails is only reported: the row counts as
  expired, and its object may go while its data stays.
* A value published while the cleaner walks does not stop the removal of its
  object, and under `-s` neither do rows that the option does not bind
  (`OnlyIdleIsRemoved` is about the times the cleaner read, without `-s`).
* `time-range` is counted from the moving `time-start` again for each page, so that
  a later page may reach beyond the range that was asked for
  (`docs/perfsonar_client_rest.rst:362` describes a fixed range; `Within` makes the
  exception, for a `time-range` that no `time` or `time-end` ends, and bounds it:
  `RangeAnew`).  The value at `time-end` is not asked for when
  a full page ended one second before (`AtTheEdge`).
* The GridFTP loader remembers the last row it saw, also one that is no
  transfer.  The next pass finds that row in its check, but its scan, which
  looks at transfers only, never meets it, and loads nothing from then on
  (`esmond_client/README.rst:364-366`; the ghost `lost`).  Under Python 3 the
  state file is opened as text, `pickle` fails, and the file is left empty
  (`Stuck`).  One json transfer whose `cmd_type` is neither RETR nor STOR holds up
  all that follow it, until the log is rotated (`Blocks`).

### Bounds and why they suffice

* Two requests on two processes cover both ways of interfering, in one
  process through batches and across processes through Cassandra; a property of
  `TimeSeries` relates at most two writes.  Two items per request give a first
  item that succeeds and a second that fails.
* `QueueSize = 3` (200 in the code) makes batches fill up in the middle of a
  request, at its end and never, depending on the payload and on who shares the
  process.
* `MaxFaults = 1` of `writer`: one failed send (applied or not) or one crash.  The
  proofs have no such bound.
* `boot`: two column families are the least with one that a dead program has
  made and one it has not; a third thread meets the two that replaced one
  another's connection.
* `pages`: with pages of 2 and up to 6 seconds there are three pages, full and
  short ones, ending before, at and after the turn of a year.  `search`: 4
  objects are two pages, and 2 changes can both shorten and lengthen the result.
* `bins`: three values reach a bin that is left and come back to, in a row of
  its own or shared; one restart falls between any two sends, and two sends
  of the same counters can fail.
* `post`: three calls are an event type, its summaries and their replacement,
  in any order; two posts of three points are a failure at each place and a retry;
  two faults are a send that left mutations and another that fails to send them.
* `load`: three rows are a remembered one, one after it and a row of another
  kind, such as one that ends every pass; two faults are, say, a kill and a rotation.
* `MCTime = 1..3` with a window of 2: a time at the start of a bin, one at its
  end, one in another bin.
* Three registrations (`race`): a maker, one that loses the race, one that finds the
  object half made or just removed.
* The cleaner's `MaxMisses = 2` and `TimeChunk = 2` over times 0..10 reach the
  limit of misses, gaps that are shorter, equal and longer than it, and time 0.

Symmetry is used for requests and processes where only safety is checked:
no definition orders them, and every `CHOOSE` is over a set with one candidate.

### Fairness

`FairSpec` of
`RemoveData` assumes weak fairness of the cleaner, a process of its own without
locks; the clock and the writers are not fair.  `FairStart` assumes that each
program that opens connections runs again and comes to its end unless killed:
the cleaner is started by cron, `cassandra_init` by the installation; nothing is
assumed of Cassandra coming up.  `FairSpec` of `DataQuery` and of
`MetadataSearch` assumes that a request that was sent is answered or given up:
the client's requests have a timeout, and give up by an exception
(`Unanswered`).  `FairSpec` of `GridFTPLoader` assumes that cron starts passes
and that a pass which is not killed goes on; nothing is assumed of the server,
logrotate or signals.

Deadlock is checked except in `bins`, `post` and `load`, where the bounded
program has come to its end (no value, call or row is left).  In the other
runs the final states stutter through an explicit action (`AllDone`,
`Stopped`), or there is always something left to do.  For `TimeSeries`, whose loops
are over finite lists, that is all there is to say of progress: no state is left
in which a request that began has no next step.

## 4. The proofs

All theorems hold for every value of the constants that satisfies the `ASSUME`
of the module: any sets of requests, processes, threads, series, times and
values, any rows, payloads, policies, histories, queue and chunk sizes, any bound
on faults, writes, rows and crashes.

| theorem | states | inductive invariant |
|---|---|---|
| `TypeCorrect` | `Spec => []TypeOK` | `TypeInv` |
| `AlwaysReadable` | `Spec => []AggregationReadable` | `TypeInv /\ ReadableInv` |
| `NeverRewritten` | `Spec => []NoRewrite` | `TypeInv /\ RewriteInv` |
| `AckedIsDurable` | `Spec => []AckedIsStored` | `TypeInv /\ DurableInv` |
| `CountedOnce` | `Spec => []AppliedAtMostOnce` | `CursorInv`, `TimesInv` |
| `SamplesCountedOnce` | `NoRepeatedRow => (Spec => []HistogramCountedOnce)` | `CursorInv`, `OnceInv` |
| `StatisticsDescribeAggregation` | `NoRepeatedRow => (Spec => []StatisticsMatchAggregation)` | `CacheInv`, `StatInv` |
| `SummariesFollowBase` | `Spec => []SummariesMatchBase` | `WholeInv` |
| `LostOnlyWithOrphan` | `Spec => []OnlyAnOrphanLoses` | `ConnectionInv` |
| `SafeWithOneConnection` | `Spec => []OneConnectionLosesNothing` | `ConnectionInv` |
| `ReadyServed` | `Spec => []ReadyIsServed` | `ConnectionInv /\ ReadyInv` |
| `StartupImplementsConnection` | `StartSpec => ImplementsConnection` | none: every step maps to a step or a stutter |
| `OnlyRacesFail` | `StartSpec => OnlyARaceFails` | `BuilderInv` |
| `SameDescriptionSameKey` | `Spec => []OneObjectPerDescription` | `ArchiveInv` |
| `NoForeignRows` | `Spec => []RowsAreThoseAskedFor` | `ArchiveInv` |
| `MakerSeesItsObject` | `Spec => []MakerIsShownAll` | `ArchiveInv` |
| `CreateImplementsRegistry` | `Spec => Implements` | `ArchiveInv` |
| `PolicyFound` | `Spec => []PolicyIsMostSpecific` | types |
| `OnlyExpired` | `Spec => OnlyExpiredIsDeleted` | `WalkInv` |
| `OnlyIdle` | `Spec => []OnlyIdleIsRemoved` | `CountsInv`, `IdleInv`, `RemovedInv` |
| `NothingLeft` | `Spec => []NothingLeftBehind` | `HoleInv` |
| `StateIsNotAhead` | `Spec => []NotAhead` | `LoaderInv` |
| `NoRowTwice` | `Spec => []NothingTwice` | `LoaderInv` |
| `PreviousFound` | `Spec => []PreviousIsFound` | `LogInv`, `RawInv`, `LastInv` |
| `ExtremesAreMeasured` | `Spec => []StatIsMeasured` | `StatInv`, `CacheInv` |
| `RollupsAreExact` | `Spec => []BinIsExact` | all of `RollupInv` |
| `PagesNeverOverlap` | `Spec => []PagesFit` | `Types`, `LoopInv` |
| `NothingMissed` | `Spec => []Complete` | `Types`, `LoopInv` |
| `LimitOfEachYearSuffices` | `Spec => []PageIsSlice` | `Types` |
| `FoundCanBeUsed` | `OneBaseRow => (Spec => []FoundIsUsable)` | `Core`, `Usables` |
| `DriftBounded` | `Spec => []DriftIsBounded` | `Core`, `DriftInv` |

### The writer

* `TypeInv` adds `StampsBounded` to the types: the histogram read back is that
  of the greatest client timestamp, which exists only because timestamps are
  bounded by the clock.  A well-founded argument (`MaxNat`) gives the
  maximum; the types of `Latest`, hence of the union and of the mutation, follow.
* `ReadableInv`: a value that does not count for its float bin was summarised
  when the bin had something *stored*, and what is stored is never taken back.
  So wherever such a value is (about to be inserted, in a batch, stored), a
  counted one is stored.  `AggregationReadable` alone says nothing of batches
  and would not survive a send.
* `RewriteInv`: what a request saw at its begin stays stored; its check then
  refuses those cells, so an item past the check is not among them, and a
  write by a request that has not begun does not exist.
* `DurableInv`: every row a request has passed is in Cassandra or in a batch of
  its process that its flush has yet to send; a batch is emptied only into
  Cassandra (`BatchKept`) or by a crash, which ends the requests that rely on it.
  A swallowed failure of `update_rate_bin` is covered: the batch keeps the row.
* `CursorInv`: a request goes through the rows of its items once and never back
  (`Behind`), and what was written is behind its cursor.  So an `Insert` is the
  first of its mutation.  `TimesInv` then counts: a mutation that is still in a
  batch was applied only by sends that failed, one that is in none at most once
  more.
* `OnceInv`: a write is in a histogram, wherever that is (Cassandra, a batch,
  about to be inserted, `local_cache`), only if its request is past the
  aggregation of that window; so the aggregation that adds it finds it
  nowhere.
* `CacheInv` and `StatInv`: `local_cache` has the union of a window only after
  the item's aggregation of it, and what the item's statistics take is that
  union.  This is where the order of the rows matters (`RowOrderAssumption`).
* `WholeInv`: without faults a request that is over has written every row of a
  numeric item or none: the validator of a numeric value decides the same for each
  row.

`NoRepeatedRow` is a hypothesis and no `ASSUME`: the table `ps_event_types` has no
unique constraint (`models.py:99-109`), so the code does not justify it.  It
is needed: with an event type that has an aggregation of the same window twice
and a batch that sends itself between the two, TLC finds `HistogramCountedOnce`
violated, because the second aggregation reads back the first.

### Connection and schema

* `ConnectionInv`: each row is followed from the batch it was put into until
  it is stored; a connection leaves `db` only by another assignment, and
  two connections were then opened.  `OneConnectionLosesNothing` follows, and is
  left to the proof; the run checks `OnlyAnOrphanLoses`.
* `ReadyInv`: a thread that found both globals is past `check_connection`, and the
  map, once defined, stays.
* The refinement needs no invariant: with the identity as mapping, the looks and
  creations leave the variables of `Connection` alone, and what `Opened` and
  `Raised` make of a constructor's result is an action of `Connection`.  The
  theorems about `Connection` hence hold of every behaviour of `Startup`.
* `BuilderInv`: a constructor has seen or made every part before the one it is at,
  and a part it found missing still is, unless another program disturbed it.

### Registration

`ArchiveInv` ties an object to the request that drew its key: until the insert
nobody knows the key (`FreshAt`), afterwards only that request adds rows, one after
the other (`RowsAt`), only the cleaner takes the object away, and checksums
are unique (`Unique`, from the constraint on the column).  What a
request has in hand is an object of its own description or one that was deleted
(`HeldAt`).  With it, the insert, or the look-up that finds an object, is the one step in which
`Registry` binds a request, the last query of an answer is its reply, and the other
queries are stutters.

### Cleaner

* `PolicyFound`: eight cases, by which of the three fields match exactly; the order
  of the calls is the order of the weights 4, 2, 1.
* `WalkInv`: the walk starts at or before the time of the policy and only goes
  back, so what a query returned has expired, and stays so as the clock
  moves on.
* `CountsInv`, `IdleInv`, `RemovedInv`: never more rows expired than counted; as
  long as the two agree every counted row had expired, and all rows were visited
  when objects are deleted.
* `HoleInv`: while all is calm, the row at hand is clean from where the walk
  began down to `end`, except for what the last query returned, and the walk has
  got as far as its misses say.

### GridFTP loader

`LoaderInv` numbers the rows by when they were written.  `PlaceInv` says why
the scan may skip rows: the record of the state file is ahead in what was read, or
all of the pass is accounted for in `lost`.  `CoverInv`: of the rows looked at, the
transfers were posted, but for the one at hand.  A save moves the record to the
last row looked at, and so both give `NotAhead`; `BeginInv` is what is left of this
between passes.

### Rollups

* `RawInv`, `LastInv`: the cache of the last value is empty only after a
  restart, when no raw data waits in the batch.  What was measured is then
  stored or lost, and the newest of what is stored is found in the row of
  the latest year, for years are in order (`DivMonotone`).
* `StatInv`, `CacheInv`: what the cache has of a bin is what the tables will have
  once the batch is sent, and the batch only has bins of years that the cache
  knows.  So a bin that is looked up in Cassandra has nothing in the batch, and a
  partial write never mixes with values it does not belong to.
* `ExactInv`: with the same facts for the counters (`AggsInv`, `PlusAssociates`), a
  value that enters a bin alone in its year moves minimum, maximum, sum and count
  as they should; the average stays between the extremes (`AverageTaken`).  A send
  that failed adds what waits in the batch once more: what waits is at most one
  count for each value and lies between the extremes too (`Waiting`), so that the sum
  stays between them (`Between`) and the count within `1 + faults` times the number of
  values (`Counts`).

### Queries of values

* A request (`RetrieveIsSlice`): the URI shown for a row leads to the row key that
  its values are written under (`KeyFound`).  A column that the limit cuts off its
  year has `limit + offset` columns of that year before it that are returned
  (`QueryKeeps`), and then the first elements and their places are those of
  the whole series (`SliceKept`).  Places are counted with `Rank`; that
  every place is taken (`RankTaken`) needs only that an injection between finite
  sets of the same size is onto, and no induction.
* `LoopInv`: between two pages (`Midway`) `time-start` is behind everything that was
  returned and not behind anything that is still due, and the next request reaches
  as far as the first one asked for, although the range of `time-range` moves
  with `time-start` and an open end with the clock.  A short page then has all
  that is due, and a full one all up to the new `time-start` (`PageTaken`).
  `time` never gives a second page, for `LIMIT` is at least 2.
* `PagesFit` needs to know where a page may end.  `Onward`: between two pages
  `time-start` is one second behind the last value of a full page, and if no filter
  limits the request then none limited the first.  So the next request ends with
  the first, or, under a `time-range` without an end, that far behind the last
  value (`Limited`); the values of its page, at most `LIMIT`, follow in their
  places (`Places`) and end where it does (`EndsTaken`), and moving `time-start`
  takes nothing of this back (`EndsKept`).
* When the loop stops because `time-start` has reached `time-end`, only the value
  at `time-end` itself can be due, and a full page ended one second before it:
  this is `AtTheEdge`, the exception that `Complete` makes.

### Queries of metadata

* `Core`: the tables keep to the catalog, and `steady` is part of the result as it is at
  the moment (`Followed`).
* `Usables`: what an object offered when it was shown stays in the answer; an object
  that matches at that moment has a row that meets all the conditions, and
  `BuildEventTypeList` shows that row, as the event type or as a summary of it
  (`ShownOffers`).  Whoever is deleted, or stops to match, is no longer in `steady`.
* `DriftInv` follows the objects taken so far (`Taken`) and the places passed
  (`Passed`).  `Lost`: of what was there all the time and was not taken, at most
  `left` lie within the places passed, for when the result changes from `M` to `N`
  no more elements come to lie within the first `b` than leave (`MoreWithin`), and no
  more of those taken come to lie beyond than enter (`MoreBeyond`).  Both rest on
  `Crossing`, a count of the first `b` elements of two sets, and that on the places
  given by `Rank`.  `Again` counts what came twice, in two ways.  Pages side by
  side (`WholePages`): what was taken and lies ahead again was pushed there.
  Pages that overlap (`ShortPages`): the first page held all there was, so that what
  the others hold has entered.  `Balance`: the size of the result is the first count,
  plus `entered`, minus `left`.  At the end as many places are passed as were promised
  at first, and `AllPassed` draws the sum.
* A page that is not looked for, because its count is behind the offset, has no
  objects; that nothing is missed by it needs the count and not the slice
  (`Stale`, `NoneLeft`).

`OneBaseRow`, that an event type is declared once, is a hypothesis like
`NoRepeatedRow` and for the same reason: with two base rows of a type the list shows
the update of the last one, and the row that met the time filter may be the other.
`DriftBounded` needs no hypothesis.

### Assumptions about constants

Besides types, and each evaluated by TLC on the runs:

* `RowOrderAssumption` (`TimeSeries`): the aggregations of a series come before its
  other summaries, by the `ORDER BY` of `api_v2.py:451`.
* `BaseRowAssumption` (`TimeSeries`): a series with rows has a base row, which
  `deserialize_event_types` (`api_v2.py:740-744`) adds.
* `RowsAssumption` (`Archive`): the rows and parameters of a valid description are
  finite sequences of rows and parameters.  `Description` sorts and selects with
  `SortSeq` and `SelectSeq`, of which the provers have no definition.
* `RemoveDataAssumption`: rows, policies and histories have their types.
* `SearchAssumption` (`MetadataSearch`): keys are numbers, and finitely many.
* `CatalogAssumption` (`MetadataSearch`): rows have their types, a base row is stored with
  window 0 (`api_v2.py:740-744`), and the tables at first hold the first rows of objects
  of the catalog.
* `ClientAssumption` (`DataQuery`): rows are as `deserialize_event_types` makes them,
  with window 0 for a base row (`api_v2.py:740-744`); a filter is a time or, where
  `_check_time` could not read it, `None`; `LIMIT` is at least 2.

### Only model-checked

* Liveness (both `Terminates`, `Ends`, `Drained`, `SchemaIsMade`):
  outside the provers' reach.
* `PostClient`: what is stored is a sorted and flattened sequence of rows
  (`Description`), made by operators that the provers have no definition of
  (`SortSeq`, `SelectSeq`) or that need induction over data (`FlattenSeq`).

## 5. Not modelled

* The numbers: sums, means and percentiles of values.  What is counted where is
  modelled, not the arithmetic:
  `Percentile` and the moments of `statistics()` are floating-point arithmetic
  over the buckets of one histogram, without state, and out of TLC's reach.
* In `TimeSeries`, the row keys of Cassandra, in which a year's columns share a
  row: reading one cell does not depend on it.  `QueryAPI` and `Rollup` have them.
* Years have equal length, and clocks agree.
* HTTP and command-line parsing, formatting, authentication, configuration, the
  JMX reader, and the pipe and bulk clients, which only call the clients above.
* The views of one event type and of one summary
  (`EventTypeDetailViewset`): the builder that `BuildEventTypeList` models, over
  fewer rows.
* `cassandra_clear_and_init`, by which an administrator drops the keyspace;
  `query_raw_first` and `query_raw_last`, which nothing calls; the timing
  counters of `DatabaseMetrics`, which nothing depends on.
* Cassandra itself (external): columns and counters as the code uses them,
  with sends that fail and may have been applied.  Replication is not modelled.
* Relational isolation is that of single statements, which is what autocommit
  gives.
* Smaller things: a log row of which only half is written yet; the order of
  windows as text (`"300"` before `"60"`), which decides the order of rows of one
  summary type and no property depends on; the checks of `to_internal_value` that
  refuse a body for its form (`api_v2.py:645-658`), in `Description` part of what is
  not `Valid`; deletions of expired columns that stay in a batch after a send that
  failed and are sent with the next (`ps_remove_data.py:319-321`).

## 6. Plan

Done, in this order: the writer, its proofs, registration with its
abstract specification, the cleaner, the connection with its proofs, the
schema, queries of values and of metadata, the post client, the GridFTP loader,
the rollups.

Next:

1. Composition of cleaner and writer: a bin deleted between the read of its
   count and the send of the next value (`ps_remove_data.py:313`).
2. `DurableArchive`, the abstract archive in which an acknowledged value is
   durable, refined by `TimeSeries`.

Theorems to add: `CountedOncePerRow` of the post client, from an assumption on
`Description` like `RowsAssumption`.

## 7. Running it

    tlc -config MCTimeSeries_writer.cfg MCTimeSeries
    tlapm RollupProofs.tla

Every `.cfg` is named after its module and run.
