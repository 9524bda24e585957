# A TLA+ model of devfiler

devfiler is a desktop profiler: an OTLP collector receives profiles, a database
of RocksDB tables and symbol files keeps them, a background symbolizer fetches
symbols for the executables it sees, and an egui front end aggregates and draws
what is stored. Collector, symbolizer and UI run on the threads of one process
and meet in the global `DB`; almost nothing between them is transactional. This
directory models that machinery in TLA+, model-checks it with TLC on small
instances and proves its main invariants with TLAPS for every instance.

All line numbers are of the files under `src/src/`. `PROJECT.json` maps every
definition to the lines it stands for.

## 1. Inventory

| component | state | operations | what is hard |
|---|---|---|---|
| **Table** (`storage/table.rs`) | RocksDB column, LRU cache behind a mutex | insert, get, remove, batch commit, iter, range | the mutex covers only the cache half of an operation; eviction; a batch empties the cache |
| **Db** (`storage/mod.rs`) | four tables and the symbol store | open, `flush_events`, `generate_id` | the flush goes key by key and table by table under running exports and fetches |
| **SymDb** (`storage/symdb/mod.rs`) | symtree files, temporary files, cache of mappings behind an RwLock | get, insert | lock escalation in get; replacing a file that is mapped; two inserters of one file; I/O errors; crashes |
| **Frame symbolization** (`symdb/mod.rs`, `storage/rkyvtree.rs`) | none (an immutable interval tree) | build, point query, inline walk, line lookup | index arithmetic, half-open ranges, unstable sorts, duplicate depths |
| **Symbolizer** (`symbolizer/mod.rs`) | monitor's scan, channel of 32, queue, active set, up to 15 fetch tasks, symbolization status in `executables` | scan, send, receive, join, store, spawn, fetch | status read long before it is used; three writers of one record; retry; a record that is gone; more files than slots |
| **Drag-and-drop** (`tabs/executables.rs`, `symbolizer/mod.rs`) | queue of dropped files, the active ingestion | drop, join, spawn; an ingestion inserts symbols, then the record | only a drawn frame sees that an ingestion has ended; the insert task outlives a failed one |
| **Collector** (`collector/otlp/service.rs`) | none of its own; writes all four tables | decode; export: locations, frame batch, then per sample trace and events | indices into decoded tables; two units of time; no transaction; early returns in the middle; concurrent exports; crashes |
| **Trace events** (`tables/traceevents.rs`, `tabs/flamescope.rs`) | the `trace_events` table | time_range, event_count_buckets, sample_events, build_heatmap | mixed byte orders in keys; bucket arithmetic at its limits; events added during a query; missing traces |
| **UI caches** (`ui/cached.rs`, `storage/notify.rs`, `ui/mod.rs`) | cached value with its key hash, `being_constructed`, `UPDATE_CTR`, sequence numbers | get_or_create, construction task, waker | input changing while a value is made; lost wakeups; a panicking construction |
| **Application shell** (`ui/app.rs`) | selected tab, kind, auto-scroll, requested time range | frame, lookback, drag, a tab's action | the range comes from three places; a requested one lives for one frame and must outlast it |
| **Flame graph** (`tabs/flamegraph.rs`) | tree, sandwich view, zoom and position, filter, search matches | build, sandwich, zoom, click, search | inline chains found again by counting; matches gathered while drawing, out of date with zoom, view and tree |
| **Top functions** (`tabs/top_funcs.rs`) | four-stage pipeline of bounded channels | query | per-trace state carried by a flag through stages that drop items |
| **Trace frequency** (`tabs/trace_freq.rs`) | none (cached folds) | deduplication rates, histograms | traces that disappear while the events are folded |
| **Rings** (`log.rs`, `collector/mod.rs`) | bounded queues behind a lock, one as long as a `VecDeque`'s capacity | push, list, pick | off-by-one at the limit; concurrent handlers |
| other tabs, FlameScope's selection, drawing helpers, error table, generated protobuf | none | drawing, formatting | nothing a model would add to |

How they interact: an export writes `executables` (read by the monitor),
`stack_frames`, `stack_traces` and `trace_events` (read by the tabs through the
UI caches). The monitor sends executables to the controller, whose fetch tasks
insert symbol trees (read by every tab that symbolizes) and whose outcome goes
back into `executables`. Drag-and-drop ingestion writes the same symbol store
and the same records from a thread of its own. The flush button removes records
under all of them. Every table write bumps a sequence number and every finished
construction a counter; the waker polls both and asks egui for a frame.

What makes each correct is listed with its runs in section 3.

## 2. Modules

| module | models | proofs |
|---|---|---|
| `TableMap` | abstract specification: an atomic map | |
| `CachedTable` | one table: database column and cache, an action for each half operation | `CachedTableProofs` |
| `SymDb` | symbol store: paths, inodes, mappings, lock | `SymDbProofs` |
| `Symbolizer` | monitor, channel, controller, fetch tasks, the other writers of `executables` | `SymbolizerProofs` |
| `SymbolStore` | composes `Symbolizer` and `SymDb`: the threads on which fetches insert symbols, next to readers | `SymbolizerProofs` |
| `Dictionary` | what an export request says: attributes, locations, build IDs, stacks, time stamps | |
| `Ingest` | export handlers, flush across tables, reader of events, over `Dictionary` | `IngestProofs` |
| `UiRefresh` | cached views, construction tasks, waker, frames | `ShellProofs` |
| `Shell` | the range of time the UI shows, over `UiRefresh` | `ShellProofs` |
| `EventQueries` | queries over trace events with key order and word arithmetic | `EventQueriesProofs` |
| `Profile` | the traces and symbols the views below read | |
| `Sums` | sums over sets, for the flame graph, the search and the frequencies | `EventQueriesProofs` |
| `FlameGraph` | tree construction and sandwich view | `ViewsProofs` |
| `FlameSearch` | moving about in a drawn flame graph: zoom, clicks, filter, matches | `ViewsProofs` |
| `TopFuncs` | the four threads of the top functions query | `ViewsProofs` |
| `TraceFreq` | deduplication rates and histograms | `ViewsProofs` |
| `Logs` | the rings of export requests and of log messages | `ViewsProofs` |
| `DropQueue` | the queue of dropped files and its one ingestion | `ViewsProofs` |
| `Views` | composes the queries and views over one table of events; beside them, apart, `FlameSearch`, `Logs` and `DropQueue` | `ViewsProofs` |
| `SymbolLookup` | interval tree, point query, inline walk, line table | `SymbolLookupProofs` |
| `MC...` | constants for TLC | |

An action is one atomic step of the code: a critical section, a database call,
a system call or an atomic access. The modules are layered. `CachedTable` and
`SymDb` open up single operations of storage; `Symbolizer` and `Ingest` use a
table or symbol store operation as one step, which the properties of the lower
modules justify for the way they are used: `stack_traces` is append-only until
a flush (`AppendOnlyCoherent`). That a fetch may be taken to store its symbols in
one step, and that fetches keep the discipline `SymDb` asks of its clients
(`SingleInserter`), is what `SymbolStore` is for: there the two modules run together,
and both are shown to be implemented.

### State and actions against the code

*CachedTable.* `db` is the column, `cache` the LRU cache, and `pc`, `key`, `val`
are the locals of a thread inside an operation. `InsertCache`/`InsertDb`,
`GetHit`/`GetMiss`/`GetRead`/`GetFill`, `RemoveCache`/`RemoveDb` and
`CommitDb`/`CommitClear` are the halves of `insert`, `get`, `remove` and
`commit`; `FlushStart`/`FlushNext` are the loop of `flush_events` over one
table; `Restart` reopens the column. Which entry is evicted is left open.

*SymDb.* `temp` and `final` map a file ID to the inode at either path, `content`
says what an inode holds, `cache` is the map of mappings, `fd` what a thread has
open. An inode stays while something refers to it. Sections under the write lock
are single steps, the read lock of `get` spans `open`. `InsertError` stands for
every `?` of insert, `GetError` for those of get.

*Symbolizer.* `endpoint` tells whether the process was started with a
`--symb-endpoint`; without one, which is the default (`main.rs:46-51`), the
controller takes files from its queue and drops them (`symbolizer/mod.rs:135`).
`exe` and `age` are the status and age of a record; `todo`,
`chan`, `pending`, `active`, `job` and `stage` are the monitor's iterator, the
channel, and the controller's queue, set and task set. `Join` is `join_next`
with the read of the record, `Store` the write and `active.remove`, `Spawn` one
turn of the loop; `FetchDbgFileId`, `FetchSymbols` and `FetchInsert` are the two
requests of a fetch and its insertion, each of which may fail. `Panic` and `Abort` are the `unwrap` of a record that is gone,
in a build that unwinds and in one that aborts (`Cargo.toml` has
`panic = "abort"` in the release profile only).

*SymbolStore.* `thread` is the file a blocking thread inserts, by the slot of the
task that started it. `StartThread` is `FetchSymbols` where it ends in
`spawn_blocking`; the `Thread...` actions are `insert_symbols` and, of `SymDb`, the
steps of `insert`; `Finish` is the return to the task, or to nobody when the task
is gone. `EndOfProcess` ends threads, a panic of the controller does not. Slots
are the clients of `SymDb` that insert, `Readers` those that only get.

*Dictionary.* A request is a record of its tables, which refer to each other by
index, as in the protobuf. `GetAttr`, `FileOf` and `FrameOf` follow `get_attr` and
`ingest_locations`: the value of the first attribute of a name, the new, the legacy
or the hashed build ID, and what is pushed for a location: a frame, the dummy, or
nothing because the request is refused (`BadFrame`). `Flaw` and `FrameList` are
`collect_frame_list` (with `BadLocation`) and the checks of `process_sample`, `Seconds` and `Times` the
normalisation of time stamps.

*Ingest.* The four tables are sets of keys (`executables` is keyed by file ID), a trace
is its own hash, a handler is a program counter and an index into its request, as
`Dictionary` decodes it (`Decoded`). `flushing` and `doomed` are the flush's table and
iterator; `todo`, `merged`, `skipped` are `sample_events`. The other writers of
`executables` are here as far as they write: the controller reads a record and puts it
back with an outcome (`OutcomeRead`, `OutcomeStore`, with the file in `outcome`), an
ingestion of a dropped file updates or creates one (`DropIngested`). Two variables are
histories: `stamped`, the seconds of all events, and `stale`, the records there were
when the flush began that nothing has removed or written since.

*UiRefresh.* `value` is the `ArcSwap` with the hash and, as a history, the input
it was made of; `busy` is `being_constructed`; `counted` and `changed` say that
the waker's copies are out of date. `sel` is what the user has selected, `shown`
what the last frame drew.

*Shell.* `auto` and `requested` are `auto_scroll_time` and `requested_time_range`,
`bounds` the bounds egui keeps for the plot, `settled` says that `samples_widget`
has run in the coming frame, and `chosen` is a history: the range last dragged to
or selected. The range a frame settles is the input `sel` of `UiRefresh`, so that
everything `UiRefresh` promises is asked again under a range that scrolls.

*EventQueries.* An event is its key; `ByteOrder` is the little-endian ID. Time
stamps are words modulo `Word`; `Builds` tells whether overflow panics or wraps.
`from` and `to` are the bounds of the range that is iterated over, which
`event_count_buckets` rounds to its step before it asks for the range.

*FlameGraph.* A node is the path of IDs from the root, `weight` and `skip` are its
fields. `InsertTrace` is one event of `build_flame_graph`; `PassFrame` and
`AddFrame` are the two ways `insert_trace` goes on with a frame (an abort marker
is a frame that never has symbols). `Hits` are the nodes at which
`collect_paths_through_frame` stops; `CallerTree` and `CalleeTree` are what the
insertions of all hits add up to.

*FlameSearch.* A tree is its nodes in preorder. `Drawn` are the nodes `draw_level`
comes to, `Found` those of them it pushes to `matching_frames`. A frame of the UI is
an action: one input (`Edit`, `Enter`, `Move`, `Click`, `CtrlClick`, `DoubleClick`,
or a new tree), then `Draw`, which gathers the matches if the filter differs from
`cached_filter`. `Centre` and `Readable` are `center_on_current_match`.

*TopFuncs.* `unread`, `frames` and `locs` are what a thread has still to send,
`eventChan`, `frameChan` and `locChan` the channels, `newTrace` the flag,
`cached` the symbols thread 3 has looked up, `seen`, `zelf` and `withChildren`
the state of thread 4.

*TraceFreq.* `groups` is the grouping map of a fold, as a bag: the traces, the
traces without their leaf or the frames met so far. Each rate and each histogram is
cached on its own and folds its own snapshot (`AskFreq` chooses one of `Values`; there is
no histogram of frames), so the rate and the histogram of a range may differ. `Rate` or
`Bars` is what is made of the groups in the end. `matched` and `missed` are histories.

*Views.* The views are built on threads of their own and share the tables only,
which they read, so `Views` builds one at a time while the collector adds events.
Symbols and traces change only while a view is built; between views their state
is left open (`Opened`).

*Logs.* `ring` and `room` are the `VecDeque` of requests and its capacity, `arriving`
the handlers between the count and the lock, `messages` the ring of the log,
`pushed` a history. `RequestList` and `LogTail` are what the tabs list.

*DropQueue.* `ingestQueue` and `ingestTask` are the fields of the tab. `DrawTab` is a
frame that draws it: files dropped, a task joined that has ended, the next one
spawned. The steps of the task are in `Symbolizer`; here it ends, somehow, some time.

*SymbolLookup.* `data` is the sorted vector, `todo` the query's stack of
segments, `MaxEnd` the maxima `update_max` stores, computed as a recursive
function over segments. `Collect` sorts by depth and deduplicates, `Walk` adds
one frame.

## 3. Runs

| run | expects | asks |
|---|---|---|
| `TableSerial` | pass | Does a table used by one thread behave as an atomic map (`IsMap`), and why (`SerialCoherent`)? |
| `TableAppend` | pass | Is an append-only table coherent for several threads (`CoherentAtRest`)? |
| `SymDbReaders` | pass | With one inserter for a file: is only ever a whole tree in place and mapped (`TreesWhole`), does no step change a mapped file (`MappedStable`), is a cached mapping kept until it is invalidated (`CacheStable`), does every call return (`CallsReturn`)? |
| `SymDbShared` | violation | The same with two inserters of one file, of which one moves the other's unfinished file into place: `MappedStable` fails. |
| `SymbolizerSafety` | pass | One fetch for a file at a time (`OneFetchPerFile`), an exact active set (`ActiveExact`), no `Complete` without symbols, nor with a part of them but for a file the user drops (`CompleteHasSymbols`); with and without an endpoint. |
| `SymbolizerLive` | pass | With an endpoint: is every new executable attempted (`EntriesAttempted`) and every error retried (`ErrorsRetried`)? |
| `SymbolizerFlush` | violation | With a flush: `EntriesAttempted` fails. |
| `SymbolStored` | pass | With fetches that insert step by step, fail anywhere and may outlive their task: has a file shown as symbolized a whole tree in place (`CompleteStored`), is nothing else ever in place or mapped (`SystemTreesWhole`), and does no step change a mapped file (`SystemMappedStable`)? Has a file one inserting thread at a time (`OneInserter`)? |
| `IngestStored` | pass | An event lies in the seconds its stamps mean and its trace is what the request's stack says (`EventsExact`). Until a flush: events have their traces and traces their records (`RecordsLinked`), requests have no holes (`NoHoles`), readers leave nothing out (`UnflushedAggregated`); of what the tables held when a flush began nothing is left at its end that was not written again, whatever handlers, fetches and drops do meanwhile (`FlushForgets`). |
| `Shell` | pass | One construction at a time (`OneConstruction`), nothing stale left on the screen with nothing under way (`ViewCurrent`), the selected input drawn in the end (`KeyShown`), all under a range of time that scrolls; and does a range the user has dragged or switched to stay (`RangeKept`)? |
| `Views` | pass | Is a range exact (`RangeExact`), are plot and heat map (`PlotsExact`, which also says that nothing overflows but for a range from 1970), the flame graph (`FlameExact`), the sandwich view (`SandwichExact`), the top functions (`TopExact`) and each rate and histogram of the trace frequencies (`FreqExact`)? Does the pipeline of the top functions never block itself (`QueryGoesOn`), and does every step of a thread bring it nearer to its end (`WorkShrinks`)? Are the matches of a search those of its last edit, whatever was drawn since (`SearchExact`), and does Enter bring one into sight (`FocusShown`)? Do the rings list the newest without a gap (`RingsKeepNewest`)? Is every dropped file taken once and never left waiting (`DropsKept`)? |
| `SymbolLookup` | pass | Is the query exact (`QueryExact`), are there frames for every depth (`FramesComplete`) with the right lines (`LinesExact`)? |

### Bounds

* `TableSerial`: three keys on a cache of two, two values, so that a put evicts,
  overwrites and adds. `TableAppend`: three threads (one reads, one inserts, one
  commits), two keys on one cache slot. Symmetry of the threads is sound: no
  property or constant tells them apart.
* `SymDbReaders`: the inserter (which reads, too) and a reader, one file, five
  inodes: one in place, one cached, one mapped by each and one temporary. Two
  readers that keep taking turns starve a writer under the fairness assumed
  here, so `CallsReturn` is asked with two threads only; `std`'s lock makes new
  readers queue behind a writer.
* `SymbolizerSafety`: two files on two slots and a channel of one, a drop of one
  of them, flushes, panics of both kinds, an endpoint or none, which may change where
  the process is started again. `SymbolizerLive`, with an endpoint: two files on one slot
  (a queue that is longer than the slots), a channel of one (a monitor that
  blocks), a wait of one second, one fault (an error or a restart). A
  liveness property needs finitely many errors: a service that always fails is
  retried for ever, as it should be.
* `SymbolStored`: one file on two slots, one reader, four inodes (one in place, one
  mapped, one temporary and one more), an error or a restart, both kinds of panic.
  Threads that outlive their task need a second file, whose record is gone when
  the controller reads it; with the steps of the store under both files that is more
  than a run can visit, and is left to the theorem (`ThreadsAlwaysKnown`, section 5).
  Symmetry of the slots is sound: no property or constant tells them apart.
* `IngestStored`: two exports with any of four raw requests, which share frames and
  traces; one restart. Their locations are a dummy, an abort marker, native and
  interpreted ones with build IDs of either attribute or hashed; samples have
  stamps in milliseconds, in nanoseconds, several or none; one breaks off between
  its writes, one has a bad location, one dictionary is bad. One executable is
  exported, fetched and dropped, so that each of its writers meets the others and the
  flush. A second is 10
  milliseconds or 100 nanoseconds, the year 2024 begins with second 4.
* `Shell`: one cache, since caches share only the counter and the waker, with two
  ranges and two threads, so that a count may be pending while another task
  constructs or panics. The ranges are the last second at either of two times: a
  lookback left on takes a chosen range away when the clock has moved on.
* `Views`: five events with extreme IDs and kinds at the ends and inside of ranges,
  bounds that make empty, one-second and long ranges and start in 1970, 0, 2 and
  3 buckets, words of four bits (the largest sum is below 16, as time stamps of
  this century are below 2^64). Their traces have a frame twice, one location in
  several frames, an inlined function, a leaf without a symbol and two comms;
  channels have one place.
  The drawn flame graph is one of two trees (recursive below two comms; narrow
  matches), with four filters and three windows besides those that clicks and
  Enter lead to. Rings hold four requests and three messages and get five; four
  files are dropped, in one frame or several.
* `SymbolLookup`: every subset of seven symbols (nested and equal ranges, equal
  depths, an empty range, adjacent ranges, one that covers all), every address
  from before to behind them. Trees of up to seven nodes have every shape of
  segment that halving produces down to two levels.

### Fairness

* `SymDb`: a thread that has a call in progress goes on, and gets the write lock
  if it is free again and again (strong fairness of `Continue`). An insert
  writes finitely often, which the fairness of `InsertFlush` states.
* `Symbolizer`: the endpoint is set (`Endpoints` is `{TRUE}` where liveness is
  asked; with an empty one nothing is attempted or retried), time passes, tasks are polled (weak), `select!` picks ready
  branches at random (strong for `Recv` and `JoinStep`), and an HTTP request is
  answered in the end. The last is an assumption about the network: the client
  (`symbolizer/mod.rs:48-52`) has no timeout, a request that never ends keeps
  its slot. Nothing is assumed of collectors, drops and flushes.
* `UiRefresh`, `Shell`: the UI thread draws the frames it is asked for, a construction
  ends (or panics), the waker is woken every 50 ms. Users need not do anything.

## 4. Divergences

Two have a run and an entry in `PROJECT.json` (`findings`):

1. **A flush kills the controller** (`SymbolizerFlush`). A fetch runs; the flush
   removes its executable's record; the controller unwraps it
   (`symbolizer/mod.rs:115`). Unwinding ends the controller for the rest of the
   process, aborting ends the process.
2. **Two inserters share a temporary file** (`SymDbShared`). A fetch and a
   drag-and-drop of the same executable: one has written its temporary file when
   the other unlinks it and creates a fresh one at the same path
   (`symdb/mod.rs:97,117`). The rename of the first (`132`) moves this unfinished file
   into place, and the other goes on writing to it while it is mapped. (If both
   unlink before either creates, the second create truncates the first one's file,
   to the same effect.)

Others were met while modelling and have no run of their own:

* A leaf without a symbol, or one that does not match the filter, sends no location,
  and the flag that marks the leaf goes to the next frame that does
  (`top_funcs.rs:371-389`): callers get self samples, against the comment that "The
  leaf frame comes first" and is always the one counted (`408-409`). `TopExact` says
  what is counted: the innermost matching function.
* `get` fills the cache with what it read before a concurrent `remove` or
  overwriting `insert` (`table.rs:172-187`), and `remove` empties the cache before it
  deletes from the database (`127-130`): the cache then goes on answering a removed
  or replaced record. `CoherentAtRest` is therefore claimed only for one thread or
  for append-only use.
* `SymDb::get` caches a mapping, or an absence, it found before an insert renamed
  and invalidated (`symdb/mod.rs:65-83`): the old symbols are answered until the
  next insert or restart. They are a whole tree, only an old one.
* The flame graph's key omits the sample kind (`flamegraph.rs:70`), against
  `cached.rs:66-68`: a switch of the kind less than a second after the graph was made
  draws the old one, and nothing asks for another frame. `ViewCurrent` holds for
  keys that tell inputs apart only.
* A drop whose extraction fails does not wait for its insert task, which takes the
  ranges it got for all of them (`symbolizer/mod.rs:374-408`): it may replace a whole
  tree by a part of it, with the record `Complete` from a fetch or an earlier drop.
  `CompleteHasSymbols` excepts dropped files from being whole.
* A `Complete` that a drop stores between the controller's read of the record and its
  write (`symbolizer/mod.rs:115,124`) is overwritten by the outcome of the fetch, which
  may be `NotPresentGlobally` or an error. The symbols stay; the status is lost.
* A file that is sent twice before its fetch fails is retried at once, not after
  30 s (`symbolizer/mod.rs:67-72,105`).
* An export that stores events between the event and the trace pass of a flush
  keeps its events and loses their traces; `sample_events` and the flame graph
  leave them out (`storage/mod.rs:76-81`, `traceevents.rs:193`).
* A flush need not leave `executables` empty ("Remove all event data",
  `storage/mod.rs:74`), even without an export: a fetch or a drop that ends during its
  last pass puts a record back (`symbolizer/mod.rs:124,419`). `FlushForgets` says what
  holds: what is left was written after the flush began.
* A range that starts at 0, as the plot yields left of 1970 (`app.rs:211-213`),
  makes `0 - step` in `event_count_buckets` (`traceevents.rs:153`): a checked
  build panics, a release build wraps and returns no buckets. `PlotsExact`
  excepts exactly this.
* The node of the first comm has the ID of the root (`flamegraph.rs:780-785,821`):
  its sandwich view is that of the root, and it is left out above the frames of
  that comm, as only "the root frame (100% of all CPU cycles)" should be
  (`flamegraph.rs:996-997`). `SandwichExact` leaves this comm out.
* The top functions and the trace frequencies ignore the selected sample kind
  (`top_funcs.rs:330`, `trace_freq.rs:123,157,177`).
* A rate and a histogram of the same range are folds over snapshots of their own
  (`trace_freq.rs:156-160,206-217` and `174-199,255-288`): where events or traces change in
  between they do not tell the same.
* Events whose trace a flush has removed count as one trace in the rate without
  leaves, and not at all in the others (`trace_freq.rs:182-184`; `FreqExact`).
* A sandwich view and the list of search matches are kept when the tree they
  were made of is replaced (`flamegraph.rs:187-193,212`); what is too narrow or
  outside the window when the filter is edited is never a match (`503-513`), and
  of a sandwich view only callees are.
* `center_on_current_match` is written for the whole graph: in a sandwich view,
  whose callees share half of it by their own weights, only the left edge of the
  match is sure to be in the window (`FocusShown`).
* Enter in the frame of an edit steps on in the old list before the new one is
  gathered: the index may be past the end, and the status reads "2/1"
  (`flamegraph.rs:120-122,187-194,637`).
* The lengths of the rings: the ring of requests holds 99 of 100
  (`collector/mod.rs:69`), the log ring one more than `LOG_RING_CAP` (`log.rs:91`).
* An ingestion of a dropped file that ends wakes no frame of its own; a queued one
  starts when the next frame draws the tab (`tabs/executables.rs:85-102`).
* A table that changes less than a second after a view was made causes a frame
  that still hits the cached value, and no later one (`cached.rs:91`).
* `UpdateWatcher::any_changes` says "the first call will always return `true`"
  (`notify.rs:31`); with an empty database all sequence numbers are 0 and it
  returns `false`. `Init` of `UiRefresh` leaves that open.
* The time stamp a sample without one gets is in seconds and then divided by
  1000 as if it were milliseconds (`service.rs:346,366-367`): its event lies in
  January 1970. `EventsExact` says so.

## 5. Proofs

The theorems hold for every value of the constants that satisfies the named
`ASSUME` of the module, and are checked by `tlapm` with Z3, Zenon and LS4.

The type invariants are theorems (`TypeCorrect`). So are the strengthenings
that the proofs below rest on (`CacheBacked`, `Discipline`, `ThreadsKnown` and others);
runs ask for what they imply.

* **CachedTable**: `CacheBounded` (counting finite sets: a put of
  a new key evicts one); `AppendOnlyBacked` and `AppendOnlyCoherent` for any
  number of threads, from the invariant `CacheBacked`, which adds to coherence
  what an operation in progress carries: coherence at rest alone is not
  inductive, since a fill may be on its way. `SerialTableIsMap`: a table used by
  one thread implements `TableMap`; the refinement needs `SerialCoherent` (a
  cached value differs from the stored one only while the thread is between the
  two halves that explain it), as a hit would otherwise not be a step of the map.
* **SymDb**: `InserterDiscipline` proves `Discipline` of every behaviour in which no
  file has two inserters at a time (`[]SingleInserter`): the inserter owns its
  temporary inode, nothing else names or maps it, only whole trees are in place
  or mapped. `TreesAlwaysWhole` and `MappingsStable` follow. The hypothesis is about
  the clients; it holds if two of them never insert the same file (`ApartIsSingle`,
  the setting of `SymDbReaders`) and of the symbolizer (below), and drag-and-drop
  breaks it (`SymDbShared`). `CachedMappingStays` needs none.
* **Symbolizer**: `StatusBacked` (`CompleteHasSymbols` is inductive with the type
  invariant because it speaks of outcomes under way, too) and `FetchesExclusive`
  (`OneFetchPerFile`, `ActiveExact` and `PendingFresh` are inductive together
  and none of them alone: a queued file is not active, so starting it starts no
  second fetch); `ActiveSetExact` is its second part: the active
  files are those being fetched and the one whose outcome is being stored.
* **SymbolStore** (`SymbolizerProofs`): the composition implements both its parts.
  `FetchesImplemented`: mapped to `Symbolizer` as it is, every step of a thread but
  the last is a stutter, the last is `FetchInsert` or, without a task,
  `DetachedInsert`. `StoreImplemented`: mapped to `SymDb`, what fetches and readers do
  is a behaviour of its clients. Hence the theorems of both modules hold of the
  composition, those of `SymDb` if its hypothesis does. `OneInserterAlways` discharges
  it. `OneInserter` is not inductive, and `OneFetchPerFile` is not enough for it, since
  a thread outlives its task. `ThreadsKnown` is (`ThreadsAlwaysKnown`, with the type
  invariants, the exact active set and what is idle in a dead controller,
  `PartsInv`): a task at its insert has the thread of its file, any other thread was
  left by a controller that has died, and a dead controller starts no fetch until the
  process, and with it the thread, has ended. So `SystemTreesAlwaysWhole` and
  `SystemMappingsStable`. `CompleteAlwaysStored` joins the two parts: `Complete` is backed
  by symbols recorded as stored (`StatusBacked`), and what is recorded as stored is
  in place (`InPlace`), because a thread returns success only when its rename is done
  and no step ever takes a file out of its place.
* **Ingest**: `RecordsBacked` from `Backed`: events and traces are backed because
  a handler is past the writes the next ones rely on (`HandlerBacked`) and a
  reader follows events that were backed (`ReaderBacked`); `RecordsAlwaysLinked` and
  `NoneSkipped` follow. That a decoded request consists of frames, of which its
  traces are made, is a lemma over raw requests (`RequestParts`). `StoredInOrder`
  (`NoHoles`) from an invariant that fixes exactly which samples a handler in
  a given place has stored. `FlushAlwaysForgets`: a stale record of the table
  under the flush is still to come from its iterator, and tables it has passed have
  none, since any write ends a record's staleness (`FlushSoFar`). `EventsAlwaysExact`, from
  `EventInv`: what a handler holds is what its request means (`HandlerSound`), each
  stored event is that of a sample (`EventSound`) and has one time (`StampedOnce`). What
  decoding returns is settled by lemmas about any request: the first attribute
  of a name (`AttrFound`), the frame of a location (`FrameSays`), the normalised time
  (`TimesMeant`).
* **UiRefresh**: `ConstructionsExclusive`, `WakeupsKept` and `ViewsCurrent`. The
  argument: whenever the drawn value is not of the selected key, at least one
  link of the chain repaint - frame - lookup - construction - count - waker -
  repaint is pending; each step hands it to the next. A panicked construction
  leaves `busy` set, which is a link that never ends, as in the code.
* **Shell**: `ShellRefinesViews`: every step of the shell is a step of `UiRefresh`
  or leaves it alone, since the range a frame settles is one of the inputs
  (`ShellAssumption`); so the theorems of `UiRefresh` hold under it.
  `RangeAlwaysKept` from `ChosenInv`: a chosen range is requested, or it is that of
  the plot and nothing scrolls; a settled frame has it.
* **EventQueries**: `RangesAreExact`. In the order of bytes only the ID zero is as
  small as the ID of the start key and only the largest as large as that of the end
  key (`BytesOfEdges`), so a range by keys misses nothing else of a range by time
  (`RangeByKeys`). `PlotsAlwaysExact`, from `QueryInv`: the counts are those of the
  events taken so far, bucket by bucket and cell by cell (`BucketInv`, `HeatInv`),
  and an event taken lies in exactly one bucket (`BucketOf`). It needs what `LaidOut`
  says of the rounded range in word arithmetic: nothing overflows unless the
  range starts at 0.
* **Views** (`ViewsProofs`): `TopAlwaysExact`, from `TopInv`. Whether a count is right
  is decided only when the channels are empty, and it depends on symbols that
  are not looked up yet. So `PipeInv` speaks of what is under way as blocks of
  locations (`Pipe`), of what a tally makes of such blocks (`Yields`), and says:
  whatever symbols the frames under way turn out to have (`Extends`), the tally
  of the pipe adds up to the right counts for the events whose trace was found
  (`Right`). A thread that passes something on leaves the tally of the whole as it
  was (`YieldsConcat`); only `LookupTrace` adds a trace, whose tally is `TraceYields`.
  The rest of the invariant says that an event is looked up once (`EventsOnce`), that
  the frames of its trace have been symbolized or are under way (`FramesMet`), and
  what an idle query holds (`Resting`).
  At the end the pipe is empty, and `Right` is `TopExact` (`TopShown`).
  That the query gets there is a safety property of two parts. `QueryAlwaysGoesOn`:
  the guards of the threads are definitions of their own, and from the last thread
  backwards, one that cannot go on has nothing left to take, so the one before it has
  room to send (`SomeThreadCan`); when all are empty the table can be shown, since
  a finite set of functions has a cut of every length (`CutExists`).
  `QueryWorkShrinks`: each step makes the six numbers of `StillToDo` smaller in
  lexicographic order (`ThreadShrinks`): there is no infinite run of steps of a query.
  `PartsImplemented`: every step of `Views` is one of the queries, of the rings and of
  the drop queue, or leaves them alone. So their theorems hold of the composition
  (`ViewsAlwaysExact`: `RangeExact`, `PlotsExact`, `TopExact`, `QueryGoesOn`, `WorkShrinks`,
  `FreqExact`, `SearchExact`, `FlameExact`, `SandwichExact`, `RingsKeepNewest` and `DropsKept`
  together).
  `FlameAlwaysExact`, from `FlameInv`: every event merged so far has a walk, the nodes its
  frames led through (`Walked`), which begins at the node of its comm (`Rooted`); the
  nodes of the tree are the paths the walks come by, and they count them
  (`Weighs`). `FlameExact` alone is not inductive: it speaks of finished traces, and
  how many nodes a frame passes is what the first event that came by stored
  in `skip`, not what the frame's symbols are by now. So the walks are part of
  the invariant, all of them finished but that of the trace being inserted
  (`Unfinished`). Two lemmas carry it: walks that meet in a node came by the
  same frames (`WalksMeet`), though a frame that calls itself hangs below its own
  inlined copies, and only one child hangs below an inlined copy, so
  `children.first_mut()` finds it (`ChainHere`).
  `SandwichAlwaysExact`, from the same invariant and `SandwichInv` (the trees shown are
  still those of the flame graph): a walk that has come to its end is a path
  that spreads the event's calls, each over one place or more (`Spread`, `Ended`).
  So the first place of a frame in the path is that of its first call, what
  is before it is the caller (`FirstSpread`), and the first other frame after it the
  callee, however often the frame recurs or was inlined (`OtherSpread`). No two hits
  have an event in common (`HitOnce`), because the search stops at a hit: with
  `HitsAll`, the mutant that goes on below it, this is false. Hence each node of
  the two trees weighs a set of events (`AboveOf`, `BelowOf`) and its children disjoint
  parts of that set (`Tallied`), from which sums and bounds follow (`TotalParts`,
  `TotalWithin`).
  `FreqAlwaysExact`, from `FreqInv`: the groups are those of the events folded so far, each
  as large as the events' shares in it, and all together as large as what was
  added (`GroupsInv`). In the end they are the groups met (`GroupsAreMet`), which settles
  both the rate and the bars.
  `SearchAlwaysExact`, from `SearchInv`: the matches are those of the tree, window and
  filter of the last edit. The step that is not obvious is `DrawnAre`: drawing stops
  at a node that is too narrow or outside the window, and misses nothing by it, since
  a child is no wider than its parent and lies within it, widths rounded down
  included (`ChildWithin`, from `TotalQuotients`).
  Both rest on lemmas about sums over sets (`TotalWith`, `TotalSum`, `TotalByValue` and others,
  at the end of `EventQueriesProofs`).
  `RingsNewest`: both rings are the end of what was
  pushed, as long as their capacities let them be (`RequestsInv`, `MessagesInv`).
  `DropsAlwaysKept`: a dropped file is in one place, and a queue that is not empty
  has an ingestion that is the last one taken (`PlacesInv`, `TaskInv`).
* **SymbolLookup**: `QueryAlwaysExact`, from `QueryInv`: what covers the address is
  found already or lies in a segment still on the stack (`NothingLost`), and
  nothing else is found. A segment is dropped because of `MaxEnd`, so the
  invariant rests on what that function computes for every tree: it is at least
  the end of every node of its segment, and the end of one (`MaxEndBounds`).
  `FramesAlwaysComplete` adds that the symbols collected are in order of depth,
  one for each depth (`SymsInv`); `LinesAlwaysExact` that a frame's line is the last of
  the table at or before the address (`OutInv`, `LineOfAddress`).

Assumptions on the constants, besides their types: the lines of a symbol are sorted
(`SymbolLookupAssumption`, as `symbfile` writes them), a frame has at least one
symbol to count (`ProfileAssumption`: one without symbols counts as unknown), the
clock, which counts seconds, is below the nanoseconds since 1970 of 2024, and each
time stamp of a sample means a second, in the unit its size tells (`StampsAssumption`),
the range asked for ends within half a word (`BoundsAssumption`, so that an overflow near
the largest word is not seen: a plot dragged or zoomed out that far is not modelled), and in a tree a node
weighs at least as much as the nodes below it together (`SearchAssumption`; in `FlameGraph`,
which builds the trees, `FlameExact` says so: the events that share a child's callers
share the node's, and each shares those of one child at most). No frame has the
ID of a comm's node, which is file ID 0 and a number (`FlameAssumption`): file IDs are
hashes or build IDs, and one of all zeroes does not occur. A frame of such a file
would be taken for a comm's node, in the code as in the model. In `SymbolStore` nothing
is dropped by the user (`SymbolStoreAssumption`): the claim is about the symbolizer, and
a drop of a file that is being fetched does break it, as `SymDbShared` shows.

Induction over data: the library's induction theorems take an operator as a
parameter, which the installed provers cannot instantiate. Where a proof needs
induction (`MaxEndDefined`, `MaxEndBounds`, `LeastNatural`, `YieldsConcat`, `SmallestSet`), it is one by least
counterexample, from the fact that `<` on the naturals is well founded, or by smallest
counterexample among finite sets.

Only model-checked:

* liveness (`CallsReturn`, `EntriesAttempted`, `ErrorsRetried`, `KeyShown`): `ENABLED`
  and fairness are out of reach of the installed provers. Where the end of
  something could be said as a safety property, it is (`QueryGoesOn`, `WorkShrinks`);
* `FocusShown`: whether a match is centred depends on how quotients of quotients are
  rounded; the run takes lengths that divide exactly.

## 6. Not modelled

Names, file formats, hashing (two keys never collide, a trace is its hash, IDs
are unique), protobuf, HTTP, symbfile decoding, object file parsing, layout,
drawing and formatting, statistics shown in the developer tabs. The selection in
FlameScope is a drag whose meaning `egui_plot`'s transformation and pointer events
decide; only what viewing it does is modelled. A handler that panics (a stack index
out of bounds, `service.rs:72`) is a refused request, and a bad file name index of
a native mapping (`285-289`) does not occur. Frames of one ID and different kinds do not
occur either; the flame graph, which compares IDs only (`flamegraph.rs:864`), would
merge them. A build without the feature `automagic-symbols` has no monitor
(`symbolizer/mod.rs:81-85`).

RocksDB's own atomicity and durability are assumed: a write, a write
batch and a snapshot are atomic, and what was written survives the end of the
process. The tables are opened with `set_unordered_write(true)` (`table.rs:460`), which
gives up a part of this: a snapshot may still change by writes that were under way when
it was taken, and a reader may see a part of a batch. The models do not have this: where
a property speaks of the events of one snapshot (`PlotsExact`, `RangeExact`), or of a
batch (the events of a sample, the frame metadata of a request), it is about the program
with ordered writes.

## 7. Plan

Done, in this order: `CachedTable` with `TableMap`, `SymDb`, `Symbolizer`,
`Ingest`, `UiRefresh`, `EventQueries`, `SymbolLookup`, the proofs of the first
five, `FlameGraph` and `TopFuncs` with `Views`, `TraceFreq` and `Shell`, then
`FlameSearch`, `Logs`, `DropQueue` and `Dictionary` under `Ingest`, the proofs
of ranges, rings, the drop queue and the shell, and those of `SymbolLookup`, of what
`Ingest` decodes and flushes, of plots, of the top functions, of trace frequencies, of
the search, of the flame graph and its sandwich view, and of what `Views` composes,
then the composition of `Symbolizer` with `SymDb` in `SymbolStore`.

Next, most important first:

1. Views of tables that change (`cached.rs:91`): a liveness property of `UiRefresh`
   that speaks of the tables' contents, which the code does not keep today.
2. `Ingest` over `CachedTable`, where the append-only use of `stack_traces` would
   follow from the handlers.

Runs stay few: a new module takes the place of a run whose question a theorem
answers for every instance.
