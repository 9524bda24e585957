------------------------------- MODULE Ingest -------------------------------
(***************************************************************************)
(* How a profile gets into the database (collector/otlp/service.rs), how   *)
(* the UI gathers it again (TraceEvents::sample_events) and how it is      *)
(* flushed (Db::flush_events).                                             *)
(*                                                                         *)
(* An export request carries a dictionary and samples (Dictionary says what *)
(* they mean).  Its handler first walks the dictionary's locations         *)
(* (executables are recorded on the way, frame metadata in one batch at    *)
(* the end), then, sample by sample, stores the stack trace and the events *)
(* that point to it.  There is no transaction around a request: handlers   *)
(* of other requests, the flush button and readers run between any two     *)
(* writes, and an error or the end of the process leaves what was written. *)
(* The controller of symbol fetches (symbolizer/mod.rs), which updates a   *)
(* record of executables, and the ingestion of a dropped file, which       *)
(* updates or creates one, write meanwhile, too.                           *)
(*                                                                         *)
(* A table operation is one step (CachedTable opens it up).  The hash of a *)
(* trace is the trace; the events of a sample are one batch, so one key.   *)
(***************************************************************************)
EXTENDS Dictionary

CONSTANTS
    Exports,     \* export requests, each handled once; a client that
                 \* retries sends another one
    Requests,    \* the requests they may carry, by name
    Carried,     \* Carried[r]: what request r carries; a sample also tells the
                 \* seconds its stamps are meant to be, for EventsExact
    Nows,        \* what the clock may say, in seconds
    Dropped,     \* file IDs of executables the user may drop onto the window
    MaxRestarts  \* bound on restarts of the process

FramesOf(s) == {s[i] : i \in DOMAIN s}

\* The decoded requests: locs, a sequence of frames, and samples, each with its
\* trace, a sequence of frames, and flaw, the way it is malformed.  No sample is
\* looked at once a location was refused.
Decoded ==
    [name \in Requests |->
       LET r == Carried[name]
       IN  [locs |-> FramesOfLocations(r),
            samples |->
               [i \in DOMAIN r.samples |->
                  [trace |-> IF \/ Flaw(r, r.samples[i]) = "location"
                                \/ BadFrame \in FramesOf(FramesOfLocations(r))
                             THEN <<>> ELSE FrameList(r, r.samples[i]),
                   flaw |-> Flaw(r, r.samples[i])]]]]

Frames == (UNION {FramesOf(Decoded[r].locs) : r \in Requests}) \ {BadFrame}

\* Frames that come with a function.
Described == UNION {MetaData(Carried[r]) : r \in Requests}

\* The file IDs of a set's native frames, the keys of executables.
FilesOf(S) == {f.file : f \in {g \in S : IsNative(g)}}
Files == FilesOf(Frames) \cup Dropped

IsSequence(s) == s \in Seq(FramesOf(s))

\* A frame comes with its function in every request or in none.
ASSUME IngestAssumption ==
    /\ \A r \in Requests :
          /\ IsSequence(Carried[r].locations)
          /\ \A n \in DOMAIN Carried[r].locations :
                IsSequence(Carried[r].locations[n].attrs)
          /\ IsSequence(Carried[r].samples)
          /\ IsSequence(Carried[r].stacks)
          /\ \A n \in DOMAIN Carried[r].stacks : IsSequence(Carried[r].stacks[n])
          /\ MetaData(Carried[r]) = FramesOf(Decoded[r].locs) \cap Described
    /\ Requests # {} /\ Nows # {}
    /\ NoText \notin Dropped
    /\ MaxRestarts \in Nat

\* The second that a time stamp is meant to be: the unit is nanoseconds, by the
\* name of the field; a client that sends milliseconds means one before 2024.
Means(stamp, second) ==
    \/ /\ second >= Epoch /\ stamp > Epoch * Nano
       /\ second * Nano <= stamp /\ stamp < (second + 1) * Nano
    \/ /\ second < Epoch
       /\ second * Milli <= stamp /\ stamp < (second + 1) * Milli

\* The clock counts seconds: it is far from nanoseconds since 2024.
ASSUME StampsAssumption ==
    /\ Epoch \in Nat /\ Milli \in Nat \ {0} /\ Nano \in Nat /\ Milli <= Nano
    /\ \A now \in Nows : now \in Nat /\ now <= Epoch * Nano
    /\ \A r \in Requests : \A i \in DOMAIN Carried[r].samples :
          LET s == Carried[r].samples[i]
          IN  /\ \A n \in DOMAIN s.stamps :
                    s.stamps[n] \in Nat /\ \E m \in s.meant : Means(s.stamps[n], m)
              /\ \A m \in s.meant :
                    m \in Nat /\ \E n \in DOMAIN s.stamps : Means(s.stamps[n], m)

VARIABLES
    executables,  \* file IDs with a record in executables
    stackFrames,  \* frames with a record in stack_frames
    stackTraces,  \* traces with a record in stack_traces
    traceEvents,  \* keys of trace_events: <<e, i>> for sample i of export e
    req,          \* req[e]: the request of export e
    pc,           \* pc[e]: how far its handler is
    at,           \* at[e]: the location or sample it has come to
    flushing,     \* the table being flushed, "no" outside a flush
    doomed,       \* the keys the flush's iterator has still to yield
    stale,        \* (history) the records there were when the flush began that
                  \* have neither been removed nor written since
    flushed,      \* the user has flushed the database at least once
    todo,         \* the events the range query of sample_events has still to
                  \* yield
    merged,       \* the traces it has gathered
    skipped,      \* events it left out for want of their trace
    stamped,      \* (history) the second of each event of a sample that was
                  \* ever stored: <<k, second>> for key k
    outcome,      \* the file whose record the controller has read and is to
                  \* store again with the outcome of a fetch; NoText for none
    restarts

tables == <<executables, stackFrames, stackTraces, traceEvents>>
handlers == <<req, pc, at>>
flusher == <<flushing, doomed, stale, flushed>>
reader == <<todo, merged, skipped>>
vars == <<tables, handlers, flusher, reader, stamped, outcome, restarts>>

\* The records of the four tables.
Records ==
    {"traceEvents"} \X traceEvents \cup {"stackTraces"} \X stackTraces
        \cup {"stackFrames"} \X stackFrames \cup {"executables"} \X executables

\* Records are written: they are not the ones the flush found.
Written(table, keys) == stale' = stale \ ({table} \X keys)

Locs(e) == Decoded[req[e]].locs
Samples(e) == Decoded[req[e]].samples
TraceOf(v) == Samples(v[1])[v[2]].trace

Busy == {"location", "sample", "event"}

\* A handler has read the locations before its place, and stored the samples
\* before it.
TypeOK ==
    /\ executables \subseteq Files
    /\ stackFrames \subseteq Described
    /\ stackTraces \subseteq Seq(Frames)
    /\ traceEvents \subseteq Exports \X (Nat \ {0})
    /\ req \in [Exports -> Requests]
    /\ pc \in [Exports -> Busy \cup {"new", "ok", "rejected", "lost"}]
    /\ at \in [Exports -> Nat \ {0}]
    /\ \A e \in Exports :
          /\ pc[e] = "new" => at[e] = 1
          /\ pc[e] = "location" => at[e] <= Len(Locs(e)) + 1
          /\ pc[e] = "sample" => at[e] <= Len(Samples(e)) + 1
          /\ pc[e] = "event" => at[e] <= Len(Samples(e))
    /\ flushing \in {"no", "traceEvents", "stackTraces", "stackFrames",
                     "executables"}
    /\ stale \subseteq Records
    /\ flushed \in BOOLEAN /\ (flushing # "no" => flushed)
    /\ todo \subseteq Exports \X (Nat \ {0})
    /\ merged \subseteq Seq(Frames)
    /\ skipped \subseteq Exports \X (Nat \ {0})
    /\ outcome \in Files \cup {NoText}
    /\ restarts \in 0 .. MaxRestarts

-----------------------------------------------------------------------------
(* The handler of an export request.                                       *)

Goto(e, to) == pc' = [pc EXCEPT ![e] = to]

Start(e, r) ==
    /\ pc[e] = "new"
    /\ req' = [req EXCEPT ![e] = r]
    /\ Goto(e, "location")
    /\ UNCHANGED <<tables, at, flusher, reader, stamped, outcome, restarts>>

\* ingest_locations: a native frame's executable is recorded unless it is
\* known, the metadata of other frames is put into the batch.
ReadLocation(e) ==
    /\ pc[e] = "location"
    /\ at[e] <= Len(Locs(e))
    /\ Locs(e)[at[e]] # BadFrame
    /\ executables' = executables \cup FilesOf({Locs(e)[at[e]]})
    /\ at' = [at EXCEPT ![e] = @ + 1]
    /\ UNCHANGED <<stackFrames, stackTraces, traceEvents, req, pc, flusher,
                   reader, stamped, outcome, restarts>>

\* Mutant of CommitFrames: the batch is dropped.
CommitNothing(e) ==
    /\ pc[e] = "location"
    /\ at[e] > Len(Locs(e))
    /\ at' = [at EXCEPT ![e] = 1]
    /\ Goto(e, "sample")
    /\ UNCHANGED <<tables, req, flusher, reader, stamped, outcome, restarts>>

\* The end of the dictionary: the batch is committed.
CommitFrames(e) ==
    /\ pc[e] = "location"
    /\ at[e] > Len(Locs(e))
    /\ stackFrames' = stackFrames \cup MetaData(Carried[req[e]])
    /\ Written("stackFrames", MetaData(Carried[req[e]]))
    /\ at' = [at EXCEPT ![e] = 1]
    /\ Goto(e, "sample")
    /\ UNCHANGED <<executables, stackTraces, traceEvents, req, flushing, doomed,
                   flushed, reader, stamped, outcome, restarts>>

\* Mutant of StoreTrace: a trace of native frames only is not stored.
StoreTraceSkips(e) ==
    /\ pc[e] = "sample"
    /\ at[e] <= Len(Samples(e))
    /\ Samples(e)[at[e]].flaw # "location"
    /\ stackTraces' = IF \A f \in FramesOf(Samples(e)[at[e]].trace) : IsNative(f)
                      THEN stackTraces
                      ELSE stackTraces \cup {Samples(e)[at[e]].trace}
    /\ Written("stackTraces", {Samples(e)[at[e]].trace})
    /\ Goto(e, "event")
    /\ UNCHANGED <<executables, stackFrames, traceEvents, req, at, flushing,
                   doomed, flushed, reader, stamped, outcome, restarts>>

\* process_sample, first half: the trace.
StoreTrace(e) ==
    /\ pc[e] = "sample"
    /\ at[e] <= Len(Samples(e))
    /\ Samples(e)[at[e]].flaw # "location"
    /\ stackTraces' = stackTraces \cup {Samples(e)[at[e]].trace}
    /\ Written("stackTraces", {Samples(e)[at[e]].trace})
    /\ Goto(e, "event")
    /\ UNCHANGED <<executables, stackFrames, traceEvents, req, at, flushing,
                   doomed, flushed, reader, stamped, outcome, restarts>>

\* Second half: the events, committed as a batch.
StoreEvents(e) ==
    /\ pc[e] = "event"
    /\ Samples(e)[at[e]].flaw # "type"
    /\ traceEvents' = traceEvents \cup {<<e, at[e]>>}
    /\ \E now \in Nows :
          stamped' = stamped \cup
                     {<<<<e, at[e]>>, t>> : t \in Times(Carried[req[e]].samples[at[e]], now)}
    /\ at' = [at EXCEPT ![e] = @ + 1]
    /\ Goto(e, "sample")
    /\ UNCHANGED <<executables, stackFrames, stackTraces, req, flusher, reader,
                   outcome, restarts>>

\* An invalid argument ends the request: a location, a sample's location
\* index before its trace is stored, its type after that.
Malformed(e) ==
    \/ /\ pc[e] = "location"
       /\ at[e] <= Len(Locs(e))
       /\ Locs(e)[at[e]] = BadFrame
    \/ /\ pc[e] = "sample"
       /\ at[e] <= Len(Samples(e))
       /\ Samples(e)[at[e]].flaw = "location"
    \/ /\ pc[e] = "event"
       /\ Samples(e)[at[e]].flaw = "type"

\* Mutant of Reject: a malformed sample is passed over.
RejectSkips(e) ==
    /\ Malformed(e)
    /\ pc[e] \in {"sample", "event"}
    /\ at' = [at EXCEPT ![e] = @ + 1]
    /\ Goto(e, "sample")
    /\ UNCHANGED <<tables, req, flusher, reader, stamped, outcome, restarts>>

Reject(e) ==
    /\ Malformed(e)
    /\ Goto(e, "rejected")
    /\ UNCHANGED <<tables, req, at, flusher, reader, stamped, outcome, restarts>>

Accept(e) ==
    /\ pc[e] = "sample"
    /\ at[e] > Len(Samples(e))
    /\ Goto(e, "ok")
    /\ UNCHANGED <<tables, req, at, flusher, reader, stamped, outcome, restarts>>

-----------------------------------------------------------------------------
(* Other writers of executables.                                           *)

\* ingest_task_controller, a fetch has ended: the record is read (one that is
\* gone ends the controller, which Symbolizer tells), ...
OutcomeRead(x) ==
    /\ outcome = NoText
    /\ outcome' = x
    /\ UNCHANGED <<tables, handlers, flusher, reader, stamped, restarts>>

\* ... and stored, with another status.
OutcomeStore ==
    /\ outcome # NoText
    /\ executables' = executables \cup {outcome}
    /\ Written("executables", {outcome})
    /\ outcome' = NoText
    /\ UNCHANGED <<stackFrames, stackTraces, traceEvents, handlers, flushing,
                   doomed, flushed, reader, stamped, restarts>>

\* The ingestion of a dropped file is through: its executable's record is
\* updated or created.
DropIngested(x) ==
    /\ executables' = executables \cup {x}
    /\ Written("executables", {x})
    /\ UNCHANGED <<stackFrames, stackTraces, traceEvents, handlers, flushing,
                   doomed, flushed, reader, stamped, outcome, restarts>>

-----------------------------------------------------------------------------
(* Db::flush_events: table by table, the keys the table held when its      *)
(* iterator was created.                                                   *)

FlushStart ==
    /\ flushing = "no"
    /\ flushed' = TRUE
    /\ flushing' = "traceEvents"
    /\ doomed' = traceEvents
    /\ stale' = Records
    /\ UNCHANGED <<tables, handlers, reader, stamped, outcome, restarts>>

FlushKey ==
    /\ flushing # "no"
    /\ \E k \in doomed :
          /\ doomed' = doomed \ {k}
          /\ stale' = stale \ {<<flushing, k>>}
          /\ traceEvents' = IF flushing = "traceEvents" THEN traceEvents \ {k}
                            ELSE traceEvents
          /\ stackTraces' = IF flushing = "stackTraces" THEN stackTraces \ {k}
                            ELSE stackTraces
          /\ stackFrames' = IF flushing = "stackFrames" THEN stackFrames \ {k}
                            ELSE stackFrames
          /\ executables' = IF flushing = "executables" THEN executables \ {k}
                            ELSE executables
    /\ UNCHANGED <<handlers, flushing, flushed, reader, stamped, outcome, restarts>>

\* Mutant of FlushTable: stack_frames is forgotten.
FlushTableSkips ==
    /\ flushing # "no"
    /\ doomed = {}
    /\ \/ /\ flushing = "traceEvents" /\ flushing' = "stackTraces"
          /\ doomed' = stackTraces
       \/ /\ flushing = "stackTraces" /\ flushing' = "executables"
          /\ doomed' = executables
       \/ /\ flushing = "executables" /\ flushing' = "no"
          /\ doomed' = {}
    /\ UNCHANGED <<tables, handlers, stale, flushed, reader, stamped, outcome,
                   restarts>>

FlushTable ==
    /\ flushing # "no"
    /\ doomed = {}
    /\ \/ /\ flushing = "traceEvents" /\ flushing' = "stackTraces"
          /\ doomed' = stackTraces
       \/ /\ flushing = "stackTraces" /\ flushing' = "stackFrames"
          /\ doomed' = stackFrames
       \/ /\ flushing = "stackFrames" /\ flushing' = "executables"
          /\ doomed' = executables
       \/ /\ flushing = "executables" /\ flushing' = "no"
          /\ doomed' = {}
    /\ UNCHANGED <<tables, handlers, stale, flushed, reader, stamped, outcome,
                   restarts>>

-----------------------------------------------------------------------------
(* TraceEvents::sample_events: a range query over the events, each added to *)
(* its trace if that has been gathered, else the trace is looked up in      *)
(* stack_traces and the event left out if it is not there.                  *)

SampleStart ==
    /\ todo = {}
    /\ todo' = traceEvents
    /\ merged' = {}
    /\ skipped' = {}
    /\ UNCHANGED <<tables, handlers, flusher, stamped, outcome, restarts>>

SampleEvent ==
    /\ \E v \in todo :
          /\ todo' = todo \ {v}
          /\ IF TraceOf(v) \in merged \cup stackTraces
             THEN merged' = merged \cup {TraceOf(v)} /\ UNCHANGED skipped
             ELSE skipped' = skipped \cup {v} /\ UNCHANGED merged
    /\ UNCHANGED <<tables, handlers, flusher, stamped, outcome, restarts>>

-----------------------------------------------------------------------------
\* Mutant of Restart: stack_traces comes back without what was written last.
RestartLosesTraces ==
    /\ restarts < MaxRestarts
    /\ restarts' = restarts + 1
    /\ pc' = [e \in Exports |-> IF pc[e] \in Busy THEN "lost" ELSE pc[e]]
    /\ stackTraces' = {}
    /\ flushing' = "no"
    /\ doomed' = {}
    /\ todo' = {}
    /\ merged' = {}
    /\ skipped' = {}
    /\ stale' = {}
    /\ outcome' = NoText
    /\ UNCHANGED <<executables, stackFrames, traceEvents, req, at, flushed, stamped>>

\* The process ends and starts again; every write so far is in the
\* write-ahead log of its table.
Restart ==
    /\ restarts < MaxRestarts
    /\ restarts' = restarts + 1
    /\ pc' = [e \in Exports |-> IF pc[e] \in Busy THEN "lost" ELSE pc[e]]
    /\ flushing' = "no"
    /\ doomed' = {}
    /\ todo' = {}
    /\ merged' = {}
    /\ skipped' = {}
    /\ stale' = {}
    /\ outcome' = NoText
    /\ UNCHANGED <<tables, req, at, flushed, stamped>>

Init ==
    /\ executables = {}
    /\ stackFrames = {}
    /\ stackTraces = {}
    /\ traceEvents = {}
    /\ req \in [Exports -> {CHOOSE r \in Requests : TRUE}]
    /\ pc = [e \in Exports |-> "new"]
    /\ at = [e \in Exports |-> 1]
    /\ flushing = "no"
    /\ doomed = {}
    /\ stale = {}
    /\ flushed = FALSE
    /\ todo = {}
    /\ merged = {}
    /\ skipped = {}
    /\ stamped = {}
    /\ outcome = NoText
    /\ restarts = 0

Handle(e) ==
    \/ \E r \in Requests : Start(e, r)
    \/ ReadLocation(e) \/ CommitFrames(e)
    \/ StoreTrace(e) \/ StoreEvents(e)
    \/ Reject(e) \/ Accept(e)

Next ==
    \/ \E e \in Exports : Handle(e)
    \/ \E x \in executables : OutcomeRead(x)
    \/ OutcomeStore
    \/ \E x \in Dropped : DropIngested(x)
    \/ FlushStart \/ FlushKey \/ FlushTable
    \/ SampleStart \/ SampleEvent
    \/ Restart

Spec == Init /\ [][Next]_vars

-----------------------------------------------------------------------------
(* Properties.                                                             *)

\* However the handlers interleave and requests fail, an event is what its
\* sample says: it lies in the second each of its time stamps means, be they
\* nanoseconds since 2024 or milliseconds before that, and its trace has, frame
\* by frame, kind and address of the locations its stack names, though the
\* first location is a dummy and others stop at different places of the
\* decoder.  A sample without stamps is stored near the beginning of 1970: the
\* current time is in seconds, the decoder takes it for milliseconds.
EventsExact ==
    \A v \in traceEvents :
       LET r == Carried[req[v[1]]]
           s == r.samples[v[2]]
           locs == [n \in DOMAIN r.stacks[s.stack] |->
                      r.locations[r.stacks[s.stack][n]]]
           says(f, loc) ==
              \/ f = Dummy /\ loc = r.locations[1]
              \/ /\ f.address = loc.address
                 /\ \E n \in DOMAIN loc.attrs :
                       LET a == r.attributes[loc.attrs[n]]
                       IN  a.key = "profile.frame.type" /\ a.value = f.kind
           seconds == {x[2] : x \in {y \in stamped : y[1] = v}}
       IN  /\ IF s.stamps = <<>> THEN \E now \in Nows : seconds = {now \div Milli}
              ELSE seconds = s.meant
           /\ DOMAIN TraceOf(v) = DOMAIN locs
           /\ \A n \in DOMAIN locs : says(TraceOf(v)[n], locs[n])

\* Until a flush, what the UI looks up is there at every moment and after
\* every error and crash: an event's trace in stack_traces, ...
EventsBacked == ~flushed => \A v \in traceEvents : TraceOf(v) \in stackTraces

\* ... a stored trace's executables and frame metadata in theirs.
TracesBacked ==
    ~flushed =>
       \A t \in stackTraces :
          /\ FilesOf(FramesOf(t)) \subseteq executables
          /\ FramesOf(t) \cap Described \subseteq stackFrames

RecordsLinked == EventsBacked /\ TracesBacked

\* "Aggregates all matching events": no event is left out for want of its
\* trace, though events and traces are read at different times.
AllAggregated == skipped = {}

\* That is so as long as nobody flushes.
UnflushedAggregated == ~flushed => AllAggregated

\* Until a flush, an accepted request is stored whole, and one that was
\* refused or lost up to the sample it failed at, never with holes.
NoHoles ==
    ~flushed =>
       \A e \in Exports :
          LET stored == {i \in DOMAIN Samples(e) : <<e, i>> \in traceEvents}
          IN  /\ pc[e] = "ok" => stored = DOMAIN Samples(e)
              /\ \A i \in stored, j \in DOMAIN Samples(e) : j < i => j \in stored

\* "Remove all event data": whatever exports, fetches and dropped files write
\* meanwhile, what a flush leaves was written after it began.  (That may be any
\* record, and its neighbours gone: a fetch or a drop that ends in the pass over
\* executables puts a record back.)
FlushForgets ==
    [][flushing = "executables" /\ flushing' = "no" /\ restarts' = restarts
          => stale = {}]_vars

\* Why the tables refer to each other correctly without a transaction, as
\* long as nothing is removed: a handler is past the writes the next ones
\* rely on, ...
HandlerBacked ==
    ~flushed =>
       \A e \in Exports :
          /\ pc[e] = "location" => \A i \in 1 .. at[e] - 1 :
                FilesOf({Locs(e)[i]}) \subseteq executables
          /\ pc[e] \in {"sample", "event"} =>
                /\ FilesOf(FramesOf(Locs(e))) \subseteq executables
                /\ FramesOf(Locs(e)) \cap Described \subseteq stackFrames
          /\ pc[e] = "event" => Samples(e)[at[e]].trace \in stackTraces

\* ... and a reader follows events of handlers that have begun.
ReaderBacked ==
    ~flushed => /\ \A v \in todo : TraceOf(v) \in stackTraces
                /\ \A v \in traceEvents \cup todo : pc[v[1]] # "new"

Backed == EventsBacked /\ TracesBacked /\ HandlerBacked /\ ReaderBacked
=============================================================================
