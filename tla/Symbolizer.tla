----------------------------- MODULE Symbolizer -----------------------------
(***************************************************************************)
(* How executables get their symbols (symbolizer/mod.rs): a monitor task   *)
(* scans the executables table once a second and sends what needs symbols  *)
(* through a bounded channel to a controller task, which fetches up to     *)
(* SYMB_MAX_PAR - 1 files at a time and stores the outcome in the table.   *)
(* The same table is written by the collector (new executables), by the    *)
(* drag-and-drop ingestion of the UI and by the flush button.              *)
(*                                                                         *)
(* A table operation is one step here (CachedTable opens it up), and so is *)
(* storing a symbol tree (SymDb).  Of an executable's record only the      *)
(* symbolization status is kept, and of symb_endpoint whether it is set:   *)
(* by default it is empty, and nothing is fetched.                         *)
(***************************************************************************)
EXTENDS Naturals, Sequences, FiniteSets

CONSTANTS
    Files,       \* file IDs
    Collectors,  \* export requests handled concurrently
    Slots,       \* one for each fetch that may run; SYMB_MAX_PAR counts them
                 \* and the idle task
    ChanCap,     \* capacity of the channel (32)
    RetryTicks,  \* SYMB_RETRY_FREQ, in seconds
    Drops,       \* the files the user drops on the executables tab
    Flushes,     \* does the user flush the database?
    PanicModes,  \* what a panic does, in the builds considered: "unwind" the
                 \* task (dev profile), "abort" the process (release profile)
    MaxFaults,   \* bound on temporary errors and restarts
    Endpoints,   \* the settings considered: is there a symb_endpoint?
    NoFile

ASSUME SymbolizerAssumption ==
    /\ NoFile \notin Files
    /\ Slots # {} /\ IsFiniteSet(Slots)
    /\ ChanCap \in Nat \ {0}
    /\ RetryTicks \in Nat
    /\ Drops \subseteq Files
    /\ Flushes \in BOOLEAN
    /\ PanicModes \subseteq {"unwind", "abort"}
    /\ MaxFaults \in Nat
    /\ Endpoints \subseteq BOOLEAN

VARIABLES
    exe,       \* exe[f]: the symb_status of the record, "absent" without one
    age,       \* age[f]: seconds since last_attempt of a TempError, up to
               \* RetryTicks + 1
    symbols,   \* symbols[f]: what SymDb holds for the file
    slept,     \* has the monitor slept for SYMB_FREQ?
    todo,      \* what the monitor's scan has still to send
    chan,      \* the channel to the controller
    ctrl,      \* where the controller stands
    pending,   \* its queue, an IndexMap popped at the end
    active,    \* its set of files being fetched
    cur,       \* the file whose outcome it stores
    outcome,   \* and that outcome, "none" without one
    job,       \* job[s]: the file of a running or finished fetch task
    stage,     \* stage[s]: how far that task is
    col,       \* col[c]: the executable collector c found missing
    drop,      \* the drag-and-drop ingestion: its file ...
    dropped,   \* ... and whether its symbols are stored
    detached,  \* files whose insert task outlives the task that waited for it
    faults,    \* temporary errors and restarts so far
    endpoint   \* was the process started with a symb_endpoint?

table == <<exe, age>>
monitor == <<slept, todo>>
controller == <<ctrl, pending, active, cur, outcome>>
tasks == <<job, stage>>
others == <<col, drop, dropped>>
vars == <<table, symbols, monitor, chan, controller, tasks, others, detached,
          faults, endpoint>>

Outcomes == {"NotPresentGlobally", "TempError", "Complete"}
Statuses == Outcomes \cup {"NotAttempted"}

\* A result is taken out of a slot, a free slot is filled.
Finished(s) == stage[s] \in Outcomes
Running(s) == stage[s] # "free"

TypeOK ==
    /\ exe \in [Files -> Statuses \cup {"absent"}]
    /\ age \in [Files -> 0 .. RetryTicks + 1]
    /\ symbols \in [Files -> {"none", "partial", "whole"}]
    /\ slept \in BOOLEAN
    /\ todo \subseteq Files
    /\ chan \in Seq(Files) /\ Len(chan) <= ChanCap
    /\ ctrl \in {"select", "store", "spawn", "dead"}
    /\ pending \in Seq(Files)
    /\ active \subseteq Files
    /\ cur \in Files \cup {NoFile}
    /\ outcome \in Outcomes \cup {"none"}
    /\ job \in [Slots -> Files \cup {NoFile}]
    /\ stage \in [Slots -> Outcomes \cup {"free", "fetch", "ranges", "insert"}]
    /\ col \in [Collectors -> Files \cup {NoFile}]
    /\ drop \in Files \cup {NoFile}
    /\ dropped \in BOOLEAN /\ (dropped => drop # NoFile)
    /\ detached \subseteq Files
    /\ faults \in 0 .. MaxFaults
    /\ endpoint \in BOOLEAN
    /\ \A s \in Slots : Running(s) <=> job[s] # NoFile
    /\ ctrl = "store" <=> cur # NoFile
    /\ ctrl = "store" <=> outcome # "none"

\* DB.executables.insert with a record of status st; a TempError carries the
\* time of the attempt.
SetStatus(f, st) ==
    /\ exe' = [exe EXCEPT ![f] = st]
    /\ age' = [age EXCEPT ![f] = IF st = "TempError" THEN 0 ELSE RetryTicks + 1]

-----------------------------------------------------------------------------
(* The monitor.                                                            *)

\* A second passes.
Tick ==
    /\ slept' = TRUE
    /\ age' = [f \in Files |-> IF age[f] <= RetryTicks THEN age[f] + 1
                               ELSE age[f]]
    /\ UNCHANGED <<exe, symbols, todo, chan, controller, tasks, others,
                   detached, faults, endpoint>>

\* An executable to send to the controller.
Due(f) ==
    \/ exe[f] = "NotAttempted"
    \/ exe[f] = "TempError" /\ age[f] > RetryTicks

\* The scan after a sleep: `now` and the iterator's snapshot are taken once.
MonitorScan ==
    /\ todo = {}
    /\ slept
    /\ todo' = {f \in Files : Due(f)}
    /\ slept' = FALSE
    /\ UNCHANGED <<table, symbols, chan, controller, tasks, others, detached,
                   faults, endpoint>>

\* tx.send(..).await waits for room in the channel.
MonitorSend ==
    /\ Len(chan) < ChanCap
    /\ ctrl # "dead"
    /\ \E f \in todo : /\ chan' = Append(chan, f)
                       /\ todo' = todo \ {f}
    /\ slept' = FALSE
    /\ UNCHANGED <<table, symbols, controller, tasks, others, detached, faults,
                   endpoint>>

\* The receiver is gone: the scan is abandoned, the next one comes all the same.
MonitorBreak ==
    /\ ctrl = "dead"
    /\ todo # {}
    /\ todo' = {}
    /\ slept' = FALSE
    /\ UNCHANGED <<table, symbols, chan, controller, tasks, others, detached,
                   faults, endpoint>>

-----------------------------------------------------------------------------
(* The controller.                                                         *)

InPending(f) == \E i \in 1 .. Len(pending) : pending[i] = f

\* Mutant of Recv: a file being fetched is queued again.
RecvActive ==
    /\ ctrl = "select"
    /\ chan # <<>>
    /\ LET f == Head(chan)
       IN  pending' = IF InPending(f) THEN pending ELSE Append(pending, f)
    /\ chan' = Tail(chan)
    /\ ctrl' = "spawn"
    /\ UNCHANGED <<table, symbols, monitor, active, cur, outcome, tasks, others,
                   detached, faults, endpoint>>

\* Mutant of Recv: back to select! without starting what is queued.
RecvWaits ==
    /\ ctrl = "select"
    /\ chan # <<>>
    /\ pending' = IF Head(chan) \in active \/ InPending(Head(chan)) THEN pending
                  ELSE Append(pending, Head(chan))
    /\ chan' = Tail(chan)
    /\ UNCHANGED <<table, symbols, monitor, ctrl, active, cur, outcome, tasks,
                   others, detached, faults, endpoint>>

\* select!, first branch.  IndexMap::insert keeps the place of a known key.
Recv ==
    /\ ctrl = "select"
    /\ chan # <<>>
    /\ LET f == Head(chan)
       IN  pending' = IF f \in active \/ InPending(f) THEN pending
                      ELSE Append(pending, f)
    /\ chan' = Tail(chan)
    /\ ctrl' = "spawn"
    /\ UNCHANGED <<table, symbols, monitor, active, cur, outcome, tasks, others,
                   detached, faults, endpoint>>

\* Mutant of Join: the slot is marked free, its file is not forgotten.
JoinKeepsJob(s) ==
    /\ ctrl = "select"
    /\ Finished(s)
    /\ exe[job[s]] # "absent"
    /\ cur' = job[s]
    /\ outcome' = stage[s]
    /\ stage' = [stage EXCEPT ![s] = "free"]
    /\ ctrl' = "store"
    /\ UNCHANGED <<table, symbols, monitor, chan, pending, active, job, others,
                   detached, faults, endpoint>>

\* select!, second branch: join_next, then the record is read ...
Join(s) ==
    /\ ctrl = "select"
    /\ Finished(s)
    /\ exe[job[s]] # "absent"
    /\ cur' = job[s]
    /\ outcome' = stage[s]
    /\ job' = [job EXCEPT ![s] = NoFile]
    /\ stage' = [stage EXCEPT ![s] = "free"]
    /\ ctrl' = "store"
    /\ UNCHANGED <<table, symbols, monitor, chan, pending, active, others,
                   detached, faults, endpoint>>

\* ... and if there is none, unwrap panics.  A panic that unwinds takes the
\* controller with it, closes its channel and cancels its tasks but for the
\* inserts, which run on threads of their own; ...
Panic(s) ==
    /\ "unwind" \in PanicModes
    /\ ctrl = "select"
    /\ Finished(s)
    /\ exe[job[s]] = "absent"
    /\ ctrl' = "dead"
    /\ chan' = <<>>
    /\ pending' = <<>>
    /\ active' = {}
    /\ detached' = detached \cup {job[t] : t \in {u \in Slots :
                                                  stage[u] = "insert"}}
    /\ job' = [t \in Slots |-> NoFile]
    /\ stage' = [t \in Slots |-> "free"]
    /\ UNCHANGED <<table, symbols, monitor, cur, outcome, others, faults,
                   endpoint>>

\* Mutant of Store: the file stays in the set of active files.
StoreKeepsActive ==
    /\ ctrl = "store"
    /\ SetStatus(cur, outcome)
    /\ cur' = NoFile
    /\ outcome' = "none"
    /\ ctrl' = "spawn"
    /\ UNCHANGED <<symbols, monitor, chan, pending, active, tasks, others,
                   detached, faults, endpoint>>

\* The record is written back with the new status.
Store ==
    /\ ctrl = "store"
    /\ SetStatus(cur, outcome)
    /\ active' = active \ {cur}
    /\ cur' = NoFile
    /\ outcome' = "none"
    /\ ctrl' = "spawn"
    /\ UNCHANGED <<symbols, monitor, chan, pending, tasks, others, detached,
                   faults, endpoint>>

\* The loop after either branch: while there are files and slots, take the
\* file queued last and, with an endpoint, start a fetch for it.
Spawn ==
    /\ ctrl = "spawn"
    /\ pending # <<>>
    /\ \E s \in Slots :
          LET f == pending[Len(pending)]
          IN  /\ ~Running(s)
              /\ \/ /\ endpoint
                    /\ job' = [job EXCEPT ![s] = f]
                    /\ stage' = [stage EXCEPT ![s] = "fetch"]
                    /\ active' = active \cup {f}
                 \/ ~endpoint /\ UNCHANGED <<tasks, active>>
    /\ pending' = SubSeq(pending, 1, Len(pending) - 1)
    /\ UNCHANGED <<table, symbols, monitor, chan, ctrl, cur, outcome, others,
                   detached, faults, endpoint>>

SpawnDone ==
    /\ ctrl = "spawn"
    /\ pending = <<>> \/ \A s \in Slots : Running(s)
    /\ ctrl' = "select"
    /\ UNCHANGED <<table, symbols, monitor, chan, pending, active, cur, outcome,
                   tasks, others, detached, faults, endpoint>>

-----------------------------------------------------------------------------
(* A fetch task.                                                           *)

Advance(s, to) == stage' = [stage EXCEPT ![s] = to]

Fault == faults < MaxFaults /\ faults' = faults + 1

\* fetch_dbg_file_id: the symbol service does not know the executable (or no
\* DWARF file of it), or names the file to fetch, or there is an error.
FetchDbgFileId(s) ==
    /\ stage[s] = "fetch"
    /\ \/ Advance(s, "NotPresentGlobally") /\ UNCHANGED faults
       \/ Advance(s, "ranges") /\ UNCHANGED faults
       \/ Advance(s, "TempError") /\ Fault
    /\ UNCHANGED <<table, symbols, monitor, chan, controller, job, others,
                   detached, endpoint>>

\* fetch_symbols: that file's ranges, or an error; one that is missing now is
\* an error too.
FetchSymbols(s) ==
    /\ stage[s] = "ranges"
    /\ \/ Advance(s, "insert") /\ UNCHANGED faults
       \/ Advance(s, "TempError") /\ Fault
    /\ UNCHANGED <<table, symbols, monitor, chan, controller, job, others,
                   detached, endpoint>>

\* Mutant of FetchInsert: a stream that breaks is taken for one that ends.
FetchInsertCut(s) ==
    /\ stage[s] = "insert"
    /\ \E got \in {"partial", "whole"} :
          symbols' = [symbols EXCEPT ![job[s]] = got]
    /\ Advance(s, "Complete")
    /\ UNCHANGED <<table, monitor, chan, controller, job, others, detached,
                   faults, endpoint>>

\* insert_symbols: the tree is stored as a whole, or an error (of the
\* stream, of the disk) leaves what was there.
FetchInsert(s) ==
    /\ stage[s] = "insert"
    /\ \/ /\ symbols' = [symbols EXCEPT ![job[s]] = "whole"]
          /\ Advance(s, "Complete")
          /\ UNCHANGED faults
       \/ /\ Advance(s, "TempError")
          /\ Fault
          /\ UNCHANGED symbols
    /\ UNCHANGED <<table, monitor, chan, controller, job, others, detached,
                   endpoint>>

-----------------------------------------------------------------------------
(* The other writers of the table.                                         *)

\* The collector meets a native frame of an executable it does not know ...
CollectorMiss(c, f) ==
    /\ col[c] = NoFile
    /\ exe[f] = "absent"
    /\ col' = [col EXCEPT ![c] = f]
    /\ UNCHANGED <<table, symbols, monitor, chan, controller, tasks, drop,
                   dropped, detached, faults, endpoint>>

\* ... and inserts a record for it, over whatever there is by then.
CollectorInsert(c) ==
    /\ col[c] # NoFile
    /\ SetStatus(col[c], "NotAttempted")
    /\ col' = [col EXCEPT ![c] = NoFile]
    /\ UNCHANGED <<symbols, monitor, chan, controller, tasks, drop,
                   dropped, detached, faults, endpoint>>

\* IngestTask: one at a time, from the drop queue of the executables tab.
DropStart(f) ==
    /\ f \in Drops
    /\ drop = NoFile
    /\ drop' = f
    /\ UNCHANGED <<table, symbols, monitor, chan, controller, tasks, col,
                   dropped, detached, faults, endpoint>>

\* The ranges are extracted and the insert task has stored them.
DropInsert ==
    /\ drop # NoFile
    /\ ~dropped
    /\ symbols' = [symbols EXCEPT ![drop] = "whole"]
    /\ dropped' = TRUE
    /\ UNCHANGED <<table, monitor, chan, controller, tasks, col, drop, detached,
                   faults, endpoint>>

\* An error ends the ingestion.  If it is the extraction's, nobody waits for
\* the insert task any more, which takes the ranges it got so far for all.
DropFail ==
    /\ drop # NoFile
    /\ ~dropped
    /\ drop' = NoFile
    /\ detached' \in {detached, detached \cup {drop}}
    /\ UNCHANGED <<table, symbols, monitor, chan, controller, tasks, col,
                   dropped, faults, endpoint>>

\* Mutant of DropStore: the insert task is not awaited.
DropStoreEarly ==
    /\ drop # NoFile
    /\ SetStatus(drop, "Complete")
    /\ drop' = NoFile
    /\ dropped' = FALSE
    /\ UNCHANGED <<symbols, monitor, chan, controller, tasks, col,
                   detached, faults, endpoint>>

\* The record is updated or created.
DropStore ==
    /\ dropped
    /\ SetStatus(drop, "Complete")
    /\ drop' = NoFile
    /\ dropped' = FALSE
    /\ UNCHANGED <<symbols, monitor, chan, controller, tasks, col,
                   detached, faults, endpoint>>

\* An insert nobody waits for stores the ranges it got, which are all of them
\* unless a dropped file's extraction broke off, or fails like any other.  (Of
\* a dropped file it is not told which insert this is, a fetch's or a drop's.)
DetachedInsert(f) ==
    /\ f \in detached
    /\ \E got \in {"whole", symbols[f]}
                   \cup (IF f \in Drops THEN {"partial"} ELSE {}) :
          symbols' = [symbols EXCEPT ![f] = got]
    /\ detached' = detached \ {f}
    /\ UNCHANGED <<table, monitor, chan, controller, tasks, others, faults,
                   endpoint>>

\* Db::flush_events removes the records, one after the other; SymDb is kept.
FlushRecord(f) ==
    /\ Flushes
    /\ exe[f] # "absent"
    /\ SetStatus(f, "absent")
    /\ UNCHANGED <<symbols, monitor, chan, controller, tasks, others,
                   detached, faults, endpoint>>

\* The process ends and starts again: table and symbols are on disk.
Reset ==
    /\ slept' = FALSE
    /\ todo' = {}
    /\ chan' = <<>>
    /\ ctrl' = "select"
    /\ pending' = <<>>
    /\ active' = {}
    /\ cur' = NoFile
    /\ job' = [s \in Slots |-> NoFile]
    /\ stage' = [s \in Slots |-> "free"]
    /\ col' = [c \in Collectors |-> NoFile]
    /\ drop' = NoFile
    /\ dropped' = FALSE
    /\ detached' = {}
    /\ outcome' = "none"
    /\ endpoint' \in Endpoints
    /\ UNCHANGED <<table, symbols>>

Restart == Fault /\ Reset

\* ... one that aborts takes the whole process.
Abort(s) ==
    /\ "abort" \in PanicModes
    /\ ctrl = "select"
    /\ Finished(s)
    /\ exe[job[s]] = "absent"
    /\ Reset
    /\ UNCHANGED faults

-----------------------------------------------------------------------------
Init ==
    /\ exe = [f \in Files |-> "absent"]
    /\ age = [f \in Files |-> RetryTicks + 1]
    /\ symbols = [f \in Files |-> "none"]
    /\ slept = FALSE
    /\ todo = {}
    /\ chan = <<>>
    /\ ctrl = "select"
    /\ pending = <<>>
    /\ active = {}
    /\ cur = NoFile
    /\ outcome = "none"
    /\ job = [s \in Slots |-> NoFile]
    /\ stage = [s \in Slots |-> "free"]
    /\ col = [c \in Collectors |-> NoFile]
    /\ drop = NoFile
    /\ dropped = FALSE
    /\ detached = {}
    /\ faults = 0
    /\ endpoint \in Endpoints

MonitorStep == MonitorScan \/ MonitorSend \/ MonitorBreak
JoinStep == \E s \in Slots : Join(s) \/ Panic(s) \/ Abort(s)
StoreStep == Store \/ Spawn \/ SpawnDone
FetchStep(s) == FetchDbgFileId(s) \/ FetchSymbols(s) \/ FetchInsert(s)
CollectorStep(c) == CollectorInsert(c) \/ \E f \in Files : CollectorMiss(c, f)
DropStep == DropInsert \/ DropFail \/ DropStore

Next ==
    \/ Tick
    \/ MonitorStep
    \/ Recv \/ JoinStep \/ StoreStep
    \/ \E s \in Slots : FetchStep(s)
    \/ \E c \in Collectors : CollectorStep(c)
    \/ DropStep
    \/ \E f \in Files : DropStart(f) \/ DetachedInsert(f) \/ FlushRecord(f)
    \/ Restart

Spec == Init /\ [][Next]_vars

\* Time passes and tasks are polled.  select! picks among ready branches at
\* random, so neither is passed over for ever; a request gets an answer.
Fairness ==
    /\ WF_vars(Tick)
    /\ WF_vars(MonitorStep)
    /\ SF_vars(Recv)
    /\ SF_vars(JoinStep)
    /\ WF_vars(StoreStep)
    /\ \A s \in Slots : WF_vars(FetchStep(s))

FairSpec == Spec /\ Fairness

-----------------------------------------------------------------------------
(* Properties.                                                             *)

\* No two fetches of one file run at a time, which is what SymDb asks of its
\* callers, nor one while the outcome of the last is still to be stored.
OneFetchPerFile ==
    /\ \A s, t \in Slots : Running(s) /\ job[s] = job[t] => s = t
    /\ ctrl = "store" => \A s \in Slots : job[s] # cur

\* The controller's set is what its tasks and its own unfinished work are
\* busy with, so a file is never left in it (no more symbols for it) ...
ActiveExact ==
    active = {job[s] : s \in {t \in Slots : Running(t)}}
             \cup (IF ctrl = "store" THEN {cur} ELSE {})

\* ... and a file being fetched is not queued as well, nor queued twice.
PendingFresh ==
    /\ \A i \in 1 .. Len(pending) : pending[i] \notin active
    /\ \A i, j \in 1 .. Len(pending) : pending[i] = pending[j] => i = j

\* A file shown as symbolized has its symbols, whoever wrote the status and
\* whatever fetch, drop, restart and flush were doing meanwhile: all of them
\* but for a file the user drops, where the insert of an ingestion that broke
\* off may come last (IngestTask::ingest does not wait for it).
Backed(f) == symbols[f] = "whole" \/ (f \in Drops /\ symbols[f] = "partial")

CompleteHasSymbols ==
    /\ \A f \in Files : exe[f] = "Complete" => Backed(f)
    /\ \A s \in Slots : stage[s] = "Complete" => Backed(job[s])
    /\ ctrl = "store" /\ outcome = "Complete" => Backed(cur)
    /\ dropped => Backed(drop)

\* "Periodically check the executable table for new entries and attempt to
\* pull in the corresponding symbols": every new entry is attempted, where
\* there is an endpoint to ask.
EntriesAttempted ==
    \A f \in Files : exe[f] = "NotAttempted" ~> exe[f] # "NotAttempted"

\* A temporary error is not the last word, as long as there are finitely many
\* and the endpoint stays set.
ErrorsRetried ==
    \A f \in Files : exe[f] = "TempError" ~> exe[f] # "TempError"
=============================================================================
