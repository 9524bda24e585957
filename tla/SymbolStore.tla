----------------------------- MODULE SymbolStore -----------------------------
(***************************************************************************)
(* The symbolizer together with the store it fills: Symbolizer takes the   *)
(* storing of a tree for one step and SymDb takes its clients' discipline  *)
(* for granted; here the blocking thread on which a fetch task runs        *)
(* insert_symbols (symbolizer/mod.rs) goes through SymDb::insert step by   *)
(* step, next to threads of the UI that call SymDb::get.                   *)
(*                                                                         *)
(* The task waits for its thread.  But a task can be cancelled, a thread   *)
(* cannot: when the controller panics its threads go on.  Nothing is       *)
(* dropped by the user here (a drop of a file being fetched is a second    *)
(* inserter, see SymDb).                                                   *)
(***************************************************************************)
EXTENDS Symbolizer

CONSTANTS
    Readers,    \* threads of the UI that look symbols up
    Trees, Inodes, Partial, None, Absent    \* see SymDb

VARIABLES
    thread,     \* thread[s]: the file that the thread started by the task in
                \* slot s inserts, NoFile without a thread
    temp, final, content, cache, pc, file, tree, fd, spoiled, map

store == <<temp, final, content, cache, pc, file, tree, fd, spoiled, map>>
system == <<vars, thread, store>>

Db == INSTANCE SymDb WITH Clients <- Readers \cup Slots,
                          MayInsert <- [f \in Files |-> Slots]

ASSUME SymbolStoreAssumption ==
    /\ Drops = {}
    /\ Readers \cap Slots = {}
    /\ Partial \notin Trees
    /\ None \notin Inodes
    /\ Absent \notin Inodes \cup {None}
    /\ Files # {}

-----------------------------------------------------------------------------
(* The symbolizer's steps that leave the store alone.                      *)

\* Mutant of StartThread: the task does not wait for its thread.
StartThreadUnawaited(s) ==
    /\ stage[s] = "ranges"
    /\ Advance(s, "Complete")
    /\ thread' = [thread EXCEPT ![s] = job[s]]
    /\ UNCHANGED <<table, symbols, monitor, chan, controller, job, others,
                   detached, faults, endpoint, store>>

\* spawn_blocking: the ranges are there, a thread converts and inserts them.
StartThread(s) ==
    /\ FetchSymbols(s)
    /\ thread' = IF stage'[s] = "insert" THEN [thread EXCEPT ![s] = job[s]]
                 ELSE thread
    /\ UNCHANGED store

\* Any other.  A panic takes the tasks, not their threads.
SymbolizerStep ==
    /\ \/ Tick \/ MonitorStep \/ Recv \/ StoreStep
       \/ \E s \in Slots : Join(s) \/ Panic(s) \/ FetchDbgFileId(s)
       \/ \E c \in Collectors : CollectorStep(c)
       \/ \E f \in Files : FlushRecord(f)
    /\ UNCHANGED <<thread, store>>

\* The end of the process is the end of its threads.
EndOfProcess ==
    /\ Restart \/ \E s \in Slots : Abort(s)
    /\ thread' = [s \in Slots |-> NoFile]
    /\ Db!Restart

-----------------------------------------------------------------------------
(* A thread that inserts.                                                  *)

\* Mutant of Finish: the task takes an error for success.
FinishAnyway(s, ok) ==
    /\ thread[s] # NoFile
    /\ thread' = [thread EXCEPT ![s] = NoFile]
    /\ \/ FetchInsert(s) /\ stage'[s] = "Complete"
       \/ /\ stage[s] # "insert"
          /\ DetachedInsert(thread[s])
          /\ symbols'[thread[s]] = IF ok THEN "whole" ELSE symbols[thread[s]]

\* insert_symbols returns to the task that waits for it, or to nobody.
Finish(s, ok) ==
    /\ thread[s] # NoFile
    /\ thread' = [thread EXCEPT ![s] = NoFile]
    /\ \/ FetchInsert(s) /\ stage'[s] = IF ok THEN "Complete" ELSE "TempError"
       \/ /\ stage[s] # "insert"
          /\ DetachedInsert(thread[s])
          /\ symbols'[thread[s]] = IF ok THEN "whole" ELSE symbols[thread[s]]

\* The tree is built and insert begins.
ThreadBegin(s) ==
    /\ thread[s] # NoFile
    /\ \E t \in Trees : Db!InsertUnlink(s, thread[s], t)
    /\ UNCHANGED <<vars, thread>>

\* The stream of ranges is broken, or the old temporary file is in the way.
ThreadFail(s) ==
    /\ pc[s] = "idle"
    /\ Finish(s, FALSE)
    /\ UNCHANGED store

\* insert goes on ...
ThreadStep(s) ==
    /\ Db!InsertCreate(s) \/ Db!InsertWrite(s) \/ Db!InsertFlush(s) \/ Db!InsertRename(s)
    /\ UNCHANGED <<vars, thread>>

\* ... and returns: an error or, the cache invalidated, success.
ThreadError(s) ==
    /\ Db!InsertError(s)
    /\ Finish(s, FALSE)

ThreadDone(s) ==
    /\ Db!InsertForget(s)
    /\ Finish(s, TRUE)

ThreadSteps(s) ==
    ThreadBegin(s) \/ ThreadFail(s) \/ ThreadStep(s) \/ ThreadError(s) \/ ThreadDone(s)

-----------------------------------------------------------------------------
\* A thread of the UI symbolizes a frame.
ReaderStep(r) ==
    /\ \/ \E f \in Files : Db!GetHit(r, f) \/ Db!GetMiss(r, f)
       \/ Db!GetOpen(r) \/ Db!GetError(r) \/ Db!GetCache(r)
    /\ UNCHANGED <<vars, thread>>

SystemInit ==
    /\ Init
    /\ Db!Init
    /\ thread = [s \in Slots |-> NoFile]

SystemNext ==
    \/ SymbolizerStep
    \/ EndOfProcess
    \/ \E s \in Slots : StartThread(s) \/ ThreadSteps(s)
    \/ \E r \in Readers : ReaderStep(r)

SystemSpec == SystemInit /\ [][SystemNext]_system

-----------------------------------------------------------------------------
(* Properties.                                                             *)

\* What SymDb asks of its clients the controller provides: no two threads
\* insert symbols of one file at a time, though the tasks that started them
\* may be gone, a record flushed and a file queued again meanwhile.
OneInserter == Db!SingleInserter

\* Hence, wherever a fetch fails, a task is cancelled or the process dies,
\* a file in place or mapped by the UI holds a whole tree, ...
SystemTreesWhole == Db!TreesWhole

\* ... and what the UI has mapped does not change under its eyes.
SystemMappedStable == Db!MappedStable

\* A file shown as symbolized has a whole tree in place.
CompleteStored ==
    \A f \in Files :
       exe[f] = "Complete" => final[f] # None /\ content[final[f]] \in Trees

\* Why the controller can promise it.  A task at its insert waits for the
\* thread of its file.  A thread nobody waits for was left by a controller
\* that died, and no other controller starts a fetch while it runs.
Orphaned(s) == thread[s] # NoFile /\ stage[s] # "insert"

ThreadsKnown ==
    /\ \A s \in Slots : stage[s] = "insert" => thread[s] = job[s]
    /\ \A s \in Slots : Orphaned(s) => ctrl = "dead" /\ thread[s] \in detached
    /\ \A s, t \in Slots : thread[s] = thread[t] /\ thread[s] # NoFile => s = t
    /\ \A s \in Slots : pc[s] # "idle" => thread[s] = file[s] /\ Db!Inserting(s)
    /\ \A r \in Readers : ~Db!Inserting(r)
=============================================================================
