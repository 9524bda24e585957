------------------------------ MODULE DropQueue ------------------------------
(***************************************************************************)
(* The files dropped on the executables tab (ui/tabs/executables.rs).      *)
(* They wait in a queue whose last one is taken first; at most one         *)
(* ingestion runs (IngestTask, whose steps Symbolizer models), on a thread *)
(* of its own, and only a frame of the UI that draws the tab sees that it  *)
(* has ended.  What is dropped while another tab is shown is not seen by   *)
(* anybody.  A file stands for its number in the order of the drops.       *)
(***************************************************************************)
EXTENDS Integers, SequencesExt

CONSTANTS
    MaxDrops,  \* bound on the files that are dropped
    NoTask

ASSUME DropAssumption == MaxDrops \in Nat /\ NoTask \notin 1 .. MaxDrops

VARIABLES
    numDropped,   \* (history) number of files dropped on the tab so far
    ingestQueue,
    ingestTask,   \* active_ingest_task: the file it is for, or NoTask
    taskDone,     \* has it ended, with success or failure?
    spawned,      \* (history) the files that were taken, in this order
    joined        \* (history) those whose outcome was seen

dropped == <<numDropped, ingestQueue, ingestTask, taskDone, spawned, joined>>

\* A frame's first half, handle_executable_drops, is told in terms of what it
\* leaves to the second: the queue with the files dropped in this frame, ...
Queued(n) == ingestQueue \o [k \in 1 .. n |-> numDropped + k]

\* ... and the ingestion, taken out and joined if it has ended.
StillActive == IF taskDone THEN NoTask ELSE ingestTask

\* Mutant of Popped: the file stays in the queue.
PoppedNot(queue) == queue

Popped(queue) == Front(queue)

\* The second half, draw_symbol_ingest_area: without an active ingestion the
\* file at the end of the queue is taken.
DrawTab(n) ==
    /\ numDropped + n <= MaxDrops
    /\ numDropped' = numDropped + n
    /\ joined' = IF taskDone THEN joined \cup {ingestTask} ELSE joined
    /\ taskDone' = FALSE
    /\ IF StillActive = NoTask /\ Queued(n) # <<>>
       THEN /\ ingestTask' = Last(Queued(n))
            /\ ingestQueue' = Popped(Queued(n))
            /\ spawned' = Append(spawned, ingestTask')
       ELSE /\ ingestTask' = StillActive
            /\ ingestQueue' = Queued(n)
            /\ UNCHANGED spawned

TaskEnds ==
    /\ ingestTask # NoTask
    /\ taskDone' = TRUE
    /\ UNCHANGED <<numDropped, ingestQueue, ingestTask, spawned, joined>>

DropsInit ==
    /\ numDropped = 0
    /\ ingestQueue = <<>>
    /\ ingestTask = NoTask
    /\ taskDone = FALSE
    /\ spawned = <<>>
    /\ joined = {}

DropsNext == TaskEnds \/ \E n \in 0 .. MaxDrops : DrawTab(n)

DropsSpec == DropsInit /\ [][DropsNext]_dropped

\* Whenever files are dropped and ingestions end, between frames or in the
\* frame of another drop: each dropped file is ingested at most once, is waiting
\* until then, is never skipped for an older one, and waits only while an
\* ingestion is there whose end the next frame sees; and each outcome is seen.
DropsKept ==
    /\ IsInjective(ingestQueue \o spawned)
    /\ Range(ingestQueue \o spawned) = 1 .. numDropped
    /\ \A i, j \in DOMAIN ingestQueue : i < j => ingestQueue[i] < ingestQueue[j]
    /\ ingestQueue # <<>> => ingestTask = Last(spawned)
    /\ joined = Range(spawned) \ {ingestTask}
=============================================================================
