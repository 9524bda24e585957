------------------------------ MODULE UiRefresh ------------------------------
(***************************************************************************)
(* How the UI shows what is computed in the background: the Cached values  *)
(* of the tabs (ui/cached.rs), the counter of their updates, the tables'   *)
(* sequence numbers (storage/notify.rs) and the waker that looks at both   *)
(* every 50 ms and asks for a repaint (ui/mod.rs).                         *)
(*                                                                         *)
(* The UI thread draws a frame when one is asked for; every Cached value   *)
(* of the frame is looked up with the input selected at that moment, which *)
(* shows what is cached and may elect a task to construct it anew.  Tasks, *)
(* waker and UI thread share nothing but atomics.                          *)
(*                                                                         *)
(* A key is what get_or_create hashes, two keys never collide.  How old a  *)
(* value is when it is looked up is left open.  egui, which draws a frame  *)
(* after any input and after request_repaint, is external.                 *)
(***************************************************************************)
EXTENDS Naturals

CONSTANTS
    Caches,   \* the Cached values a frame looks up
    Inputs,   \* what their views depend on: kind of samples, range, options
    Key,      \* Key[i]: the key get_or_create is given for input i
    Threads,  \* blocking threads that run the tasks
    NoInput,  \* the input of the default value ...
    NoKey,    \* ... and its hash, 0
    NoCache,
    Panics    \* may the construction of a value panic (and unwind)?

ASSUME UiAssumption ==
    /\ NoInput \notin Inputs
    /\ NoCache \notin Caches
    /\ Inputs # {}
    /\ \A i \in Inputs : Key[i] # NoKey
    /\ Panics \in BOOLEAN

VARIABLES
    sel,      \* sel[c]: the input the user has selected for c
    value,    \* value[c]: the cached value: its hash and the input it is made of
    busy,     \* busy[c]: being_constructed
    shown,    \* shown[c]: the value the last frame drew
    frame,    \* the caches the current frame has still to look up
    looking,  \* the one whose value it found no good, NoCache outside the lookup
    repaint,  \* a frame has been asked for
    stage,    \* stage[t]: what the task on thread t does next
    task,     \* task[t]: the cache and the input it is for, until it is done
    counted,  \* UPDATE_CTR differs from the waker's prev_ctr
    changed,  \* a table's sequence number differs from the waker's prev_seq
    waker,    \* what the waker does next
    frozen    \* the caches whose construction has panicked

drawing == <<frame, looking>>
tasks == <<stage, task>>
watching == <<counted, changed, waker>>
vars == <<sel, value, busy, shown, drawing, repaint, tasks, watching, frozen>>

Unmade == [hash |-> NoKey, made |-> NoInput]
Made(i) == [hash |-> Key[i], made |-> i]
NoTask == [cache |-> NoCache, made |-> NoInput]
Values == {Unmade} \cup {Made(i) : i \in Inputs}

\* The cache a thread constructs a value for holds being_constructed.
Constructing(t, c) == stage[t] \in {"create", "release"} /\ task[t].cache = c

TypeOK ==
    /\ sel \in [Caches -> Inputs]
    /\ value \in [Caches -> Values]
    /\ busy \in [Caches -> BOOLEAN]
    /\ shown \in [Caches -> Values]
    /\ frame \subseteq Caches
    /\ looking \in frame \cup {NoCache}
    /\ repaint \in BOOLEAN
    /\ stage \in [Threads -> {"free", "create", "release", "count"}]
    /\ task \in [Threads -> [cache : Caches, made : Inputs] \cup {NoTask}]
    /\ \A t \in Threads :
          task[t] = NoTask <=> stage[t] \in {"free", "count"}
    /\ counted \in BOOLEAN
    /\ changed \in BOOLEAN
    /\ waker \in {"tables", "caches", "repaint"}
    /\ frozen \subseteq Caches

-----------------------------------------------------------------------------
(* The UI thread.                                                          *)

\* The user selects something else (or moves the mouse): egui draws a frame,
\* another one if a frame is being drawn.
UserInput(c, i) ==
    /\ looking = NoCache
    /\ sel' = [sel EXCEPT ![c] = i]
    /\ repaint' = TRUE
    /\ UNCHANGED <<value, busy, shown, drawing, tasks, watching, frozen>>

FrameBegin ==
    /\ frame = {}
    /\ repaint
    /\ repaint' = FALSE
    /\ frame' = Caches
    /\ UNCHANGED <<sel, value, busy, shown, looking, tasks, watching, frozen>>

\* get_or_create loads the value, which it will return in any case, and is
\* done if that is of this key and not too old.
Lookup(c, old) ==
    /\ c \in frame
    /\ looking = NoCache
    /\ shown' = [shown EXCEPT ![c] = value[c]]
    /\ IF ~old /\ value[c].hash = Key[sel[c]]
       THEN frame' = frame \ {c} /\ UNCHANGED looking
       ELSE looking' = c /\ UNCHANGED frame
    /\ UNCHANGED <<sel, value, busy, repaint, tasks, watching, frozen>>

\* Mutant of Elect: a construction is started whether or not one is running.
ElectAlways ==
    /\ looking # NoCache
    /\ \E t \in Threads :
          /\ stage[t] = "free"
          /\ busy' = [busy EXCEPT ![looking] = TRUE]
          /\ stage' = [stage EXCEPT ![t] = "create"]
          /\ task' = [task EXCEPT ![t] = [cache |-> looking,
                                          made |-> sel[looking]]]
    /\ frame' = frame \ {looking}
    /\ looking' = NoCache
    /\ UNCHANGED <<sel, value, shown, repaint, watching, frozen>>

\* compare_exchange: another task is already on it, or this one is elected.
Elect ==
    /\ looking # NoCache
    /\ \/ /\ busy[looking]
          /\ UNCHANGED <<busy, tasks>>
       \/ /\ ~busy[looking]
          /\ busy' = [busy EXCEPT ![looking] = TRUE]
          /\ \E t \in Threads :
                /\ stage[t] = "free"
                /\ stage' = [stage EXCEPT ![t] = "create"]
                /\ task' = [task EXCEPT ![t] = [cache |-> looking,
                                                made |-> sel[looking]]]
    /\ frame' = frame \ {looking}
    /\ looking' = NoCache
    /\ UNCHANGED <<sel, value, shown, repaint, watching, frozen>>

-----------------------------------------------------------------------------
(* A construction task.                                                    *)

\* create() and the store of what it returned, under the key of the election.
TaskStore(t) ==
    /\ stage[t] = "create"
    /\ value' = [value EXCEPT ![task[t].cache] = Made(task[t].made)]
    /\ stage' = [stage EXCEPT ![t] = "release"]
    /\ UNCHANGED <<sel, busy, shown, drawing, repaint, task, watching, frozen>>

\* Mutant of TaskRelease: being_constructed is not cleared.
ReleaseKeepsBusy(t) ==
    /\ stage[t] = "release"
    /\ stage' = [stage EXCEPT ![t] = "count"]
    /\ task' = [task EXCEPT ![t] = NoTask]
    /\ UNCHANGED <<sel, value, busy, shown, drawing, repaint, watching, frozen>>

\* Mutant of TaskRelease: the update is not counted.
ReleaseUncounted(t) ==
    /\ stage[t] = "release"
    /\ busy' = [busy EXCEPT ![task[t].cache] = FALSE]
    /\ stage' = [stage EXCEPT ![t] = "free"]
    /\ task' = [task EXCEPT ![t] = NoTask]
    /\ UNCHANGED <<sel, value, shown, drawing, repaint, watching, frozen>>

TaskRelease(t) ==
    /\ stage[t] = "release"
    /\ busy' = [busy EXCEPT ![task[t].cache] = FALSE]
    /\ stage' = [stage EXCEPT ![t] = "count"]
    /\ task' = [task EXCEPT ![t] = NoTask]
    /\ UNCHANGED <<sel, value, shown, drawing, repaint, watching, frozen>>

\* UPDATE_CTR.fetch_add.
TaskCount(t) ==
    /\ stage[t] = "count"
    /\ counted' = TRUE
    /\ stage' = [stage EXCEPT ![t] = "free"]
    /\ UNCHANGED <<sel, value, busy, shown, drawing, repaint, task, changed,
                   waker, frozen>>

\* create() panics and only its task unwinds: nobody clears being_constructed.
TaskPanic(t) ==
    /\ Panics
    /\ stage[t] = "create"
    /\ stage' = [stage EXCEPT ![t] = "free"]
    /\ task' = [task EXCEPT ![t] = NoTask]
    /\ frozen' = frozen \cup {task[t].cache}
    /\ UNCHANGED <<sel, value, busy, shown, drawing, repaint, watching>>

-----------------------------------------------------------------------------
(* background_ui_waker; the second watcher is only asked if the first has  *)
(* seen nothing.                                                           *)

DbChange ==
    /\ changed' = TRUE
    /\ UNCHANGED <<sel, value, busy, shown, drawing, repaint, tasks, counted,
                   waker, frozen>>

WakerTables ==
    /\ waker = "tables"
    /\ changed' = FALSE
    /\ waker' = IF changed THEN "repaint" ELSE "caches"
    /\ UNCHANGED <<sel, value, busy, shown, drawing, repaint, tasks, counted,
                   frozen>>

WakerCaches ==
    /\ waker = "caches"
    /\ counted' = FALSE
    /\ waker' = IF counted THEN "repaint" ELSE "tables"
    /\ UNCHANGED <<sel, value, busy, shown, drawing, repaint, tasks, changed,
                   frozen>>

WakerRepaint ==
    /\ waker = "repaint"
    /\ repaint' = TRUE
    /\ waker' = "tables"
    /\ UNCHANGED <<sel, value, busy, shown, drawing, tasks, counted, changed,
                   frozen>>

-----------------------------------------------------------------------------
\* UPDATE_CTR starts at 1 and prev_ctr at 0; the sequence numbers of the
\* tables start at 0 with a new database only.
Init ==
    /\ sel \in [Caches -> Inputs]
    /\ value = [c \in Caches |-> Unmade]
    /\ busy = [c \in Caches |-> FALSE]
    /\ shown = [c \in Caches |-> Unmade]
    /\ frame = {}
    /\ looking = NoCache
    /\ repaint = TRUE
    /\ stage = [t \in Threads |-> "free"]
    /\ task = [t \in Threads |-> NoTask]
    /\ counted = TRUE
    /\ changed \in BOOLEAN
    /\ waker = "tables"
    /\ frozen = {}

FrameStep ==
    \/ FrameBegin
    \/ \E c \in Caches, old \in BOOLEAN : Lookup(c, old)
    \/ Elect

TaskStep(t) == TaskStore(t) \/ TaskRelease(t) \/ TaskCount(t) \/ TaskPanic(t)

WakerStep == WakerTables \/ WakerCaches \/ WakerRepaint

Next ==
    \/ \E c \in Caches, i \in Inputs : UserInput(c, i)
    \/ FrameStep
    \/ \E t \in Threads : TaskStep(t)
    \/ DbChange
    \/ WakerStep

Spec == Init /\ [][Next]_vars

\* The UI thread draws the frames it is asked for, the construction of a
\* value ends, the waker is woken every 50 ms.
FairSpec ==
    /\ Spec
    /\ WF_vars(FrameStep)
    /\ \A t \in Threads : WF_vars(TaskStep(t))
    /\ WF_vars(WakerStep)

-----------------------------------------------------------------------------
(* Properties.                                                             *)

\* At most one construction of a value runs, and being_constructed is set
\* exactly while one does, or for ever after one that panicked.  So a value
\* is never overwritten by one of an earlier election.
OneConstruction ==
    /\ \A t, u \in Threads, c \in Caches :
          Constructing(t, c) /\ Constructing(u, c) => t = u
    /\ \A t \in Threads, c \in Caches : Constructing(t, c) => c \notin frozen
    /\ \A c \in Caches :
          busy[c] <=> c \in frozen \/ \E t \in Threads : Constructing(t, c)

\* Nothing is under way that would still lead to a frame with c in it.
Quiet(c) ==
    /\ ~repaint
    /\ c \notin frame
    /\ ~busy[c]
    /\ \A t \in Threads : stage[t] # "count"
    /\ ~counted
    /\ waker # "repaint"

\* No wakeup is lost: a cache whose drawn value is not of the key selected
\* is never left so, in whatever order the lookup, the end of a construction,
\* the waker and the user's next input come.
NoLostWakeup ==
    \A c \in Caches : Quiet(c) => shown[c].hash = Key[sel[c]]

\* "Everything that influences the construction of the cached value should
\* be included here": what is left on the screen was made of what is selected.
ViewCurrent ==
    \A c \in Caches : Quiet(c) => shown[c].made = sel[c]

\* "If the key changes, the cache will be refreshed in a background task":
\* the value of a selected key is drawn in the end, unless the user selects
\* another one or the construction panicked.
KeyShown ==
    \A c \in Caches, i \in Inputs :
       sel[c] = i ~> \/ shown[c].hash = Key[i]
                     \/ sel[c] # i
                     \/ c \in frozen
=============================================================================
