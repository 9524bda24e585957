---------------------------- MODULE ShellProofs ----------------------------
(***************************************************************************)
(* Proofs about the cached views and about the range of time the UI shows. *)
(* The first part is about UiRefresh alone, for any number of caches in a  *)
(* frame, of inputs and of threads, and any keys.  In the second the       *)
(* shell's inputs, frames and clock are steps of the cached values below   *)
(* it, or leave them alone, so what UiRefresh promises for arbitrary       *)
(* inputs holds under the range the shell settles; and a range the user    *)
(* has chosen stays.                                                       *)
(***************************************************************************)
EXTENDS Shell, TLAPS

-----------------------------------------------------------------------------
(* The cached views, whatever the inputs.                                  *)

(* Type correctness: a thread carries a task exactly while it has to       *)
(* construct or release, and a cached value has the hash of its input.     *)
THEOREM TypeCorrect == Spec => []TypeOK
  <1> USE UiAssumption DEF drawing, tasks, watching
  <1>n. NoTask \notin [cache : Caches, made : Inputs]
    BY DEF NoTask
  <1>1. Init => TypeOK
    BY DEF Init, TypeOK, Values
  <1>2. TypeOK /\ [Next]_vars => TypeOK'
    <2> SUFFICES ASSUME TypeOK, [Next]_vars PROVE TypeOK'
      OBVIOUS
    <2>1. ASSUME NEW c \in Caches, NEW i \in Inputs, UserInput(c, i)
          PROVE  TypeOK'
      BY <2>1 DEF UserInput, TypeOK
    <2>2. CASE FrameBegin
      BY <2>2 DEF FrameBegin, TypeOK
    <2>3. ASSUME NEW c \in Caches, NEW old \in BOOLEAN, Lookup(c, old)
          PROVE  TypeOK'
      BY <2>3 DEF Lookup, TypeOK
    <2>4. CASE Elect
      <3>1. looking \in Caches /\ [cache |-> looking, made |-> sel[looking]]
                                     \in [cache : Caches, made : Inputs]
        BY <2>4 DEF Elect, TypeOK
      <3>2. CASE busy[looking] /\ UNCHANGED <<busy, tasks>>
        BY <2>4, <3>1, <3>2 DEF Elect, TypeOK
      <3>3. ASSUME NEW t \in Threads,
                   busy' = [busy EXCEPT ![looking] = TRUE],
                   stage' = [stage EXCEPT ![t] = "create"],
                   task' = [task EXCEPT ![t] = [cache |-> looking,
                                                made |-> sel[looking]]]
            PROVE  TypeOK'
        BY <2>4, <3>1, <3>3, <1>n DEF Elect, TypeOK
      <3>4. QED
        BY <2>4, <3>2, <3>3 DEF Elect
    <2>5. ASSUME NEW t \in Threads, TaskStep(t) PROVE TypeOK'
      <3>1. CASE TaskStore(t)
        <4>1. task[t] \in [cache : Caches, made : Inputs]
          BY <3>1 DEF TaskStore, TypeOK
        <4>2. value' \in [Caches -> Values]
          BY <3>1, <4>1 DEF TaskStore, TypeOK, Values
        <4>3. QED
          BY <3>1, <4>2 DEF TaskStore, TypeOK
      <3>2. CASE TaskRelease(t)
        BY <3>2 DEF TaskRelease, TypeOK
      <3>3. CASE TaskCount(t)
        BY <3>3 DEF TaskCount, TypeOK
      <3>4. CASE TaskPanic(t)
        <4>1. task[t] \in [cache : Caches, made : Inputs]
          BY <3>4 DEF TaskPanic, TypeOK
        <4>2. QED
          BY <3>4, <4>1 DEF TaskPanic, TypeOK
      <3>5. QED
        BY <2>5, <3>1, <3>2, <3>3, <3>4 DEF TaskStep
    <2>6. CASE DbChange
      BY <2>6 DEF DbChange, TypeOK
    <2>7. CASE WakerStep
      BY <2>7 DEF WakerStep, WakerTables, WakerCaches, WakerRepaint, TypeOK
    <2>8. CASE UNCHANGED vars
      BY <2>8 DEF vars, TypeOK
    <2>9. QED
      BY <2>1, <2>2, <2>3, <2>4, <2>5, <2>6, <2>7, <2>8 DEF Next, FrameStep
  <1>3. QED
    BY <1>1, <1>2, PTL DEF Spec

-----------------------------------------------------------------------------
(* At most one construction per cached value, whatever the frames and the  *)
(* threads do: the flag tells exactly whether there is one.                *)
THEOREM ConstructionsExclusive == Spec => []OneConstruction
  <1> USE UiAssumption DEF drawing, tasks, watching, OneConstruction, Constructing
  <1>1. Init => OneConstruction
    BY DEF Init
  <1>2. TypeOK /\ OneConstruction /\ [Next]_vars => OneConstruction'
    <2> SUFFICES ASSUME TypeOK, OneConstruction, [Next]_vars
                 PROVE  OneConstruction'
      OBVIOUS
    <2>1. ASSUME UNCHANGED <<busy, tasks, frozen>> PROVE OneConstruction'
      BY <2>1
    <2>2. CASE Elect
      <3>1. looking \in Caches
        BY <2>2 DEF Elect, TypeOK
      <3>2. ASSUME NEW t \in Threads, ~busy[looking], stage[t] = "free",
                   busy' = [busy EXCEPT ![looking] = TRUE],
                   stage' = [stage EXCEPT ![t] = "create"],
                   task' = [task EXCEPT ![t] = [cache |-> looking,
                                                made |-> sel[looking]]]
            PROVE  OneConstruction'
        <4>1. \A u \in Threads : ~Constructing(u, looking)
          BY <3>1, <3>2
        <4>2. \A u \in Threads, c \in Caches :
                 Constructing(u, c)' <=> IF u = t THEN c = looking
                                         ELSE Constructing(u, c)
          BY <3>2 DEF TypeOK
        <4>3. ~Constructing(t, looking) /\ \A c \in Caches : ~Constructing(t, c)
          BY <3>2
        <4>4. \A c \in Caches : busy'[c] <=> c = looking \/ busy[c]
          BY <3>2 DEF TypeOK
        <4>5. frozen' = frozen
          BY <2>2 DEF Elect
        <4>6. looking \notin frozen
          BY <3>1, <3>2
        <4> HIDE DEF Constructing
        <4>7. ASSUME NEW u \in Threads, NEW v \in Threads, NEW c \in Caches,
                     Constructing(u, c)', Constructing(v, c)'
              PROVE  u = v
          BY <4>1, <4>2, <4>7
        <4>8. ASSUME NEW u \in Threads, NEW c \in Caches, Constructing(u, c)'
              PROVE  c \notin frozen'
          BY <4>2, <4>5, <4>6, <4>8
        <4>9. ASSUME NEW c \in Caches
              PROVE  busy'[c] <=> c \in frozen' \/
                                  \E u \in Threads : Constructing(u, c)'
          BY <4>2, <4>3, <4>4, <4>5
        <4>10. QED
          BY <4>7, <4>8, <4>9
      <3>3. QED
        BY <2>1, <2>2, <3>2 DEF Elect
    <2>3. ASSUME NEW t \in Threads, TaskStore(t) PROVE OneConstruction'
      <3>1. \A u \in Threads, c \in Caches :
               Constructing(u, c)' <=> Constructing(u, c)
        BY <2>3 DEF TaskStore, TypeOK
      <3>2. UNCHANGED <<busy, frozen>>
        BY <2>3 DEF TaskStore
      <3> HIDE DEF Constructing
      <3>3. QED
        BY <3>1, <3>2
    <2>4. ASSUME NEW t \in Threads, TaskRelease(t) \/ TaskPanic(t)
          PROVE  OneConstruction'
      <3>1. /\ task[t].cache \in Caches
            /\ Constructing(t, task[t].cache)
        BY <2>4 DEF TaskRelease, TaskPanic, TypeOK
      <3>2. \A u \in Threads, c \in Caches :
               Constructing(u, c)' <=> u # t /\ Constructing(u, c)
        BY <2>4 DEF TaskRelease, TaskPanic, TypeOK
      <3>3. \A c \in Caches : Constructing(t, c) <=> c = task[t].cache
        BY <3>1
      <3>4. CASE TaskRelease(t)
        <4>1. /\ frozen' = frozen
              /\ \A c \in Caches : busy'[c] <=> busy[c] /\ c # task[t].cache
          BY <3>4 DEF TaskRelease, TypeOK
        <4>2. task[t].cache \notin frozen
          BY <3>1
        <4> HIDE DEF Constructing
        <4>3. QED
          BY <3>1, <3>2, <3>3, <4>1, <4>2
      <3>5. CASE TaskPanic(t)
        <4>1. frozen' = frozen \cup {task[t].cache} /\ busy' = busy
          BY <3>5 DEF TaskPanic
        <4> HIDE DEF Constructing
        <4>2. QED
          BY <3>1, <3>2, <3>3, <4>1
      <3>6. QED
        BY <2>4, <3>4, <3>5
    <2>5. ASSUME NEW t \in Threads, TaskCount(t) PROVE OneConstruction'
      <3>1. \A u \in Threads, c \in Caches :
               Constructing(u, c)' <=> Constructing(u, c)
        BY <2>5 DEF TaskCount, TypeOK
      <3>2. UNCHANGED <<busy, frozen>>
        BY <2>5 DEF TaskCount
      <3> HIDE DEF Constructing
      <3>3. QED
        BY <3>1, <3>2
    <2>6. QED
      BY <2>1, <2>2, <2>3, <2>4, <2>5
         DEF Next, FrameStep, TaskStep, WakerStep, UserInput, FrameBegin, Lookup,
             DbChange, WakerTables, WakerCaches, WakerRepaint, vars
  <1>3. QED
    BY <1>1, <1>2, TypeCorrect, PTL DEF Spec

-----------------------------------------------------------------------------
(* No interleaving of frames, inputs, constructions and the waker leaves a *)
(* cache drawn with the value of another key and nothing under way to      *)
(* draw it again.  It is inductive as it stands: every step that takes one *)
(* of the disjuncts of ~Quiet away establishes the next one.               *)
THEOREM WakeupsKept == Spec => []NoLostWakeup
  <1> USE DEF drawing, tasks, watching, NoLostWakeup, Quiet
  <1>1. Init => NoLostWakeup
    BY DEF Init
  <1>2. TypeOK /\ NoLostWakeup /\ [Next]_vars => NoLostWakeup'
    <2> SUFFICES ASSUME TypeOK, NoLostWakeup, [Next]_vars PROVE NoLostWakeup'
      OBVIOUS
    <2>1. ASSUME NEW c \in Caches, NEW i \in Inputs, UserInput(c, i)
          PROVE  NoLostWakeup'
      BY <2>1 DEF UserInput
    <2>2. CASE FrameBegin
      BY <2>2 DEF FrameBegin
    <2>3. ASSUME NEW c \in Caches, NEW old \in BOOLEAN, Lookup(c, old)
          PROVE  NoLostWakeup'
      <3>1. /\ shown' = [shown EXCEPT ![c] = value[c]] /\ c \in frame
            /\ UNCHANGED <<sel, busy, repaint, tasks, watching>>
            /\ \/ frame' = frame \ {c} /\ value[c].hash = Key[sel[c]]
               \/ frame' = frame
        BY <2>3 DEF Lookup
      <3>2. shown'[c] = value[c] /\ \A d \in Caches : d # c => shown'[d] = shown[d]
        BY <3>1 DEF TypeOK
      <3>3. QED
        BY <3>1, <3>2
    <2>4. CASE Elect
      <3>1. /\ looking \in Caches /\ busy'[looking]
            /\ \A d \in Caches : busy[d] => busy'[d]
            /\ \A t \in Threads : stage[t] = "count" => stage'[t] = "count"
            /\ frame' = frame \ {looking}
            /\ UNCHANGED <<sel, shown, repaint, watching>>
        BY <2>4 DEF Elect, TypeOK
      <3>2. QED
        BY <3>1
    <2>5. ASSUME NEW t \in Threads, TaskStore(t) \/ TaskPanic(t)
          PROVE  NoLostWakeup'
      <3>1. /\ UNCHANGED <<sel, shown, frame, repaint, busy, watching>>
            /\ \A u \in Threads : stage[u] = "count" => stage'[u] = "count"
        BY <2>5 DEF TaskStore, TaskPanic, TypeOK
      <3>2. QED
        BY <3>1
    <2>6. ASSUME NEW t \in Threads, TaskRelease(t) PROVE NoLostWakeup'
      <3>1. stage'[t] = "count"
        BY <2>6 DEF TaskRelease, TypeOK
      <3>2. QED
        BY <3>1
    <2>7. ASSUME NEW t \in Threads, TaskCount(t) PROVE NoLostWakeup'
      BY <2>7 DEF TaskCount
    <2>8. CASE DbChange
      BY <2>8 DEF DbChange
    <2>9. CASE WakerStep
      BY <2>9 DEF WakerStep, WakerTables, WakerCaches, WakerRepaint
    <2>10. CASE UNCHANGED vars
      BY <2>10 DEF vars
    <2>11. QED
      BY <2>1, <2>2, <2>3, <2>4, <2>5, <2>6, <2>7, <2>8, <2>9, <2>10
         DEF Next, FrameStep, TaskStep
  <1>3. QED
    BY <1>1, <1>2, TypeCorrect, PTL DEF Spec

(* If no two inputs share a key, what is left on the screen is made of     *)
(* what is selected.                                                       *)
THEOREM ViewsCurrent ==
    ASSUME \A i, j \in Inputs : Key[i] = Key[j] => i = j
    PROVE  Spec => []ViewCurrent
  <1>1. TypeOK /\ NoLostWakeup => ViewCurrent
    <2> SUFFICES ASSUME TypeOK, NoLostWakeup, NEW c \in Caches, Quiet(c)
                 PROVE  shown[c].made = sel[c]
      BY DEF ViewCurrent
    <2>1. shown[c].hash = Key[sel[c]] /\ sel[c] \in Inputs /\ shown[c] \in Values
      BY DEF NoLostWakeup, TypeOK
    <2>2. shown[c] # Unmade
      BY <2>1, UiAssumption DEF Unmade
    <2>3. PICK i \in Inputs : shown[c] = Made(i)
      BY <2>1, <2>2 DEF Values
    <2>4. QED
      BY <2>1, <2>3 DEF Made
  <1>2. QED
    BY <1>1, TypeCorrect, WakeupsKept, PTL

-----------------------------------------------------------------------------
(* The range of time on top of them.                                       *)

shell == <<vars, range>>

(* What the range can be, whatever the cached values do. *)
RangeTypes ==
    /\ sel \in [Caches -> Inputs]
    /\ now \in Times
    /\ auto \in Lookbacks \cup {NoRange}
    /\ requested \in Inputs \cup {NoRange}
    /\ bounds \in Inputs
    /\ settled \in BOOLEAN
    /\ chosen \in Inputs \cup {NoRange}
    /\ requested # NoRange => auto = NoRange \/ chosen = NoRange

(* The range a frame settles on. *)
Settled == CASE requested # NoRange -> requested
             [] requested = NoRange /\ auto # NoRange -> Last(auto, now)
             [] OTHER -> bounds

(* The range the shell settles is an input of the caches.                   *)
LEMMA SettledInput == ASSUME RangeTypes PROVE Settled \in Inputs
  <1>1. CASE requested # NoRange
    BY <1>1 DEF RangeTypes, Settled
  <1>2. CASE requested = NoRange /\ auto # NoRange
    <2>1. Last(auto, now) \in Inputs
      BY <1>2, ShellAssumption DEF RangeTypes
    <2>2. QED
      BY <1>2, <2>1 DEF Settled
  <1>3. CASE requested = NoRange /\ auto = NoRange
    BY <1>3 DEF RangeTypes, Settled
  <1>4. QED
    BY <1>1, <1>2, <1>3

(* The user's steps and the frame that settles the range are inputs to the   *)
(* cached views.                                                             *)
LEMMA HandledInput ==
    ASSUME RangeTypes, Handled
    PROVE  /\ \E c \in Caches, i \in Inputs : UserInput(c, i)
           /\ sel' = sel /\ frame' = frame
  <1>1. View \in Caches /\ sel[View] \in Inputs /\ UserInput(View, sel[View])
    BY ShellAssumption DEF Handled, RangeTypes
  <1>2. QED
    BY <1>1 DEF UserInput, RangeTypes, drawing

(* Settling the range is an input of the user or changes nothing.           *)
LEMMA SettledUserInput ==
    ASSUME RangeTypes, SamplesWidget
    PROVE  /\ \E c \in Caches, i \in Inputs : UserInput(c, i)
           /\ sel' = [sel EXCEPT ![View] = Settled] /\ bounds' = Settled
           /\ frame' = frame
  <1>1. View \in Caches /\ Settled \in Inputs
    BY ShellAssumption, SettledInput
  <1>2. UserInput(View, Settled) /\ bounds' = Settled
    BY DEF SamplesWidget, Settled
  <1>3. QED
    BY <1>1, <1>2 DEF UserInput, drawing

(* What the UI's tasks, the waker and the rest of a frame do leaves the       *)
(* selected inputs and the range alone.                                       *)
Below ==
    \/ (\E c \in Caches, old \in BOOLEAN : Lookup(c, old)) /\ UNCHANGED range
    \/ Elect /\ UNCHANGED range
    \/ (\E t \in Threads : TaskStep(t)) /\ UNCHANGED range
    \/ DbChange /\ UNCHANGED range
    \/ WakerStep /\ UNCHANGED range

(* The steps of the cached values leave the range alone.                    *)
LEMMA BelowKeepsRange ==
    ASSUME Below
    PROVE  Next /\ sel' = sel /\ UNCHANGED range
  <1>1. ASSUME NEW c \in Caches, NEW old \in BOOLEAN, Lookup(c, old)
        PROVE  Next /\ sel' = sel
    BY <1>1 DEF Next, FrameStep, Lookup
  <1>2. ASSUME Elect
        PROVE  Next /\ sel' = sel
    BY <1>2 DEF Next, FrameStep, Elect
  <1>3. ASSUME NEW t \in Threads, TaskStep(t)
        PROVE  Next /\ sel' = sel
    BY <1>3 DEF Next, TaskStep, TaskStore, TaskRelease, TaskCount, TaskPanic
  <1>4. ASSUME DbChange
        PROVE  Next /\ sel' = sel
    BY <1>4 DEF Next, DbChange
  <1>5. ASSUME WakerStep
        PROVE  Next /\ sel' = sel
    BY <1>5 DEF Next, WakerStep, WakerTables, WakerCaches, WakerRepaint
  <1>6. QED
    BY <1>1, <1>2, <1>3, <1>4, <1>5 DEF Below

(* A step of the shell is one of the cached values or leaves them alone.    *)
LEMMA ShellSteps ==
    ASSUME ShellNext
    PROVE  \/ \E d \in Lookbacks : TimeSelector(d)
           \/ \E r \in Inputs : DragPlot(r)
           \/ \E r \in Inputs : ViewSelection(r)
           \/ SamplesWidget
           \/ ShellFrame
           \/ Below
           \/ Clock
  BY DEF ShellNext, UiThread, Below

(* The types of the range.                                                  *)
LEMMA TypesKept == ShellSpec => []RangeTypes
  <1>1. ShellInit => RangeTypes
    BY ShellAssumption DEF ShellInit, Init, RangeTypes
  <1>2. RangeTypes /\ [ShellNext]_shell => RangeTypes'
    <2> SUFFICES ASSUME RangeTypes, [ShellNext]_shell
                 PROVE  RangeTypes'
      OBVIOUS
    <2>1. ASSUME NEW d \in Lookbacks, TimeSelector(d)
          PROVE  RangeTypes'
      BY <2>1, HandledInput DEF TimeSelector, RangeTypes
    <2>2. ASSUME NEW r \in Inputs, DragPlot(r)
          PROVE  RangeTypes'
      BY <2>2, HandledInput, ShellAssumption DEF DragPlot, RangeTypes
    <2>3. ASSUME NEW r \in Inputs, ViewSelection(r)
          PROVE  RangeTypes'
      BY <2>3, HandledInput DEF ViewSelection, SwitchTabWithTimeRange, RangeTypes
    <2>4. CASE SamplesWidget
      <3>1. Settled \in Inputs /\ sel' \in [Caches -> Inputs] /\ bounds' \in Inputs
        BY <2>4, SettledInput, SettledUserInput DEF RangeTypes
      <3>2. requested' = NoRange /\ settled' = TRUE /\ UNCHANGED <<now, auto, chosen>>
        BY <2>4 DEF SamplesWidget
      <3>3. QED
        BY <3>1, <3>2 DEF RangeTypes
    <2>5. CASE ShellFrame
      BY <2>5 DEF ShellFrame, FrameBegin, RangeTypes
    <2>6. CASE Below
      BY <2>6, BelowKeepsRange DEF range, RangeTypes
    <2>7. CASE Clock
      BY <2>7 DEF Clock, vars, RangeTypes
    <2>8. CASE UNCHANGED shell
      BY <2>8 DEF shell, vars, range, RangeTypes
    <2>9. QED
      BY <2>1, <2>2, <2>3, <2>4, <2>5, <2>6, <2>7, <2>8, ShellSteps
  <1>3. QED
    BY <1>1, <1>2, PTL DEF ShellSpec, shell

-----------------------------------------------------------------------------
(* A shell whose range scrolls, is dragged and is selected drives its cached  *)
(* views as arbitrary inputs do: the composition implements the views' own    *)
(* specification, and their theorems hold for it.                             *)
THEOREM ShellRefinesViews == ShellSpec => Spec
  <1>1. ShellInit => Init
    BY DEF ShellInit
  <1>2. RangeTypes /\ [ShellNext]_shell => [Next]_vars
    <2> SUFFICES ASSUME RangeTypes, [ShellNext]_shell
                 PROVE  [Next]_vars
      OBVIOUS
    <2>1. ASSUME NEW d \in Lookbacks, TimeSelector(d)
          PROVE  Next
      BY <2>1, HandledInput DEF TimeSelector, Next
    <2>2. ASSUME NEW r \in Inputs, DragPlot(r)
          PROVE  Next
      BY <2>2, HandledInput DEF DragPlot, Next
    <2>3. ASSUME NEW r \in Inputs, ViewSelection(r)
          PROVE  Next
      BY <2>3, HandledInput DEF ViewSelection, Next
    <2>4. CASE SamplesWidget
      BY <2>4, SettledUserInput DEF Next
    <2>5. CASE ShellFrame
      BY <2>5 DEF ShellFrame, Next, FrameStep
    <2>6. CASE Below
      BY <2>6, BelowKeepsRange
    <2>7. CASE Clock
      BY <2>7 DEF Clock
    <2>8. CASE UNCHANGED shell
      BY <2>8 DEF shell
    <2>9. QED
      BY <2>1, <2>2, <2>3, <2>4, <2>5, <2>6, <2>7, <2>8, ShellSteps
  <1>3. QED
    BY <1>1, <1>2, TypesKept, PTL DEF ShellSpec, Spec, shell

(* Under the shell, too, a value is constructed once at a time.               *)
THEOREM ShellConstructsOnce == ShellSpec => []OneConstruction
  BY ShellRefinesViews, ConstructionsExclusive, PTL

(* ... and the types of shell and views are right. *)
THEOREM ShellTypeCorrect == ShellSpec => []ShellTypeOK
  <1>1. RangeTypes /\ TypeOK => ShellTypeOK
    BY DEF RangeTypes, ShellTypeOK
  <1>2. QED
    BY <1>1, TypesKept, ShellRefinesViews, TypeCorrect, PTL

-----------------------------------------------------------------------------
(* A chosen range is on its way or in the plot, and then nothing scrolls; a    *)
(* frame that is settled shows it.                                            *)
ChosenInv ==
    chosen # NoRange =>
       /\ \/ requested = chosen
          \/ requested = NoRange /\ auto = NoRange /\ bounds = chosen
       /\ settled => sel[View] = chosen

(* The range to which the user has dragged the plot, or which was selected in  *)
(* FlameScope, is that of every frame from then on until the user chooses      *)
(* again, for any clock, lookbacks and inputs.                                 *)
THEOREM RangeAlwaysKept == ShellSpec => RangeKept
  <1>1. ShellInit => ChosenInv
    BY DEF ShellInit, ChosenInv
  <1>2. RangeTypes /\ ChosenInv /\ [ShellNext]_shell => ChosenInv'
    <2> SUFFICES ASSUME RangeTypes, ChosenInv, [ShellNext]_shell
                 PROVE  ChosenInv'
      OBVIOUS
    <2>1. ASSUME NEW d \in Lookbacks, TimeSelector(d)
          PROVE  ChosenInv'
      BY <2>1 DEF TimeSelector, ChosenInv
    <2>2. ASSUME NEW r \in Inputs, DragPlot(r)
          PROVE  ChosenInv'
      BY <2>2 DEF DragPlot, Handled, ChosenInv
    <2>3. ASSUME NEW r \in Inputs, ViewSelection(r)
          PROVE  ChosenInv'
      BY <2>3 DEF ViewSelection, SwitchTabWithTimeRange, Handled, ChosenInv
    <2>4. CASE SamplesWidget
      <3>1. /\ bounds' = Settled /\ sel'[View] = Settled
            /\ requested' = NoRange /\ auto' = auto /\ chosen' = chosen
        BY <2>4, SettledUserInput, ShellAssumption DEF SamplesWidget, RangeTypes
      <3>2. ASSUME chosen # NoRange
            PROVE  Settled = chosen /\ auto = NoRange
        BY <3>2 DEF ChosenInv, Settled, RangeTypes
      <3>3. QED
        BY <3>1, <3>2 DEF ChosenInv
    <2>5. CASE ShellFrame
      BY <2>5 DEF ShellFrame, ChosenInv
    <2>6. CASE Below
      BY <2>6, BelowKeepsRange DEF range, ChosenInv
    <2>7. CASE Clock
      BY <2>7 DEF Clock, vars, ChosenInv
    <2>8. CASE UNCHANGED shell
      BY <2>8 DEF shell, vars, range, ChosenInv
    <2>9. QED
      BY <2>1, <2>2, <2>3, <2>4, <2>5, <2>6, <2>7, <2>8, ShellSteps
  <1> DEFINE Kept == frame = {} /\ frame' # {} /\ chosen # NoRange => sel[View] = chosen
  <1>3. RangeTypes /\ ChosenInv /\ [ShellNext]_shell => [Kept]_shell
    <2> SUFFICES ASSUME RangeTypes, ChosenInv, ShellNext,
                        frame = {}, frame' # {}, chosen # NoRange
                 PROVE  sel[View] = chosen
      BY DEF Kept
    <2>1. \A d \in Lookbacks : ~TimeSelector(d)
      BY HandledInput DEF TimeSelector
    <2>2. \A r \in Inputs : ~DragPlot(r) /\ ~ViewSelection(r)
      BY HandledInput DEF DragPlot, ViewSelection
    <2>3. ~SamplesWidget
      BY SettledUserInput
    <2>4. ~Below
      BY DEF Below, Lookup, Elect, TaskStep, TaskStore, TaskRelease, TaskCount, TaskPanic,
             DbChange, WakerStep, WakerTables, WakerCaches, WakerRepaint, drawing
    <2>5. ~Clock
      BY DEF Clock, vars, drawing
    <2>6. ShellFrame
      BY <2>1, <2>2, <2>3, <2>4, <2>5, ShellSteps
    <2>7. QED
      BY <2>6 DEF ShellFrame, ChosenInv
  <1>4. QED
    BY <1>1, <1>2, <1>3, TypesKept, PTL DEF ShellSpec, RangeKept, shell
=============================================================================
