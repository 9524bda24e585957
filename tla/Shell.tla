-------------------------------- MODULE Shell --------------------------------
(***************************************************************************)
(* Which range of time the UI shows (ui/app.rs): the last minutes or hours *)
(* up to now, the range to which the user has dragged the samples plot, or *)
(* the one selected in FlameScope, for which a tab asks at the end of a    *)
(* frame.  Every frame settles the range first; the plot and the view of   *)
(* the active tab are Cached values looked up with it (UiRefresh).         *)
(*                                                                         *)
(* A user's action is handled by the UI thread in some frame and leads to  *)
(* another one, like any input.  Of the plot only its bounds are kept,     *)
(* which egui changes when it is dragged.  The other tabs, the sample kind *)
(* and the options of a view are left out.                                 *)
(***************************************************************************)
EXTENDS UiRefresh

CONSTANTS
    View,       \* the Cached value that is looked up with the range
    Lookbacks,  \* the lengths offered: 15m, 1h, 24h
    Default,    \* the first of them
    Times,      \* bound on the clock
    NoRange

Last(lookback, now) == <<now - lookback, now>>

ASSUME ShellAssumption ==
    /\ View \in Caches
    /\ Times \subseteq Nat
    /\ Default \in Lookbacks
    /\ \A d \in Lookbacks : d \in Nat /\ \A t \in Times : Last(d, t) \in Inputs
    /\ NoRange \notin Inputs
    /\ NoRange \notin Lookbacks

VARIABLES
    now,
    auto,       \* auto_scroll_time
    requested,  \* requested_time_range
    bounds,     \* the range of the samples plot
    settled,    \* has the coming frame got its range?
    chosen      \* (history) the range the user has dragged to or selected

range == <<now, auto, requested, bounds, settled, chosen>>

ShellTypeOK ==
    /\ TypeOK
    /\ now \in Times
    /\ auto \in Lookbacks \cup {NoRange}
    /\ requested \in Inputs \cup {NoRange}
    /\ bounds \in Inputs
    /\ settled \in BOOLEAN
    /\ chosen \in Inputs \cup {NoRange}
    /\ requested # NoRange => auto = NoRange \/ chosen = NoRange

-----------------------------------------------------------------------------
\* The UI thread handles an input; the view's own stays what it is.
Handled == ~settled /\ UserInput(View, sel[View])

\* time_selector: a click on the active lookback switches it off.
TimeSelector(d) ==
    /\ Handled
    /\ auto' = IF auto = d THEN NoRange ELSE d
    /\ chosen' = NoRange
    /\ UNCHANGED <<now, requested, bounds, settled>>

\* samples_widget: the range of this frame, to which the plot is set.
SamplesWidget ==
    /\ frame = {} /\ repaint
    /\ ~settled
    /\ LET r == CASE requested # NoRange -> requested
                  [] requested = NoRange /\ auto # NoRange -> Last(auto, now)
                  [] OTHER -> bounds
       IN  UserInput(View, r) /\ bounds' = r
    /\ requested' = NoRange
    /\ settled' = TRUE
    /\ UNCHANGED <<now, auto, chosen>>

\* Mutant of DragPlot: auto-updates go on.
DragPlotScrolls(r) ==
    /\ Handled
    /\ requested = NoRange
    /\ bounds' = r
    /\ chosen' = r
    /\ UNCHANGED <<now, auto, requested, settled>>

\* The plot is dragged, scrolled or zoomed after it has got its range.
DragPlot(r) ==
    /\ Handled
    /\ requested = NoRange
    /\ bounds' = r
    /\ auto' = NoRange
    /\ chosen' = r
    /\ UNCHANGED <<now, requested, settled>>

\* Mutant of SwitchTabWithTimeRange: auto-updates go on.
SwitchKeepsScrolling(r) == requested' = r /\ UNCHANGED auto

\* The action a tab has returned, for the next frame.
SwitchTabWithTimeRange(r) == requested' = r /\ auto' = NoRange

\* "View Selection in Flamegraph", for the range selected in FlameScope.
ViewSelection(r) ==
    /\ Handled
    /\ SwitchTabWithTimeRange(r)
    /\ chosen' = r
    /\ UNCHANGED <<now, bounds, settled>>

\* The frame goes on to the lookups.
ShellFrame ==
    /\ settled
    /\ FrameBegin
    /\ settled' = FALSE
    /\ UNCHANGED <<now, auto, requested, bounds, chosen>>

Clock ==
    /\ now + 1 \in Times
    /\ now' = now + 1
    /\ UNCHANGED <<vars, auto, requested, bounds, settled, chosen>>

ShellInit ==
    /\ Init
    /\ now \in Times
    /\ auto = Default
    /\ requested = NoRange
    /\ bounds \in Inputs
    /\ settled = FALSE
    /\ chosen = NoRange

UiThread ==
    \/ SamplesWidget \/ ShellFrame
    \/ (\E c \in Caches, old \in BOOLEAN : Lookup(c, old)) /\ UNCHANGED range
    \/ Elect /\ UNCHANGED range

ShellNext ==
    \/ \E d \in Lookbacks : TimeSelector(d)
    \/ \E r \in Inputs : DragPlot(r) \/ ViewSelection(r)
    \/ UiThread
    \/ (\E t \in Threads : TaskStep(t)) /\ UNCHANGED range
    \/ DbChange /\ UNCHANGED range
    \/ WakerStep /\ UNCHANGED range
    \/ Clock

ShellSpec ==
    /\ ShellInit /\ [][ShellNext]_<<vars, range>>
    /\ WF_<<vars, range>>(UiThread)
    /\ \A t \in Threads : WF_vars(TaskStep(t))
    /\ WF_vars(WakerStep)

-----------------------------------------------------------------------------
(* Properties.                                                             *)

\* "Manually dragged/scrolled/pinched -> disable auto-updates", "Disable
\* auto-scroll when switching with a specific time range": a range the user
\* has chosen is that of every frame from the next one on, whatever the clock
\* and the data do, until the user chooses another or a lookback.
RangeKept ==
    [][frame = {} /\ frame' # {} /\ chosen # NoRange
          => sel[View] = chosen]_<<vars, range>>
=============================================================================
