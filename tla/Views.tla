-------------------------------- MODULE Views --------------------------------
(***************************************************************************)
(* The views of the UI over one table of events: the samples plot and the  *)
(* heat map of FlameScope (EventQueries), the flame graph, the table of    *)
(* top functions and the trace frequencies.  Each is built on threads of   *)
(* its own and they only share the tables they read, so one at a time is   *)
(* enough here; the collector adds events all the while.                   *)
(*                                                                         *)
(* What the user does to a flame graph that is drawn (FlameSearch), the    *)
(* rings of requests and log messages (Logs) and the queue of dropped      *)
(* files (DropQueue) share nothing with the rest: a behaviour is about one *)
(* of the four parts.                                                      *)
(***************************************************************************)
EXTENDS FlameGraph, TopFuncs, TraceFreq, FlameSearch, Logs, DropQueue

VARIABLE part

views == <<flame, topFuncs, freq, tables>>
apart == <<search, logs, dropped, part>>

ViewsTypeOK == TypeOK /\ ProfileTypeOK /\ FlameTypeOK /\ TopTypeOK /\ FreqTypeOK

ViewsInit ==
    /\ Init /\ ProfileInit /\ FlameInit /\ TopInit /\ FreqInit
    /\ SearchInit /\ LogsInit /\ DropsInit
    /\ part \in {"tables", "graph", "rings", "drops"}

\* No view is being built but, perhaps, this one.
Only(v) ==
    /\ v = "query" \/ pc = "idle"
    /\ v = "flame" \/ fpc = "idle"
    /\ v = "top" \/ tpc = "idle"
    /\ v = "freq" \/ figure = "none"

TablesNext ==
    \/ Collect /\ UNCHANGED views
    \/ Only("query") /\ Query /\ UNCHANGED views
    \/ Only("flame") /\ FlameNext /\ UNCHANGED <<vars, topFuncs, freq>>
    \/ Only("top") /\ TopNext /\ UNCHANGED <<vars, flame, freq>>
    \/ Only("freq") /\ FreqNext /\ UNCHANGED <<vars, flame, topFuncs>>

ViewsNext ==
    \/ part = "tables" /\ TablesNext /\ UNCHANGED apart
    \/ part = "graph" /\ SearchNext /\ UNCHANGED <<vars, views, logs, dropped, part>>
    \/ part = "rings" /\ LogsNext /\ UNCHANGED <<vars, views, search, dropped, part>>
    \/ part = "drops" /\ DropsNext /\ UNCHANGED <<vars, views, search, logs, part>>

ViewsSpec == ViewsInit /\ [][ViewsNext]_<<vars, views, apart>>
=============================================================================
