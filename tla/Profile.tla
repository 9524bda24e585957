------------------------------- MODULE Profile -------------------------------
(***************************************************************************)
(* What the flame graph and the table of top functions read besides the    *)
(* events of a range: the stack trace of an event, which a flush may have  *)
(* removed since (events are iterated from a snapshot, traces looked up    *)
(* one by one), and the symbols of a frame, which arrive or are replaced   *)
(* while a view is built (symbolize_frame).                                *)
(*                                                                         *)
(* A frame stands for its ID: frames of one ID have one kind.  It resolves *)
(* to a chain of places in the source, the inlined ones after the one they *)
(* are inlined into, or to NoFunc alone.  SymbolLookup models how a chain  *)
(* is found.                                                               *)
(***************************************************************************)
EXTENDS EventQueries, SequencesExt

CONSTANTS
    Frames,
    NoFunc,
    Chains,   \* Chains[f]: what frame f may resolve to
    Sample,   \* Sample[k]: the comm and the trace, leaf first, of event k
    Ranges    \* the range queries of the two views

Traces == {Sample[k].trace : k \in EventKeys}
Comms == {Sample[k].comm : k \in EventKeys}

ASSUME ProfileAssumption ==
    /\ NoFunc \notin Frames
    /\ \A f \in Frames : Chains[f] # {}
    /\ \A f \in Frames : \A c \in Chains[f] : c # <<>> /\ c \in Seq(Range(c))
    /\ \A t \in Traces : t \in Seq(Frames)
    /\ Ranges \subseteq [kind : Selectable, start : Bounds, end : Bounds]

VARIABLES
    stored,  \* the traces in stack_traces
    chain    \* chain[f]: what frame f resolves to

tables == <<stored, chain>>

ProfileTypeOK ==
    /\ stored \subseteq Traces
    /\ \A f \in Frames : chain[f] \in Chains[f]

AnyChain == [f \in Frames |-> CHOOSE c \in Chains[f] : TRUE]

\* When a view is asked for, every event has its trace (Ingest), and symbols
\* are there or not.  Between views it does not matter what the tables hold.
Opened ==
    /\ stored' = Traces
    /\ \E c \in [Frames -> UNION {Chains[f] : f \in Frames}] :
          /\ \A f \in Frames : c[f] \in Chains[f]
          /\ chain' = c

ProfileInit ==
    /\ stored = Traces
    /\ chain = AnyChain

\* symbolize_frame, with or without inlined functions.
Symbolize(f, inline) == IF inline THEN chain[f] ELSE <<chain[f][1]>>

\* The symbols of a frame arrive, or other ones.
Symbolized(f) ==
    /\ \E c \in Chains[f] \ {chain[f]} : chain' = [chain EXCEPT ![f] = c]
    /\ UNCHANGED stored

\* A flush removes a trace.
Flushed(t) ==
    /\ t \in stored
    /\ stored' = stored \ {t}
    /\ UNCHANGED chain

TablesChange ==
    \/ \E f \in Frames : Symbolized(f)
    \/ \E t \in Traces : Flushed(t)
=============================================================================
