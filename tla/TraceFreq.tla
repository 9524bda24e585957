------------------------------ MODULE TraceFreq ------------------------------
(***************************************************************************)
(* The trace frequency tab (ui/tabs/trace_freq.rs): how often the events   *)
(* of a range repeat a trace, a trace without its leaf, or a frame.  The   *)
(* tab shows the average size of such groups, the deduplication rate, and  *)
(* how many there are of each size, a histogram.                           *)
(*                                                                         *)
(* Each rate and each histogram is cached on its own and is a fold of its  *)
(* own over the events of its own snapshot: the rate of a range and its    *)
(* histogram need not tell the same.                                       *)
(*                                                                         *)
(* The hash of a trace without its leaf is what is left of the trace.  The *)
(* histogram of the events' own counts, all of them one, is left out.      *)
(***************************************************************************)
EXTENDS Profile, Bags, Sums

VARIABLES
    figure,   \* what is counted: "trace", "no leaf", "frame", or "none"
    drawn,    \* as what: "rate", "bars", or "none"
    yet,      \* the events of the range still to come
    groups,   \* the groups so far, a bag
    matched,  \* (history) the events whose trace was found
    missed    \* (history) the others

freq == <<figure, drawn, yet, groups, matched, missed>>

Figures == {"trace", "no leaf", "frame"}

\* The values the tab caches: there is no histogram of the frames.
Values == (Figures \X {"rate", "bars"}) \ {<<"frame", "bars">>}

\* The group of events without a trace where there is one: hash 0.
Lost == <<NoFunc>>

FreqTypeOK ==
    /\ figure \in Figures \cup {"none"} /\ drawn \in {"rate", "bars", "none"}
    /\ yet \subseteq EventKeys
    /\ IsABag(groups)
    /\ matched \cup missed \subseteq EventKeys
    /\ matched \cap missed = {} /\ yet \cap (matched \cup missed) = {}

-----------------------------------------------------------------------------
\* The tab is drawn and a value is missing or too old: it is computed from the
\* events there are now.  The sample kind selected is not used.
AskFreq(q, v) ==
    /\ figure = "none"
    /\ figure' = v[1]
    /\ drawn' = v[2]
    /\ yet' = TimeRange(events, Mixed, q.start, q.end)
    /\ stored' = Traces
    /\ UNCHANGED <<groups, matched, missed, chain>>

\* Mutant of WithoutLeaf: the caller's end is cut off.
WithoutRoot(t) == SubSeq(t, 1, Len(t) - 1)

\* trace.iter().skip(1): a trace has its leaf first.
WithoutLeaf(t) == SubSeq(t, 2, Len(t))

\* What an event adds to the groups.  Whole traces come from sample_events,
\* which keeps the traces it has found.
AddsTo(t, found) ==
    CASE figure = "trace"   -> IF found THEN <<t>> ELSE <<>>
      [] figure = "no leaf" -> IF found THEN <<WithoutLeaf(t)>> ELSE <<Lost>>
      [] figure = "frame"   -> IF found THEN t ELSE <<>>

Copies(seq) ==
    [x \in Range(seq) |-> Cardinality({i \in DOMAIN seq : seq[i] = x})]

FoldEvent ==
    /\ yet # {}
    /\ LET k == First(yet)
           t == Sample[k].trace
           found == \/ t \in stored
                    \/ figure = "trace" /\ BagIn(t, groups)
       IN  /\ groups' = groups (+) Copies(AddsTo(t, found))
           /\ matched' = IF found THEN matched \cup {k} ELSE matched
           /\ missed' = IF found THEN missed ELSE missed \cup {k}
           /\ yet' = yet \ {k}
    /\ UNCHANGED <<figure, drawn, tables>>

\* The deduplication rate, as a fraction, ...
Rate == <<Total(DOMAIN groups, groups), Cardinality(DOMAIN groups)>>

\* ... or the bars: how many groups there are of each size.
Bars ==
    [n \in {groups[g] : g \in DOMAIN groups} |->
        Cardinality({g \in DOMAIN groups : groups[g] = n})]

FreqDone == figure # "none" /\ yet = {}

\* The value is cached; another one is computed.
DropFreq ==
    /\ FreqDone
    /\ figure' = "none"
    /\ drawn' = "none"
    /\ groups' = EmptyBag
    /\ matched' = {}
    /\ missed' = {}
    /\ stored' = Traces
    /\ UNCHANGED <<yet, chain>>

FreqInit ==
    /\ figure = "none"
    /\ drawn = "none"
    /\ yet = {}
    /\ groups = EmptyBag
    /\ matched = {}
    /\ missed = {}

FreqNext ==
    \/ \E q \in Ranges, v \in Values : AskFreq(q, v)
    \/ FoldEvent \/ DropFreq
    \/ yet # {} /\ (\E t \in Traces : Flushed(t)) /\ UNCHANGED freq

-----------------------------------------------------------------------------
(* Properties.                                                             *)

\* How often group g is met in event k, ...
Share(k, g) ==
    LET t == Sample[k].trace
    IN  CASE figure = "trace"   -> IF t = g THEN 1 ELSE 0
          [] figure = "no leaf" -> IF SubSeq(t, 2, Len(t)) = g THEN 1 ELSE 0
          [] figure = "frame"   -> Cardinality({i \in DOMAIN t : t[i] = g})

\* ... and the groups that are met in it.
InEvent(k) ==
    LET t == Sample[k].trace
    IN  CASE figure = "trace"   -> {t}
          [] figure = "no leaf" -> {SubSeq(t, 2, Len(t))}
          [] figure = "frame"   -> Range(t)

\* What should be shown of the events matched and missed: events left without
\* a trace are passed over, but are one group more of traces without a leaf.
IsLost(g) == figure = "no leaf" /\ g = Lost

GroupsMet ==
    (UNION {InEvent(k) : k \in matched})
        \cup {g \in {Lost} : IsLost(g) /\ missed # {}}

Size(g) == IF IsLost(g) THEN Cardinality(missed)
           ELSE Total(matched, [k \in EventKeys |-> Share(k, g)])

Sizes ==
    CASE figure = "trace"   -> Cardinality(matched)
      [] figure = "no leaf" -> Cardinality(matched \cup missed)
      [] figure = "frame"   -> Total(matched, [k \in EventKeys |-> Len(Sample[k].trace)])

\* Although traces disappear while the events are folded, the rate is the
\* average of how often each trace, trace without a leaf or frame was met, and
\* the histogram has a bar for each number of times one of them was, as high as
\* there are such.
FreqExact ==
    FreqDone =>
       /\ drawn = "rate" => Rate = <<Sizes, Cardinality(GroupsMet)>>
       /\ drawn = "bars" =>
             Bars = [n \in {Size(g) : g \in GroupsMet} |->
                        Cardinality({g \in GroupsMet : Size(g) = n})]
=============================================================================
