---------------------------- MODULE EventQueries ----------------------------
(***************************************************************************)
(* What the UI asks of the trace events: the events of a kind in a range   *)
(* of time, in the order of their keys (TraceEvents::time_range), their    *)
(* counts in buckets of time (event_count_buckets, the samples plot) and   *)
(* in cells of second and sub-second (build_heatmap, FlameScope).          *)
(*                                                                         *)
(* An event is its key: a time stamp, an ID, and a kind.  RocksDB orders   *)
(* keys by their bytes, most significant time stamp byte first but least   *)
(* significant ID byte first; an ID has two bytes here.  Time stamps and   *)
(* bucket arithmetic are unsigned words: when a result leaves the range of *)
(* words, a checked build panics and a release build wraps.  The collector *)
(* writes every event with a count of one.                                 *)
(*                                                                         *)
(* The collector adds events while a query iterates over its snapshot.     *)
(***************************************************************************)
EXTENDS Naturals, Sequences, FiniteSets, FiniteSetsExt

CONSTANTS
    EventKeys,  \* the events the collector may add
    Bounds,     \* range bounds the UI may ask for
    Counts,     \* numbers of buckets it may ask for
    Cells,      \* NUM_MS_BUCKETS
    Byte,       \* values of a byte of an ID
    Word,       \* values of a time stamp, 2^64
    Builds      \* what an overflow does, in the builds considered: "check"
                \* (dev profile) or "wrap" (release profile)

\* SampleKind, by its byte in the key.
Unknown == 0
Mixed == 1
OnCPU == 2
OffCPU == 3
UProbe == 4
MaxKind == 5

Kinds == {Unknown, OnCPU, OffCPU, UProbe}
Selectable == {Mixed, OnCPU, OffCPU, UProbe}
MaxId == Byte * Byte - 1

ASSUME EventQueriesAssumption ==
    /\ Byte \in Nat \ {0} /\ Word \in Nat \ {0} /\ Cells \in Nat \ {0}
    /\ EventKeys \subseteq [ts : 0 .. Word - 1, id : 0 .. MaxId, kind : Kinds]
    /\ IsFiniteSet(EventKeys)
    /\ Bounds \subseteq 0 .. Word - 1
    /\ Counts \subseteq Nat
    /\ Builds # {} /\ Builds \subseteq {"check", "wrap"}

\* Bounds are seconds: twice as many are still far from 2^64.
ASSUME BoundsAssumption == \A b \in Bounds : 2 * b <= Word

VARIABLES
    events,  \* the table
    pc,      \* what the query does
    query,   \* its kind, start, end and number of buckets
    snap,    \* the table when it began
    todo,    \* the events its iterator has still to yield
    from,    \* the range it iterates over
    to,
    step,    \* the width of a bucket
    hist,    \* the buckets
    cells,   \* cells[<<s, m>>]: the cell of second s and sub-second m
    peak     \* max_count

asked == <<query, snap, from, to>>
plot == <<step, hist>>
map == <<cells, peak>>
vars == <<events, pc, asked, todo, plot, map>>

CellSet == {k.ts : k \in EventKeys} \X (0 .. Cells - 1)

NoCells == [c \in CellSet |-> 0]
Queries == [kind : Selectable, start : Bounds, end : Bounds, n : Counts]
HeatQueries == [kind : Selectable, start : Bounds, end : Bounds, n : {0}]
NoQuery == [kind |-> Unknown, start |-> 0, end |-> 0, n |-> 0]

TypeOK ==
    /\ events \subseteq EventKeys
    /\ pc \in {"idle", "buckets", "counted", "heatmap", "filled", "panic"}
    /\ query \in Queries \cup HeatQueries \cup {NoQuery}
    /\ snap \subseteq events
    /\ todo \subseteq snap
    /\ from \in 0 .. Word - 1
    /\ to \in 0 .. Word - 1
    /\ step \in Nat
    /\ hist \in Seq(Nat)
    /\ cells \in [CellSet -> Nat]
    /\ peak \in Nat

-----------------------------------------------------------------------------
(* Keys and ranges.                                                        *)

\* The order of an ID's little-endian bytes.
ByteOrder(id) == (id % Byte) * Byte + id \div Byte

\* The order of keys.
Before(j, k) ==
    LET t == <<j.ts, ByteOrder(j.id), j.kind>>
        u == <<k.ts, ByteOrder(k.id), k.kind>>
    IN  \E i \in 1 .. 3 : t[i] < u[i] /\ \A h \in 1 .. i - 1 : t[h] = u[h]

All(kind) == kind \in {Unknown, Mixed}

\* Mutant of TimeRange: the end key has the smallest ID.
TimeRangeEarly(keys, kind, start, end) ==
    LET first == [ts |-> start, id |-> 0, kind |-> kind]
        bound == [ts |-> end, id |-> 0, kind |-> kind]
    IN  {k \in keys : /\ ~Before(k, first)
                      /\ Before(k, bound)
                      /\ All(kind) \/ k.kind = kind}

\* Table::range from the start key up to, without, the end key, and the
\* filter by kind.
TimeRange(keys, kind, start, end) ==
    LET first == [ts |-> start, id |-> 0, kind |-> kind]
        bound == [ts |-> end, id |-> MaxId,
                  kind |-> IF All(kind) THEN MaxKind ELSE kind]
    IN  {k \in keys : /\ ~Before(k, first)
                      /\ Before(k, bound)
                      /\ All(kind) \/ k.kind = kind}

\* The iterator yields the smallest key.
First(keys) == CHOOSE k \in keys : \A j \in keys : ~Before(j, k)

-----------------------------------------------------------------------------
(* Word arithmetic: what an operation yields, and whether it overflows.    *)

\* next_multiple_of.
Ceil(a, s) == ((a + s - 1) \div s) * s

\* start.next_multiple_of(step) - step: the multiple below, also of a multiple.
Floor(a, s) == (Ceil(a, s) + Word - s) % Word

Overflows(q, s) == q.start = 0 \/ Ceil(q.end, s) >= Word

\* The width of a bucket, at least one second.
Width(q) == Max({(q.end - q.start) \div q.n, 1})

\* (start..=end).step_by(step): how many buckets there are.
Length(lo, hi, s) == IF hi < lo THEN 0 ELSE (hi - lo) \div s + 1

-----------------------------------------------------------------------------
\* The collector adds an event.
Insert(k) ==
    /\ k \notin events
    /\ events' = events \cup {k}
    /\ UNCHANGED <<pc, asked, todo, plot, map>>

\* event_count_buckets: an empty range has no buckets.
AskNothing(q) ==
    /\ pc = "idle"
    /\ q.start >= q.end \/ q.n = 0
    /\ query' = q
    /\ pc' = "counted"
    /\ UNCHANGED <<events, snap, from, to, todo, plot, map>>

\* Otherwise they are laid out from the multiple of their width below the
\* start to the one above the end, and the range query is for these bounds.
LayOut(q) ==
    /\ query' = q
    /\ step' = Width(q)
    /\ from' = Floor(q.start, step')
    /\ to' = Ceil(q.end, step') % Word
    /\ hist' = [b \in 1 .. Length(from', to', step') |-> 0]
    /\ pc' \in IF ~Overflows(q, step') THEN {"buckets"}
               ELSE {IF b = "check" THEN "panic" ELSE "buckets" : b \in Builds}
    /\ snap' = events

\* Mutant of AskBuckets: the range query is for the bounds asked for.
AskBucketsNarrow(q) ==
    /\ pc = "idle"
    /\ q.start < q.end /\ q.n # 0
    /\ LayOut(q)
    /\ todo' = TimeRange(events, q.kind, q.start, q.end)
    /\ UNCHANGED <<events, map>>

AskBuckets(q) ==
    /\ pc = "idle"
    /\ q.start < q.end /\ q.n # 0
    /\ LayOut(q)
    /\ todo' = TimeRange(events, q.kind, from', to')
    /\ UNCHANGED <<events, map>>

\* The next event is added to the bucket its index names; without one,
\* indexing panics.
CountEvent ==
    /\ pc = "buckets"
    /\ todo # {}
    /\ LET k == First(todo)
           i == (k.ts - from) \div step + 1
       IN  /\ IF i \in DOMAIN hist
              THEN hist' = [hist EXCEPT ![i] = @ + 1] /\ UNCHANGED pc
              ELSE pc' = "panic" /\ UNCHANGED hist
           /\ todo' = todo \ {k}
    /\ UNCHANGED <<events, asked, step, map>>

\* build_heatmap, which has no early return.
AskHeatmap(q) ==
    /\ pc = "idle"
    /\ query' = [q EXCEPT !.n = 0]
    /\ pc' = "heatmap"
    /\ snap' = events
    /\ from' = q.start
    /\ to' = q.end
    /\ todo' = TimeRange(events, q.kind, q.start, q.end)
    /\ UNCHANGED <<events, plot, map>>

\* Mutant of FillCell: the iterator sees events added since it was made.
FillCellLive ==
    /\ pc = "heatmap"
    /\ todo # {}
    /\ LET k == First(todo)
           c == <<k.ts, k.id % Cells>>
       IN  /\ cells' = [cells EXCEPT ![c] = @ + 1]
           /\ peak' = Max({peak, cells'[c]})
           /\ todo' = {j \in TimeRange(events, query.kind, query.start, query.end) :
                         Before(k, j)}
    /\ UNCHANGED <<events, pc, asked, plot>>

FillCell ==
    /\ pc = "heatmap"
    /\ todo # {}
    /\ LET k == First(todo)
           c == <<k.ts, k.id % Cells>>
       IN  /\ cells' = [cells EXCEPT ![c] = @ + 1]
           /\ peak' = Max({peak, cells'[c]})
           /\ todo' = todo \ {k}
    /\ UNCHANGED <<events, pc, asked, plot>>

\* The iterator is exhausted.
Finish ==
    /\ pc \in {"buckets", "heatmap"}
    /\ todo = {}
    /\ pc' = IF pc = "buckets" THEN "counted" ELSE "filled"
    /\ UNCHANGED <<events, asked, todo, plot, map>>

\* The result, if any, goes to the UI; the next query starts from nothing.
Return ==
    /\ pc \in {"counted", "filled", "panic"}
    /\ pc' = "idle"
    /\ query' = NoQuery
    /\ snap' = {}
    /\ from' = 0
    /\ to' = 0
    /\ step' = 1
    /\ hist' = <<>>
    /\ cells' = NoCells
    /\ peak' = 0
    /\ todo' = {}
    /\ UNCHANGED events

Init ==
    /\ events = {}
    /\ pc = "idle"
    /\ query = NoQuery
    /\ snap = {}
    /\ todo = {}
    /\ from = 0
    /\ to = 0
    /\ step = 1
    /\ hist = <<>>
    /\ cells = NoCells
    /\ peak = 0

Collect == \E k \in EventKeys : Insert(k)

Query ==
    \/ \E q \in Queries : AskNothing(q) \/ AskBuckets(q) \/ AskHeatmap(q)
    \/ CountEvent \/ FillCell \/ Finish \/ Return

Next == Collect \/ Query

Spec == Init /\ [][Next]_vars

-----------------------------------------------------------------------------
(* Properties.                                                             *)

OfKind(k) == All(query.kind) \/ k.kind = query.kind

\* The smallest key of the start and the largest of the end are left out of a
\* range by the kind in its bounds.
AtEdge(k) ==
    \/ k.ts = from /\ k.id = 0
    \/ k.ts = to /\ k.id = MaxId

\* The range query yields the events of the range, both ends included, and
\* of the kind, whatever the order of ID bytes and kinds in the keys makes of
\* them; only the first and the last ID may be missing at the very ends.
RangeExact ==
    [][pc = "idle" /\ pc' \in {"buckets", "heatmap"} =>
          /\ \A k \in todo' : from' <= k.ts /\ k.ts <= to' /\ OfKind(k)'
          /\ \A k \in events \ todo' :
                from' <= k.ts /\ k.ts <= to' /\ OfKind(k)' => AtEdge(k)']_vars

\* A bucket counts the events of the time it covers, though the query goes
\* by keys and the buckets start before the range and end after it, and every
\* event asked for is in one of them.
BucketsExact ==
    pc = "counted" /\ query.n # 0
    /\ 0 < query.start /\ query.start < query.end =>
       /\ \A b \in DOMAIN hist :
             LET low == from + (b - 1) * step
                 In(k) == low <= k.ts /\ k.ts < low + step /\ k.ts <= to
                 Counted == {k \in snap : OfKind(k) /\ In(k)}
                 Certain == {k \in Counted : ~AtEdge(k)}
             IN  hist[b] \in Cardinality(Certain) .. Cardinality(Counted)
       /\ \A k \in snap : query.start <= k.ts /\ k.ts <= query.end =>
             from < k.ts /\ k.ts < from + Len(hist) * step

\* A cell of the heat map counts the events of its second and sub-second, and
\* max_count is the largest.
HeatmapExact ==
    pc = "filled" =>
       /\ \A c \in CellSet :
             LET Counted == {k \in snap : /\ OfKind(k) /\ from <= k.ts /\ k.ts <= to
                                          /\ k.ts = c[1] /\ k.id % Cells = c[2]}
                 Certain == {k \in Counted : ~AtEdge(k)}
             IN  cells[c] \in Cardinality(Certain) .. Cardinality(Counted)
       /\ peak = Max({cells[c] : c \in CellSet} \cup {0})

\* No arithmetic overflows but for a range that starts in 1970.
PanicsAtZero == pc = "panic" => query.start = 0

\* "Group the given time range into buckets and count the number of events in
\* each bucket": plot and heat map show every event of the snapshot in its
\* place, and only a range from 1970 fails.
PlotsExact == PanicsAtZero /\ BucketsExact /\ HeatmapExact
=============================================================================
