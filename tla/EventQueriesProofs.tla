------------------------- MODULE EventQueriesProofs -------------------------
(***************************************************************************)
(* What the queries over trace events return, for every set of events,     *)
(* every width of an ID's bytes and of a time stamp, whatever the collector*)
(* adds meanwhile and whatever an overflow does.                           *)
(*                                                                         *)
(* Range queries are exact (RangeExact).  The argument is about keys: in the*)
(* order of bytes a range by keys leaves out, of a range by time, at most  *)
(* the smallest ID at its start and the largest at its end, since only they*)
(* have the smallest and the largest bytes.                                *)
(*                                                                         *)
(* The samples plot and the heat map are exact (PlotsExact).  The invariant*)
(* says that the buckets, or cells, count what was taken from the iterator so*)
(* far; the arithmetic of the buckets, by division and multiples, that each*)
(* event taken has a bucket.                                               *)
(*                                                                         *)
(* At the end, sums over sets (Sums): facts about any sets, with which     *)
(* what the other views count is added up.                                 *)
(***************************************************************************)
EXTENDS EventQueries, Sums, FiniteSetTheorems, WellFoundedInduction, TLAPS

(* Only the ID zero has bytes that are all zero, and only the largest ID has *)
(* bytes as large as its own.                                                *)
LEMMA BytesOfEdges ==
    ASSUME NEW id \in 0 .. MaxId
    PROVE  /\ ByteOrder(id) \in Nat
           /\ ByteOrder(0) = 0
           /\ ByteOrder(id) = 0 => id = 0
           /\ ByteOrder(id) >= ByteOrder(MaxId) => id = MaxId
  <1> DEFINE r == id % Byte
             d == id \div Byte
  <1>1. Byte \in Nat /\ Byte >= 1 /\ id \in Nat /\ id <= Byte * Byte - 1
    BY EventQueriesAssumption DEF MaxId
  <1>2. r \in 0 .. Byte - 1 /\ d \in Nat /\ id = Byte * d + r
    BY <1>1
  <1>3. d <= Byte - 1
    BY <1>1, <1>2
  <1>4. ByteOrder(id) = r * Byte + d
    BY DEF ByteOrder
  <1>5. ByteOrder(0) = 0
    BY <1>1 DEF ByteOrder
  <1>6. MaxId % Byte = Byte - 1 /\ MaxId \div Byte = Byte - 1
    BY <1>1 DEF MaxId
  <1>7. ByteOrder(MaxId) = (Byte - 1) * Byte + (Byte - 1)
    BY <1>6 DEF ByteOrder
  <1> HIDE DEF r, d
  <1>8. r * Byte + d = 0 => r = 0 /\ d = 0
    BY <1>1, <1>2
  <1>9. r * Byte + d >= (Byte - 1) * Byte + (Byte - 1) => r = Byte - 1 /\ d = Byte - 1
    BY <1>1, <1>2, <1>3
  <1>10. QED
    BY <1>1, <1>2, <1>4, <1>5, <1>7, <1>8, <1>9 DEF MaxId

(* The order of keys is lexicographic. *)
LEMMA KeysInOrder ==
    ASSUME NEW j, NEW k
    PROVE  Before(j, k) <=>
             \/ j.ts < k.ts
             \/ j.ts = k.ts /\ ByteOrder(j.id) < ByteOrder(k.id)
             \/ j.ts = k.ts /\ ByteOrder(j.id) = ByteOrder(k.id) /\ j.kind < k.kind
  <1> DEFINE t == <<j.ts, ByteOrder(j.id), j.kind>>
             u == <<k.ts, ByteOrder(k.id), k.kind>>
  <1>1. Before(j, k) <=> \E i \in 1 .. 3 : t[i] < u[i] /\ \A h \in 1 .. i - 1 : t[h] = u[h]
    BY DEF Before
  <1>2. /\ t[1] = j.ts /\ t[2] = ByteOrder(j.id) /\ t[3] = j.kind
        /\ u[1] = k.ts /\ u[2] = ByteOrder(k.id) /\ u[3] = k.kind
    OBVIOUS
  <1>3. 1 .. 3 = {1, 2, 3} /\ 1 .. 1 - 1 = {} /\ 1 .. 2 - 1 = {1} /\ 1 .. 3 - 1 = {1, 2}
    OBVIOUS
  <1> HIDE DEF t, u
  <1>4. QED
    BY <1>1, <1>2, <1>3

(* A range by keys is the range by time, both ends included, without what it  *)
(* leaves out at the edges.                                                   *)
LEMMA RangeByKeys ==
    ASSUME NEW keys \in SUBSET EventKeys, NEW kind \in Selectable,
           NEW start \in Nat, NEW end \in Nat
    PROVE  /\ \A k \in TimeRange(keys, kind, start, end) :
                 start <= k.ts /\ k.ts <= end /\ (All(kind) \/ k.kind = kind)
           /\ \A k \in keys \ TimeRange(keys, kind, start, end) :
                 start <= k.ts /\ k.ts <= end /\ (All(kind) \/ k.kind = kind) =>
                    \/ k.ts = start /\ k.id = 0
                    \/ k.ts = end /\ k.id = MaxId
  <1> DEFINE first == [ts |-> start, id |-> 0, kind |-> kind]
             bound == [ts |-> end, id |-> MaxId,
                       kind |-> IF All(kind) THEN MaxKind ELSE kind]
  <1>1. TimeRange(keys, kind, start, end) =
          {k \in keys : /\ ~Before(k, first)
                        /\ Before(k, bound)
                        /\ All(kind) \/ k.kind = kind}
    BY DEF TimeRange
  <1>2. \A k \in keys : k.ts \in Nat /\ k.id \in 0 .. MaxId
    BY EventQueriesAssumption
  <1>3. MaxId \in 0 .. MaxId
    BY EventQueriesAssumption DEF MaxId
  <1>4. first.ts = start /\ first.id = 0 /\ bound.ts = end /\ bound.id = MaxId
    OBVIOUS
  <1> HIDE DEF first, bound
  <1>5. ASSUME NEW k \in keys
        PROVE  /\ ~Before(k, first) => start <= k.ts
               /\ Before(k, bound) => k.ts <= end
               /\ Before(k, first) /\ start <= k.ts => k.ts = start /\ k.id = 0
               /\ ~Before(k, bound) /\ k.ts <= end => k.ts = end /\ k.id = MaxId
    <2>1. /\ k.ts \in Nat /\ k.id \in 0 .. MaxId
          /\ ByteOrder(k.id) \in Nat /\ ByteOrder(MaxId) \in Nat /\ ByteOrder(0) = 0
          /\ ByteOrder(k.id) = 0 => k.id = 0
          /\ ByteOrder(k.id) >= ByteOrder(MaxId) => k.id = MaxId
      BY <1>2, <1>3, BytesOfEdges
    <2>2. /\ k.ts < start => Before(k, first)
          /\ Before(k, first) =>
               \/ k.ts < start
               \/ k.ts = start /\ ByteOrder(k.id) <= ByteOrder(0)
      <3>1. Before(k, first) <=>
               \/ k.ts < start
               \/ k.ts = start /\ ByteOrder(k.id) < ByteOrder(0)
               \/ k.ts = start /\ ByteOrder(k.id) = ByteOrder(0) /\ k.kind < first.kind
        BY <1>4, KeysInOrder
      <3>2. QED
        BY <2>1, <3>1
    <2>3. /\ Before(k, bound) => k.ts <= end
          /\ k.ts < end => Before(k, bound)
          /\ k.ts = end /\ ByteOrder(k.id) < ByteOrder(MaxId) => Before(k, bound)
      <3>1. Before(k, bound) <=>
               \/ k.ts < end
               \/ k.ts = end /\ ByteOrder(k.id) < ByteOrder(MaxId)
               \/ k.ts = end /\ ByteOrder(k.id) = ByteOrder(MaxId) /\ k.kind < bound.kind
        BY <1>4, KeysInOrder
      <3>2. QED
        BY <2>1, <3>1
    <2>4. QED
      BY <2>1, <2>2, <2>3
  <1>6. QED
    BY <1>1, <1>5

-----------------------------------------------------------------------------
(* The table only ever holds events the collector may add. *)
Collected == events \subseteq EventKeys

(* The collector is the only one to write to the table.                     *)
LEMMA OnlyCollected == Spec => []Collected
  <1>1. Init => Collected
    BY DEF Init, Collected
  <1>2. Collected /\ [Next]_vars => Collected'
    <2> SUFFICES ASSUME Collected, [Next]_vars
                 PROVE  Collected'
      OBVIOUS
    <2>1. ASSUME NEW k \in EventKeys, Insert(k)
          PROVE  Collected'
      BY <2>1 DEF Insert, Collected
    <2>2. ASSUME NEW q \in Queries, AskNothing(q) \/ AskBuckets(q) \/ AskHeatmap(q)
          PROVE  Collected'
      BY <2>2 DEF AskNothing, AskBuckets, AskHeatmap, Collected
    <2>3. CASE CountEvent \/ FillCell \/ Finish \/ Return
      BY <2>3 DEF CountEvent, FillCell, Finish, Return, Collected
    <2>4. CASE UNCHANGED vars
      BY <2>4 DEF vars, Collected
    <2>5. QED
      BY <2>1, <2>2, <2>3, <2>4 DEF Next, Collect, Query
  <1>3. QED
    BY <1>1, <1>2, PTL DEF Spec

(* What is asked for fits a word.                                           *)
LEMMA AskedInWords ==
    ASSUME NEW q \in Queries
    PROVE  q.start \in Nat /\ q.end \in Nat /\ q.n \in Nat /\ q.kind \in Selectable
  <1>1. Word \in Nat /\ Bounds \subseteq 0 .. Word - 1 /\ Counts \subseteq Nat
    BY EventQueriesAssumption
  <1>2. Bounds \subseteq Nat
    BY <1>1
  <1>3. q.start \in Bounds /\ q.end \in Bounds /\ q.n \in Counts /\ q.kind \in Selectable
    BY DEF Queries
  <1>4. QED
    BY <1>1, <1>2, <1>3

(* A bucket is at least one second wide, and the bounds laid out by it are     *)
(* words.                                                                      *)
LEMMA LaidOutInWords ==
    ASSUME NEW q \in Queries, q.start < q.end, q.n # 0
    PROVE  /\ Width(q) \in Nat \ {0}
           /\ Floor(q.start, Width(q)) \in Nat
           /\ Ceil(q.end, Width(q)) % Word \in Nat
  <1>1. q.start \in Nat /\ q.end \in Nat /\ q.n \in Nat \ {0} /\ Word \in Nat \ {0}
    BY AskedInWords, EventQueriesAssumption
  <1> DEFINE w == (q.end - q.start) \div q.n
  <1>2. w \in Nat
    BY <1>1
  <1>3. Width(q) = Max({w, 1})
    BY DEF Width
  <1> HIDE DEF w
  <1>4. \E x \in {w, 1} : \A y \in {w, 1} : x >= y
    BY <1>2
  <1>5. Max({w, 1}) \in {w, 1} /\ Max({w, 1}) >= 1
    BY <1>4 DEF Max
  <1>6. Width(q) \in Nat \ {0}
    BY <1>2, <1>3, <1>5
  <1>7. \A a \in Nat, s \in Nat \ {0} : Ceil(a, s) \in Nat
    BY DEF Ceil
  <1>8. \A a \in Nat, s \in Nat \ {0} : Floor(a, s) \in Nat
    BY <1>1, <1>7 DEF Floor
  <1>9. QED
    <2>1. Ceil(q.end, Width(q)) \in Nat /\ Floor(q.start, Width(q)) \in Nat
      BY <1>1, <1>6, <1>7, <1>8
    <2>2. \A c \in Nat : c % Word \in Nat
      BY <1>1
    <2>3. QED
      BY <1>6, <2>1, <2>2

(* Whatever the collector has added, a query for buckets or for the heat map   *)
(* gets the events of its range and kind, except perhaps the smallest ID at    *)
(* its first second and the largest at its last (TraceEvents::time_range).     *)
THEOREM RangesAreExact == Spec => RangeExact
  <1> DEFINE Exact ==
        pc = "idle" /\ pc' \in {"buckets", "heatmap"} =>
          /\ \A k \in todo' : from' <= k.ts /\ k.ts <= to' /\ OfKind(k)'
          /\ \A k \in events \ todo' :
                from' <= k.ts /\ k.ts <= to' /\ OfKind(k)' => AtEdge(k)'
  <1>1. Collected /\ [Next]_vars => [Exact]_vars
    <2> SUFFICES ASSUME Collected, Next, pc = "idle", pc' \in {"buckets", "heatmap"}
                 PROVE  Exact
      BY DEF Exact
    <2>1. ASSUME NEW q \in Queries, query'.kind = q.kind,
                 from' \in Nat, to' \in Nat,
                 todo' = TimeRange(events, q.kind, from', to')
          PROVE  Exact
      <3>1. q.kind \in Selectable /\ events \in SUBSET EventKeys
        BY AskedInWords DEF Collected
      <3>2. QED
        BY <2>1, <3>1, RangeByKeys DEF OfKind, AtEdge
    <2>2. ASSUME NEW q \in Queries, AskBuckets(q)
          PROVE  Exact
      <3>1. /\ query' = q /\ q.start < q.end /\ q.n # 0
            /\ from' = Floor(q.start, Width(q)) /\ to' = Ceil(q.end, Width(q)) % Word
            /\ todo' = TimeRange(events, q.kind, from', to')
        BY <2>2 DEF AskBuckets, LayOut
      <3>2. from' \in Nat /\ to' \in Nat
        BY <3>1, LaidOutInWords
      <3>3. QED
        BY <2>1, <3>1, <3>2
    <2>3. ASSUME NEW q \in Queries, AskHeatmap(q)
          PROVE  Exact
      <3>1. q.start \in Nat /\ q.end \in Nat
        BY AskedInWords
      <3>2. /\ query' = [q EXCEPT !.n = 0]
            /\ from' = q.start /\ to' = q.end
            /\ todo' = TimeRange(events, q.kind, q.start, q.end)
        BY <2>3 DEF AskHeatmap
      <3>3. query'.kind = q.kind
        BY <3>2 DEF Queries
      <3>4. QED
        BY <2>1, <3>1, <3>2, <3>3
    <2>4. ASSUME NEW k \in EventKeys, Insert(k)
          PROVE  Exact
      BY <2>4 DEF Insert
    <2>5. ASSUME NEW q \in Queries, AskNothing(q)
          PROVE  Exact
      BY <2>5 DEF AskNothing
    <2>6. CASE CountEvent \/ FillCell \/ Finish \/ Return
      BY <2>6 DEF CountEvent, FillCell, Finish, Return
    <2>7. QED
      BY <2>2, <2>3, <2>4, <2>5, <2>6 DEF Next, Collect, Query
  <1>2. QED
    BY <1>1, OnlyCollected, PTL DEF Spec, RangeExact

-----------------------------------------------------------------------------
(* Plot and heat map count what the range query yields.                    *)

(* Every set of naturals has a least member: what the inductions below use,  *)
(* each on the set of its counterexamples.                                   *)
LEMMA LeastNatural ==
    ASSUME NEW S \in SUBSET Nat, S # {}
    PROVE  \E n \in S : \A m \in S : n <= m
  <1> DEFINE R == OpToRel(<, Nat)
  <1>1. IsWellFoundedOn(R, Nat)
    BY NatLessThanWellFounded
  <1>2. R = {ss \in Nat \X Nat : ss[1] < ss[2]}
    BY DEF OpToRel
  <1> HIDE DEF R
  <1>3. PICK n \in S : \A m \in S : <<m, n>> \notin R
    BY <1>1, WFMin
  <1>4. \A k, m \in Nat : k < m => <<k, m>> \in R
    BY <1>2
  <1>5. \A m \in S : ~(m < n)
    BY <1>3, <1>4
  <1>6. QED
    BY <1>5

(* Integer division, by its bounds; and what these bounds say.               *)
LEMMA Quotient ==
    ASSUME NEW a \in Nat, NEW s \in Nat \ {0}
    PROVE  /\ a \div s \in Nat /\ (a \div s) * s \in Nat
           /\ (a \div s) * s <= a /\ a < (a \div s) * s + s
  OBVIOUS

(* Products of larger numbers are larger.                                   *)
LEMMA ProductGrows ==
    ASSUME NEW a \in Nat, NEW b \in Nat, NEW c \in Nat, a <= b
    PROVE  a * c \in Nat /\ b * c \in Nat /\ a * c <= b * c
  OBVIOUS

(* A quotient is told by its bounds. *)
LEMMA QuotientIs ==
    ASSUME NEW a \in Nat, NEW s \in Nat \ {0}, NEW m \in Nat,
           m * s <= a, a < m * s + s
    PROVE  a \div s = m
  <1> DEFINE q == a \div s
  <1>1. q \in Nat /\ q * s <= a /\ a < q * s + s
    BY Quotient
  <1> HIDE DEF q
  <1>2. (q + 1) * s = q * s + s /\ (m + 1) * s = m * s + s /\ q * s \in Nat /\ m * s \in Nat
    BY <1>1
  <1>3. CASE q < m
    <2>1. (q + 1) * s <= m * s
      BY <1>1, <1>3, ProductGrows
    <2>2. QED
      BY <1>1, <1>2, <2>1
  <1>4. CASE m < q
    <2>1. (m + 1) * s <= q * s
      BY <1>1, <1>4, ProductGrows
    <2>2. QED
      BY <1>1, <1>2, <2>1
  <1>5. QED
    BY <1>1, <1>3, <1>4 DEF q

(* next_multiple_of: the least multiple that is no less.                     *)
LEMMA CeilIs ==
    ASSUME NEW a \in Nat, NEW s \in Nat \ {0}
    PROVE  \E m \in Nat : /\ Ceil(a, s) = m * s /\ m * s \in Nat
                          /\ a <= m * s /\ m * s < a + s
                          /\ a > 0 => m > 0
  <1> DEFINE c == a + s - 1
             m == c \div s
  <1>1. c \in Nat
    OBVIOUS
  <1> HIDE DEF c
  <1>2. m \in Nat /\ m * s \in Nat /\ m * s <= c /\ c < m * s + s
    BY <1>1, Quotient
  <1>3. Ceil(a, s) = m * s
    BY DEF Ceil, c
  <1> HIDE DEF m
  <1>4. a <= m * s /\ m * s < a + s
    BY <1>2 DEF c
  <1>5. a > 0 => m > 0
    <2> SUFFICES ASSUME a > 0, m = 0 PROVE FALSE
      BY <1>2
    <2>1. m * s = 0
      OBVIOUS
    <2>2. QED
      BY <1>4, <2>1
  <1>6. QED
    BY <1>2, <1>3, <1>4, <1>5

(* A number of buckets and a range that is neither empty nor from 1970.      *)
Plotted(q) == q.n # 0 /\ 0 < q.start /\ q.start < q.end

(* How event_count_buckets lays the buckets out: the first begins before the *)
(* range, the last ends after it, each a step after the one before, and no   *)
(* arithmetic overflows.                                                     *)
LEMMA LaidOut ==
    ASSUME NEW q \in Queries, Plotted(q)
    PROVE  LET s == Width(q)
               lo == Ceil(q.start, s) - s
               hi == Ceil(q.end, s)
           IN  /\ s \in Nat \ {0} /\ lo \in Nat /\ hi \in Nat
               /\ lo < q.start /\ q.end <= hi /\ lo <= hi
               /\ Floor(q.start, s) = lo /\ hi % Word = hi
               /\ ~Overflows(q, s)
               /\ \E n \in Nat : hi = lo + n * s /\ Length(lo, hi, s) = n + 1
                                /\ n * s \in Nat
  <1> DEFINE s == Width(q)
             lo == Ceil(q.start, s) - s
             hi == Ceil(q.end, s)
  <1>1. /\ q.start \in Nat \ {0} /\ q.end \in Nat /\ q.n \in Nat \ {0} /\ q.start < q.end
        /\ Word \in Nat \ {0} /\ 2 * q.end <= Word
    <2>1. q.end \in Bounds
      BY DEF Queries
    <2>2. QED
      BY <2>1, AskedInWords, EventQueriesAssumption, BoundsAssumption DEF Plotted
  <1>2. s \in Nat \ {0} /\ s <= q.end - q.start
    <2> DEFINE w == (q.end - q.start) \div q.n
    <2>1. q.end - q.start \in Nat \ {0}
      BY <1>1
    <2>2. w \in Nat /\ w * q.n <= q.end - q.start /\ w * q.n \in Nat
      BY <1>1, <2>1, Quotient
    <2>3. s = Max({w, 1})
      BY DEF Width
    <2> HIDE DEF w
    <2>4. \E x \in {w, 1} : \A y \in {w, 1} : x >= y
      BY <2>2
    <2>5. Max({w, 1}) \in {w, 1} /\ Max({w, 1}) >= 1
      BY <2>4 DEF Max
    <2>6. w <= w * q.n
      <3>1. 1 * w <= q.n * w
        BY <1>1, <2>2, ProductGrows
      <3>2. 1 * w = w /\ q.n * w = w * q.n
        BY <1>1, <2>2
      <3>3. QED
        BY <3>1, <3>2
    <2>7. w <= q.end - q.start
      BY <2>1, <2>2, <2>6
    <2> HIDE DEF s
    <2>8. QED
      BY <2>1, <2>2, <2>3, <2>5, <2>7
  <1> HIDE DEF s
  <1>3. PICK A \in Nat : /\ Ceil(q.start, s) = A * s /\ A * s \in Nat /\ A > 0
                         /\ q.start <= A * s /\ A * s < q.start + s
    <2>1. q.start \in Nat /\ q.start > 0
      BY <1>1
    <2>2. QED
      BY <1>2, <2>1, CeilIs
  <1>4. PICK B \in Nat : /\ Ceil(q.end, s) = B * s /\ B * s \in Nat
                         /\ q.end <= B * s /\ B * s < q.end + s
    BY <1>1, <1>2, CeilIs
  <1>5. A - 1 \in Nat /\ (A - 1) * s \in Nat /\ lo = (A - 1) * s /\ A * s = (A - 1) * s + s
    BY <1>2, <1>3
  <1>6. lo \in Nat /\ hi \in Nat /\ lo < q.start /\ q.end <= hi /\ hi < Word
    <2>1. B * s < Word
      BY <1>1, <1>2, <1>4
    <2>2. QED
      BY <1>1, <1>2, <1>3, <1>4, <1>5, <2>1
  <1>7. A <= B
    <2> SUFFICES ASSUME B < A PROVE FALSE
      BY <1>3, <1>4
    <2>1. B + 1 <= A /\ (B + 1) * s <= A * s
      BY <1>2, <1>3, <1>4, ProductGrows
    <2>2. (B + 1) * s = B * s + s
      BY <1>2, <1>4
    <2>3. QED
      BY <1>1, <1>2, <1>3, <1>4, <2>1, <2>2
  <1>8. Floor(q.start, s) = lo /\ hi % Word = hi
    <2>1. Ceil(q.start, s) + Word - s = lo + Word
      BY <1>1, <1>2, <1>3, <1>5
    <2>2. lo < Word
      BY <1>1, <1>6
    <2> HIDE DEF lo, hi
    <2>3. (lo + Word) % Word = lo /\ hi % Word = hi
      BY <1>1, <1>6, <2>2
    <2>4. QED
      BY <2>1, <2>3 DEF Floor
  <1>9. ~Overflows(q, s)
    BY <1>1, <1>6 DEF Overflows
  <1> DEFINE n == B - A + 1
  <1>10. n \in Nat /\ n * s \in Nat /\ hi = lo + n * s
    <2>1. n \in Nat
      BY <1>3, <1>4, <1>7
    <2>2. n * s = B * s - (A - 1) * s
      BY <1>2, <1>3, <1>4
    <2>3. n * s \in Nat
      BY <1>2, <2>1
    <2>4. QED
      BY <1>4, <1>5, <2>1, <2>2, <2>3
  <1>11. Length(lo, hi, s) = n + 1
    <2> HIDE DEF n, lo, hi
    <2>1. hi - lo = n * s /\ ~(hi < lo)
      BY <1>6, <1>10
    <2>2. (n * s) \div s = n
      BY <1>2, <1>10, QuotientIs
    <2>3. QED
      BY <2>1, <2>2 DEF Length
  <1>12. lo <= hi
    BY <1>6, <1>10
  <1> HIDE DEF lo, hi, n
  <1>13. QED
    BY <1>2, <1>6, <1>8, <1>9, <1>10, <1>11, <1>12 DEF s, lo, hi

(* The iterator of a query that is not exhausted yields a key: of finitely   *)
(* or infinitely many there is a smallest in the order of bytes.             *)
LEMMA FirstIsKey ==
    ASSUME NEW keys \in SUBSET EventKeys, keys # {}
    PROVE  First(keys) \in keys
  <1>1. \A k \in EventKeys : k.ts \in Nat /\ ByteOrder(k.id) \in Nat /\ k.kind \in Nat
    <2>1. \A k \in EventKeys : k.ts \in Nat /\ k.id \in 0 .. MaxId /\ k.kind \in Kinds
      BY EventQueriesAssumption
    <2>2. Kinds \subseteq Nat
      BY DEF Kinds, Unknown, OnCPU, OffCPU, UProbe
    <2>3. QED
      BY <2>1, <2>2, BytesOfEdges
  <1>2. PICK t \in {k.ts : k \in keys} : \A u \in {k.ts : k \in keys} : t <= u
    <2>1. {k.ts : k \in keys} \in SUBSET Nat /\ {k.ts : k \in keys} # {}
      BY <1>1
    <2>2. QED
      BY <2>1, LeastNatural
  <1> DEFINE K == {k \in keys : k.ts = t}
             I == {ByteOrder(k.id) : k \in K}
  <1>3. PICK i \in I : \A j \in I : i <= j
    <2>1. I \in SUBSET Nat /\ I # {}
      BY <1>1, <1>2
    <2> HIDE DEF I
    <2>2. QED
      BY <2>1, LeastNatural
  <1> DEFINE L == {k \in K : ByteOrder(k.id) = i}
             D == {k.kind : k \in L}
  <1>4. PICK d \in D : \A e \in D : d <= e
    <2>1. D \in SUBSET Nat /\ D # {}
      BY <1>1, <1>3
    <2> HIDE DEF D
    <2>2. QED
      BY <2>1, LeastNatural
  <1>5. PICK k \in keys : k.ts = t /\ ByteOrder(k.id) = i /\ k.kind = d
    BY <1>4
  <1>6. \A j \in keys : ~Before(j, k)
    <2> SUFFICES ASSUME NEW j \in keys, Before(j, k) PROVE FALSE
      OBVIOUS
    <2>1. \/ j.ts < t
          \/ j.ts = t /\ ByteOrder(j.id) < i
          \/ j.ts = t /\ ByteOrder(j.id) = i /\ j.kind < d
      BY <1>5, KeysInOrder
    <2>2. /\ j.ts \in Nat /\ ByteOrder(j.id) \in Nat /\ j.kind \in Nat
          /\ k.ts \in Nat /\ ByteOrder(k.id) \in Nat /\ k.kind \in Nat
      BY <1>1
    <2>3. t <= j.ts
      BY <1>2
    <2>4. j.ts = t => i <= ByteOrder(j.id)
      BY <1>3
    <2>5. j.ts = t /\ ByteOrder(j.id) = i => d <= j.kind
      BY <1>4
    <2>6. QED
      BY <1>5, <2>1, <2>2, <2>3, <2>4, <2>5
  <1>7. QED
    BY <1>6 DEF First

(* The maximum of two, and of a set that has one. *)
LEMMA MaxOfTwo ==
    ASSUME NEW a \in Nat, NEW b \in Nat
    PROVE  Max({a, b}) = IF a >= b THEN a ELSE b
  <1>1. \E x \in {a, b} : \A y \in {a, b} : x >= y
    OBVIOUS
  <1>2. Max({a, b}) \in {a, b} /\ \A y \in {a, b} : Max({a, b}) >= y
    BY <1>1 DEF Max
  <1>3. QED
    BY <1>2

(* The maximum of a set is its member that no other exceeds. *)
LEMMA MaxIs ==
    ASSUME NEW S \in SUBSET Nat, NEW x \in S, \A y \in S : y <= x
    PROVE  Max(S) = x
  <1>1. \E m \in S : \A y \in S : m >= y
    OBVIOUS
  <1>2. Max(S) \in S /\ Max(S) >= x
    BY <1>1 DEF Max
  <1>3. Max(S) <= x /\ Max(S) \in Nat /\ x \in Nat
    BY <1>2
  <1> HIDE DEF Max
  <1>4. QED
    BY <1>2, <1>3

-----------------------------------------------------------------------------
(* The invariant of a query.                                               *)

InRange == TimeRange(snap, query.kind, from, to)
Taken == InRange \ todo
Bucket(k) == (k.ts - from) \div step + 1
Cell(k) == <<k.ts, k.id % Cells>>
InBucket(b) == {k \in Taken : Bucket(k) = b}
InCell(c) == {k \in Taken : Cell(k) = c}

(* A query for buckets has put into them what its iterator has yielded, and *)
(* fails only for a range that starts in 1970.                              *)
BucketInv ==
    /\ pc \in {"buckets", "counted"} /\ Plotted(query) =>
          /\ query \in Queries
          /\ step = Width(query)
          /\ from = Ceil(query.start, step) - step
          /\ to = Ceil(query.end, step)
          /\ todo \subseteq InRange
          /\ pc = "counted" => todo = {}
          /\ hist \in [1 .. Length(from, to, step) -> Nat]
          /\ \A b \in DOMAIN hist : hist[b] = Cardinality(InBucket(b))
    /\ pc = "buckets" => query \in Queries /\ query.n # 0 /\ query.start < query.end
    /\ pc = "panic" => query.start = 0

(* A query for the heat map has put into the cells what its iterator has    *)
(* yielded, and its peak is the fullest of them.                            *)
HeatInv ==
    /\ pc \in {"heatmap", "filled"} =>
          /\ query.kind \in Selectable /\ from \in Nat /\ to \in Nat
          /\ todo \subseteq InRange
          /\ pc = "filled" => todo = {}
          /\ cells \in [CellSet -> Nat] /\ peak \in Nat
          /\ \A c \in CellSet : cells[c] = Cardinality(InCell(c)) /\ cells[c] <= peak
          /\ peak = 0 \/ \E c \in CellSet : cells[c] = peak
    /\ pc \notin {"heatmap", "filled"} => cells = NoCells /\ peak = 0

QueryInv == events \subseteq EventKeys /\ snap \subseteq EventKeys /\ BucketInv /\ HeatInv

(* Taking one key more from the iterator. *)
LEMMA TakenGrows ==
    ASSUME NEW k \in todo, todo \subseteq InRange, todo' = todo \ {k},
           UNCHANGED <<snap, query, from, to>>, snap \subseteq EventKeys
    PROVE  /\ InRange' = InRange /\ Taken' = Taken \cup {k} /\ k \notin Taken
           /\ todo' \subseteq InRange'
           /\ IsFiniteSet(Taken) /\ Taken \subseteq EventKeys
           /\ k \in EventKeys
  <1>1. InRange \subseteq EventKeys
    BY DEF InRange, TimeRange
  <1>2. InRange' = InRange
    BY DEF InRange
  <1>3. Taken' = Taken \cup {k} /\ k \notin Taken
    BY <1>2 DEF Taken
  <1>4. IsFiniteSet(Taken) /\ Taken \subseteq EventKeys
    <2>1. Taken \subseteq EventKeys
      BY <1>1 DEF Taken
    <2>2. QED
      BY <2>1, EventQueriesAssumption, FS_Subset
  <1>5. QED
    BY <1>1, <1>2, <1>3, <1>4

(* A finite set with one more member is larger by one. *)
LEMMA OneMore ==
    ASSUME NEW T, IsFiniteSet(T), NEW x, x \notin T
    PROVE  Cardinality(T \cup {x}) = Cardinality(T) + 1 /\ Cardinality(T) \in Nat
  BY FS_AddElement, FS_CardinalityType

(* The bucket of a key in the range is there, and begins and ends where it  *)
(* should.                                                                  *)
LEMMA BucketOf ==
    ASSUME BucketInv, pc \in {"buckets", "counted"}, Plotted(query),
           NEW k, k.ts \in Nat, from <= k.ts, k.ts <= to
    PROVE  /\ Bucket(k) \in DOMAIN hist
           /\ \A b \in DOMAIN hist :
                 Bucket(k) = b <=> /\ from + (b - 1) * step <= k.ts
                                   /\ k.ts < from + (b - 1) * step + step
  <1>1. /\ step \in Nat \ {0} /\ from \in Nat /\ to \in Nat
        /\ \E n \in Nat : to = from + n * step /\ DOMAIN hist = 1 .. n + 1 /\ n * step \in Nat
    BY LaidOut DEF BucketInv
  <1>2. PICK n \in Nat : to = from + n * step /\ DOMAIN hist = 1 .. n + 1 /\ n * step \in Nat
    BY <1>1
  <1> DEFINE a == k.ts - from
             d == a \div step
  <1>3. a \in Nat /\ a <= n * step
    BY <1>1, <1>2
  <1>4. k.ts = from + a
    BY <1>1
  <1> HIDE DEF a
  <1>5. d \in Nat /\ d * step \in Nat /\ d * step <= a /\ a < d * step + step
    BY <1>1, <1>3, Quotient
  <1>6. Bucket(k) = d + 1
    BY DEF Bucket, a
  <1>7. d <= n
    <2> SUFFICES ASSUME n < d PROVE FALSE
      BY <1>5
    <2> HIDE DEF d
    <2>1. (n + 1) * step <= d * step
      BY <1>1, <1>5, ProductGrows
    <2>2. (n + 1) * step = n * step + step
      BY <1>1
    <2>3. QED
      BY <1>1, <1>2, <1>3, <1>5, <2>1, <2>2
  <1>8. ASSUME NEW b \in 1 .. n + 1
        PROVE  d + 1 = b <=> /\ from + (b - 1) * step <= k.ts
                             /\ k.ts < from + (b - 1) * step + step
    <2>1. b - 1 \in Nat /\ (b - 1) * step \in Nat /\ b \in Nat
      BY <1>1
    <2>2. CASE d + 1 = b
      <3>1. d = b - 1
        BY <1>5, <2>1, <2>2
      <3> HIDE DEF d
      <3>2. QED
        BY <1>1, <1>3, <1>4, <1>5, <2>1, <2>2, <3>1
    <2>3. CASE /\ from + (b - 1) * step <= k.ts
               /\ k.ts < from + (b - 1) * step + step
      <3>1. (b - 1) * step <= a /\ a < (b - 1) * step + step
        BY <1>1, <1>3, <1>4, <2>1, <2>3
      <3>2. d = b - 1
        BY <1>1, <1>3, <2>1, <3>1, QuotientIs
      <3> HIDE DEF d
      <3>3. QED
        BY <1>5, <2>1, <2>3, <3>2
    <2>4. QED
      BY <2>2, <2>3
  <1> HIDE DEF d
  <1>9. QED
    BY <1>2, <1>5, <1>6, <1>7, <1>8

(* event_count_buckets counts the next event in the bucket of its time: no  *)
(* bucket is missing, no other one changes, and no arithmetic overflows.    *)
LEMMA BucketStep ==
    ASSUME QueryInv, CountEvent
    PROVE  BucketInv'
  <1> DEFINE k == First(todo)
             i == Bucket(k)
  <1>1. /\ pc = "buckets" /\ todo # {} /\ todo' = todo \ {k}
        /\ IF i \in DOMAIN hist
           THEN hist' = [hist EXCEPT ![i] = @ + 1] /\ pc' = pc
           ELSE pc' = "panic" /\ hist' = hist
        /\ UNCHANGED <<events, query, snap, from, to, step>>
    BY DEF CountEvent, Bucket, asked
  <1>2. query \in Queries /\ query.n # 0 /\ query.start < query.end /\ query.start \in Nat
    BY <1>1, AskedInWords DEF QueryInv, BucketInv
  <1>3. CASE query.start = 0
    BY <1>1, <1>2, <1>3 DEF BucketInv, Plotted
  <1>4. CASE query.start # 0
    <2>1. Plotted(query) /\ BucketInv
      BY <1>2, <1>4 DEF Plotted, QueryInv
    <2>2. /\ step = Width(query) /\ from = Ceil(query.start, step) - step
          /\ to = Ceil(query.end, step)
          /\ todo \subseteq InRange
          /\ hist \in [1 .. Length(from, to, step) -> Nat]
          /\ \A b \in DOMAIN hist : hist[b] = Cardinality(InBucket(b))
      BY <1>1, <2>1 DEF BucketInv
    <2>3. k \in todo
      <3>1. todo \in SUBSET EventKeys
        BY <2>2 DEF InRange, TimeRange, QueryInv
      <3>2. QED
        BY <1>1, <3>1, FirstIsKey
    <2> HIDE DEF k
    <2>4. /\ InRange' = InRange /\ Taken' = Taken \cup {k} /\ k \notin Taken
          /\ todo' \subseteq InRange' /\ IsFiniteSet(Taken) /\ k \in EventKeys
      BY <1>1, <2>2, <2>3, TakenGrows DEF QueryInv
    <2>5. k.ts \in Nat /\ from <= k.ts /\ k.ts <= to
      <3>1. k \in TimeRange(snap, query.kind, from, to) /\ snap \in SUBSET EventKeys
        BY <2>2, <2>3 DEF InRange, QueryInv
      <3>2. from \in Nat /\ to \in Nat /\ query.kind \in Selectable
        BY <1>2, <2>1, <2>2, LaidOut, AskedInWords
      <3>3. QED
        BY <2>4, <3>1, <3>2, RangeByKeys, EventQueriesAssumption
    <2>6. i \in DOMAIN hist
      BY <1>1, <2>1, <2>5, BucketOf
    <2> HIDE DEF i
    <2>7. hist' = [hist EXCEPT ![i] = hist[i] + 1] /\ pc' = "buckets"
      BY <1>1, <2>6
    <2>8. \A j : Bucket(j)' = Bucket(j)
      BY <1>1 DEF Bucket
    <2>9. ASSUME NEW b \in DOMAIN hist
          PROVE  hist'[b] = Cardinality(InBucket(b)')
      <3>1. IsFiniteSet(InBucket(b)) /\ InBucket(b) \subseteq Taken
        BY <2>4, FS_Subset DEF InBucket
      <3>2. CASE b = i
        <4>1. InBucket(b)' = InBucket(b) \cup {k}
          BY <2>4, <2>8, <3>2 DEF InBucket, i
        <4>2. Cardinality(InBucket(b) \cup {k}) = Cardinality(InBucket(b)) + 1
          BY <2>4, <3>1, OneMore
        <4>3. QED
          BY <2>2, <2>6, <2>7, <3>2, <4>1, <4>2
      <3>3. CASE b # i
        <4>1. InBucket(b)' = InBucket(b)
          BY <2>4, <2>8, <3>3 DEF InBucket, i
        <4>2. QED
          BY <2>2, <2>6, <2>7, <3>3, <4>1
      <3>4. QED
        BY <3>2, <3>3
    <2>10. hist' \in [1 .. Length(from, to, step) -> Nat] /\ DOMAIN hist' = DOMAIN hist
      BY <2>2, <2>6, <2>7
    <2>11. QED
      BY <1>1, <1>2, <2>2, <2>4, <2>7, <2>9, <2>10 DEF BucketInv
  <1>5. QED
    BY <1>3, <1>4

(* build_heatmap counts the next event in its cell, and max_count stays the *)
(* largest of the cells.                                                    *)
LEMMA CellStep ==
    ASSUME QueryInv, FillCell
    PROVE  HeatInv'
  <1> DEFINE k == First(todo)
             c == Cell(k)
  <1>1. /\ pc = "heatmap" /\ todo # {} /\ todo' = todo \ {k} /\ pc' = pc
        /\ cells' = [cells EXCEPT ![c] = @ + 1]
        /\ peak' = Max({peak, cells'[c]})
        /\ UNCHANGED <<events, query, snap, from, to>>
    BY DEF FillCell, Cell, asked
  <1>2. /\ query.kind \in Selectable /\ from \in Nat /\ to \in Nat
        /\ todo \subseteq InRange
        /\ cells \in [CellSet -> Nat] /\ peak \in Nat
        /\ \A d \in CellSet : cells[d] = Cardinality(InCell(d)) /\ cells[d] <= peak
        /\ peak = 0 \/ \E d \in CellSet : cells[d] = peak
    BY <1>1 DEF QueryInv, HeatInv
  <1>3. k \in todo
    <2>1. todo \in SUBSET EventKeys
      BY <1>2 DEF InRange, TimeRange, QueryInv
    <2>2. QED
      BY <1>1, <2>1, FirstIsKey
  <1> HIDE DEF k
  <1>4. /\ InRange' = InRange /\ Taken' = Taken \cup {k} /\ k \notin Taken
        /\ todo' \subseteq InRange' /\ IsFiniteSet(Taken) /\ k \in EventKeys
    BY <1>1, <1>2, <1>3, TakenGrows DEF QueryInv
  <1>5. c \in CellSet
    <2>1. k.id \in Nat /\ Cells \in Nat \ {0}
      BY <1>4, EventQueriesAssumption
    <2>2. k.id % Cells \in 0 .. Cells - 1
      BY <2>1
    <2>3. QED
      BY <1>4, <2>2 DEF CellSet, Cell
  <1> HIDE DEF c
  <1>6. cells' \in [CellSet -> Nat] /\ cells'[c] = cells[c] + 1 /\ cells'[c] \in Nat
        /\ \A d \in CellSet : d # c => cells'[d] = cells[d]
    BY <1>1, <1>2, <1>5
  <1>7. peak' = (IF peak >= cells'[c] THEN peak ELSE cells'[c]) /\ peak' \in Nat
    BY <1>1, <1>2, <1>6, MaxOfTwo
  <1>8. ASSUME NEW d \in CellSet
        PROVE  cells'[d] = Cardinality(InCell(d)') /\ cells'[d] <= peak'
    <2>1. IsFiniteSet(InCell(d)) /\ InCell(d) \subseteq Taken
      BY <1>4, FS_Subset DEF InCell
    <2>2. CASE d = c
      <3>1. InCell(d)' = InCell(d) \cup {k}
        BY <1>4, <2>2 DEF InCell, c, Cell
      <3>2. Cardinality(InCell(d) \cup {k}) = Cardinality(InCell(d)) + 1
        BY <1>4, <2>1, OneMore
      <3>3. QED
        BY <1>2, <1>6, <1>7, <2>2, <3>1, <3>2
    <2>3. CASE d # c
      <3>1. InCell(d)' = InCell(d)
        BY <1>4, <2>3 DEF InCell, c, Cell
      <3>2. cells[d] <= peak /\ cells[d] \in Nat
        BY <1>2
      <3>3. QED
        BY <1>2, <1>6, <1>7, <2>3, <3>1, <3>2
    <2>4. QED
      BY <2>2, <2>3
  <1>9. peak' = 0 \/ \E d \in CellSet : cells'[d] = peak'
    <2>1. CASE peak >= cells'[c] /\ peak # 0
      <3>1. PICK d \in CellSet : cells[d] = peak
        BY <1>2, <2>1
      <3>2. d # c
        BY <1>2, <1>5, <1>6, <2>1, <3>1
      <3>3. QED
        BY <1>6, <1>7, <2>1, <3>1, <3>2
    <2>2. CASE ~(peak >= cells'[c])
      BY <1>5, <1>7, <2>2
    <2>3. QED
      BY <1>7, <2>1, <2>2
  <1>10. QED
    BY <1>1, <1>2, <1>4, <1>6, <1>7, <1>8, <1>9 DEF HeatInv

(* No step but a query's changes what a query works with. *)
LEMMA QueryKept ==
    ASSUME QueryInv, UNCHANGED <<pc, asked, todo, plot, map>>, events' \subseteq EventKeys
    PROVE  QueryInv'
  <1>1. UNCHANGED <<pc, query, snap, from, to, todo, step, hist, cells, peak>>
    BY DEF asked, plot, map
  <1>2. /\ InRange' = InRange /\ \A b : InBucket(b)' = InBucket(b)
        /\ \A c : InCell(c)' = InCell(c)
    BY <1>1 DEF InRange, InBucket, InCell, Taken, Bucket
  <1>3. BucketInv'
    BY <1>1, <1>2 DEF QueryInv, BucketInv
  <1>4. HeatInv'
    BY <1>1, <1>2 DEF QueryInv, HeatInv
  <1>5. QED
    BY <1>1, <1>3, <1>4 DEF QueryInv

(* Nothing is taken from an iterator when it is made. *)
LEMMA NothingTaken ==
    ASSUME todo' = InRange'
    PROVE  /\ \A b : InBucket(b)' = {} /\ Cardinality(InBucket(b)') = 0
           /\ \A c : InCell(c)' = {} /\ Cardinality(InCell(c)') = 0
  <1>1. Taken' = {}
    BY DEF Taken
  <1>2. (\A b : InBucket(b)' = {}) /\ \A c : InCell(c)' = {}
    BY <1>1 DEF InBucket, InCell
  <1>3. Cardinality({}) = 0
    BY FS_EmptySet
  <1>4. QED
    BY <1>2, <1>3

(* A query for buckets begins with buckets that are all empty, and lays     *)
(* them out without an overflow but, perhaps, for a range from 1970.        *)
LEMMA AskBucketsStep ==
    ASSUME QueryInv, NEW q \in Queries, AskBuckets(q)
    PROVE  QueryInv'
  <1>1. /\ pc = "idle" /\ q.start < q.end /\ q.n # 0 /\ query' = q
        /\ step' = Width(q) /\ from' = Floor(q.start, step') /\ to' = Ceil(q.end, step') % Word
        /\ hist' = [b \in 1 .. Length(from', to', step') |-> 0]
        /\ pc' \in IF ~Overflows(q, step') THEN {"buckets"}
                   ELSE {IF b = "check" THEN "panic" ELSE "buckets" : b \in Builds}
        /\ snap' = events /\ todo' = TimeRange(events, q.kind, from', to')
        /\ UNCHANGED <<events, cells, peak>>
    BY DEF AskBuckets, LayOut, map
  <1>2. pc' \in {"buckets", "panic"}
    BY <1>1
  <1>3. HeatInv'
    BY <1>1, <1>2 DEF QueryInv, HeatInv
  <1>4. q.start \in Nat
    BY AskedInWords
  <1>5. CASE q.start = 0
    <2>1. ~Plotted(q)
      BY <1>5 DEF Plotted
    <2>2. BucketInv'
      BY <1>1, <1>2, <1>5, <2>1 DEF BucketInv, Plotted
    <2>3. QED
      BY <1>1, <1>3, <2>2 DEF QueryInv
  <1>6. CASE q.start # 0
    <2>1. Plotted(q)
      BY <1>1, <1>4, <1>6 DEF Plotted
    <2> DEFINE s == Width(q)
               lo == Ceil(q.start, s) - s
               hi == Ceil(q.end, s)
    <2>2. /\ Floor(q.start, s) = lo /\ hi % Word = hi /\ ~Overflows(q, s)
          /\ \E n \in Nat : Length(lo, hi, s) = n + 1
      BY <2>1, LaidOut
    <2> HIDE DEF s, lo, hi
    <2>3. /\ step' = s /\ from' = lo /\ to' = hi /\ pc' = "buckets"
          /\ hist' = [b \in 1 .. Length(lo, hi, s) |-> 0]
      BY <1>1, <2>2 DEF s, hi
    <2>4. todo' = InRange'
      BY <1>1 DEF InRange
    <2>5. /\ hist' \in [1 .. Length(from', to', step') -> Nat]
          /\ \A b \in DOMAIN hist' : hist'[b] = Cardinality(InBucket(b)')
      <3>1. hist' \in [1 .. Length(lo, hi, s) -> Nat] /\ \A b \in DOMAIN hist' : hist'[b] = 0
        BY <2>3
      <3>2. QED
        BY <2>3, <2>4, <3>1, NothingTaken
    <2>6. from' = Ceil(q.start, s) - s /\ to' = Ceil(q.end, s) /\ step' = Width(q)
      BY <2>3 DEF s, lo, hi
    <2>7. BucketInv'
      BY <1>1, <2>3, <2>4, <2>5, <2>6 DEF BucketInv
    <2>8. QED
      BY <1>1, <1>3, <2>7 DEF QueryInv
  <1>7. QED
    BY <1>5, <1>6

(* A heat map begins with cells that are all empty. *)
LEMMA AskHeatmapStep ==
    ASSUME QueryInv, NEW q \in Queries, AskHeatmap(q)
    PROVE  QueryInv'
  <1>1. /\ pc = "idle" /\ query' = [q EXCEPT !.n = 0] /\ pc' = "heatmap"
        /\ snap' = events /\ from' = q.start /\ to' = q.end
        /\ todo' = TimeRange(events, q.kind, q.start, q.end)
        /\ UNCHANGED <<events, step, hist, cells, peak>>
    BY DEF AskHeatmap, plot, map
  <1>2. query'.kind = q.kind /\ q.kind \in Selectable /\ q.start \in Nat /\ q.end \in Nat
    BY <1>1, AskedInWords DEF Queries
  <1>3. todo' = InRange'
    BY <1>1, <1>2 DEF InRange
  <1>4. cells' = NoCells /\ peak' = 0
    BY <1>1 DEF QueryInv, HeatInv
  <1>5. cells' \in [CellSet -> Nat] /\ \A c \in CellSet : cells'[c] = 0
    BY <1>4 DEF NoCells
  <1>6. HeatInv'
    BY <1>1, <1>2, <1>3, <1>4, <1>5, NothingTaken DEF HeatInv
  <1>7. BucketInv'
    BY <1>1 DEF BucketInv
  <1>8. QED
    BY <1>1, <1>6, <1>7 DEF QueryInv

(* What has been counted at the end of the iteration stays. *)
LEMMA FinishStep ==
    ASSUME QueryInv, Finish
    PROVE  QueryInv'
  <1>1. /\ pc \in {"buckets", "heatmap"} /\ todo = {}
        /\ pc' = IF pc = "buckets" THEN "counted" ELSE "filled"
        /\ UNCHANGED <<events, query, snap, from, to, todo, step, hist, cells, peak>>
    BY DEF Finish, asked, plot, map
  <1>2. /\ InRange' = InRange /\ \A b : InBucket(b)' = InBucket(b)
        /\ \A c : InCell(c)' = InCell(c)
    BY <1>1 DEF InRange, InBucket, InCell, Taken, Bucket
  <1>3. BucketInv'
    BY <1>1, <1>2 DEF QueryInv, BucketInv
  <1>4. HeatInv'
    BY <1>1, <1>2 DEF QueryInv, HeatInv
  <1>5. QED
    BY <1>1, <1>3, <1>4 DEF QueryInv

(* Every step keeps the invariant: the queries by the lemmas above, all     *)
(* that the collector adds because the iterator has its snapshot.           *)
LEMMA QueryStep ==
    ASSUME QueryInv, [Next]_vars
    PROVE  QueryInv'
  <1>1. ASSUME NEW k \in EventKeys, Insert(k) PROVE QueryInv'
    BY <1>1, QueryKept DEF Insert, QueryInv
  <1>2. ASSUME NEW q \in Queries, AskNothing(q) PROVE QueryInv'
    <2>1. /\ pc = "idle" /\ pc' = "counted" /\ query' = q
          /\ q.start >= q.end \/ q.n = 0
          /\ UNCHANGED <<events, snap, cells, peak>>
      BY <1>2 DEF AskNothing, map
    <2>2. ~Plotted(q)
      <3>1. q.start \in Nat /\ q.end \in Nat
        BY AskedInWords
      <3>2. QED
        BY <2>1, <3>1 DEF Plotted
    <2>3. BucketInv'
      BY <2>1, <2>2 DEF BucketInv, Plotted
    <2>4. HeatInv'
      BY <2>1 DEF QueryInv, HeatInv
    <2>5. QED
      BY <2>1, <2>3, <2>4 DEF QueryInv
  <1>3. ASSUME NEW q \in Queries, AskBuckets(q) PROVE QueryInv'
    BY <1>3, AskBucketsStep
  <1>4. ASSUME NEW q \in Queries, AskHeatmap(q) PROVE QueryInv'
    BY <1>4, AskHeatmapStep
  <1>5. CASE CountEvent
    <2>1. pc' \in {"buckets", "panic"} /\ pc = "buckets" /\ UNCHANGED <<events, snap, cells, peak>>
      BY <1>5 DEF CountEvent, asked, map
    <2>2. HeatInv'
      BY <2>1 DEF QueryInv, HeatInv
    <2>3. QED
      BY <1>5, <2>1, <2>2, BucketStep DEF QueryInv
  <1>6. CASE FillCell
    <2>1. pc' = "heatmap" /\ UNCHANGED <<events, snap>>
      BY <1>6 DEF FillCell, asked
    <2>2. BucketInv'
      BY <2>1 DEF BucketInv
    <2>3. QED
      BY <1>6, <2>1, <2>2, CellStep DEF QueryInv
  <1>7. CASE Finish
    BY <1>7, FinishStep
  <1>8. CASE Return
    BY <1>8 DEF Return, QueryInv, BucketInv, HeatInv
  <1>9. CASE UNCHANGED vars
    BY <1>9, QueryKept DEF vars, QueryInv
  <1>10. QED
    BY <1>1, <1>2, <1>3, <1>4, <1>5, <1>6, <1>7, <1>8, <1>9 DEF Next, Collect, Query

(* So far the buckets or cells count what was taken from the iterator,      *)
(* always.                                                                  *)
LEMMA QueryInvariant == Spec => []QueryInv
  <1>1. Init => QueryInv
    BY DEF Init, QueryInv, BucketInv, HeatInv
  <1>2. QED
    BY <1>1, QueryStep, PTL DEF Spec

(* A count between those of what is certain and what is possible.           *)
LEMMA CountBetween ==
    ASSUME NEW S \in SUBSET EventKeys, NEW C \in SUBSET S, NEW D \in SUBSET C
    PROVE  Cardinality(C) \in Cardinality(D) .. Cardinality(S)
  <1>1. IsFiniteSet(S)
    BY EventQueriesAssumption, FS_Subset
  <1>2. IsFiniteSet(C) /\ Cardinality(C) <= Cardinality(S)
    BY <1>1, FS_Subset
  <1>3. IsFiniteSet(D) /\ Cardinality(D) <= Cardinality(C)
    BY <1>2, FS_Subset
  <1>4. Cardinality(S) \in Nat /\ Cardinality(C) \in Nat /\ Cardinality(D) \in Nat
    BY <1>1, <1>2, <1>3, FS_CardinalityType
  <1>5. QED
    BY <1>2, <1>3, <1>4

(* When the iterator is exhausted, the buckets count the events of the      *)
(* snapshot by their time, but for the edges that the range by keys leaves  *)
(* out.                                                                     *)
LEMMA BucketsCounted == ASSUME QueryInv PROVE BucketsExact
  <1> SUFFICES ASSUME pc = "counted", Plotted(query)
               PROVE  /\ \A b \in DOMAIN hist :
                            LET low == from + (b - 1) * step
                                In(k) == low <= k.ts /\ k.ts < low + step /\ k.ts <= to
                                Counted == {k \in snap : OfKind(k) /\ In(k)}
                                Certain == {k \in Counted : ~AtEdge(k)}
                            IN  hist[b] \in Cardinality(Certain) .. Cardinality(Counted)
                      /\ \A k \in snap : query.start <= k.ts /\ k.ts <= query.end =>
                            from < k.ts /\ k.ts < from + Len(hist) * step
    BY DEF BucketsExact, Plotted
  <1>1. /\ BucketInv /\ snap \in SUBSET EventKeys /\ query \in Queries
        /\ step = Width(query) /\ from = Ceil(query.start, step) - step
        /\ to = Ceil(query.end, step) /\ Taken = InRange
        /\ hist \in [1 .. Length(from, to, step) -> Nat]
        /\ \A b \in DOMAIN hist : hist[b] = Cardinality(InBucket(b))
    BY DEF QueryInv, BucketInv, Taken
  <1>2. /\ step \in Nat \ {0} /\ from \in Nat /\ to \in Nat
        /\ from < query.start /\ query.end <= to
        /\ \E n \in Nat : to = from + n * step /\ Length(from, to, step) = n + 1 /\ n * step \in Nat
    BY <1>1, LaidOut
  <1>3. query.start \in Nat /\ query.end \in Nat /\ query.kind \in Selectable
    BY <1>1, AskedInWords
  <1>4. \A k \in snap : k.ts \in Nat
    BY <1>1, EventQueriesAssumption
  <1>5. /\ \A k \in InRange : k \in snap /\ from <= k.ts /\ k.ts <= to /\ OfKind(k)
        /\ \A k \in snap \ InRange : from <= k.ts /\ k.ts <= to /\ OfKind(k) => AtEdge(k)
    <2>1. InRange \subseteq snap
      BY DEF InRange, TimeRange
    <2>2. QED
      BY <1>1, <1>2, <1>3, <2>1, RangeByKeys DEF InRange, OfKind, AtEdge
  <1>6. ASSUME NEW b \in DOMAIN hist
        PROVE  LET low == from + (b - 1) * step
                   In(k) == low <= k.ts /\ k.ts < low + step /\ k.ts <= to
                   Counted == {k \in snap : OfKind(k) /\ In(k)}
                   Certain == {k \in Counted : ~AtEdge(k)}
               IN  hist[b] \in Cardinality(Certain) .. Cardinality(Counted)
    <2> DEFINE low == from + (b - 1) * step
               In(k) == low <= k.ts /\ k.ts < low + step /\ k.ts <= to
               Counted == {k \in snap : OfKind(k) /\ In(k)}
               Certain == {k \in Counted : ~AtEdge(k)}
    <2>1. low \in Nat /\ from <= low
      <3>1. b - 1 \in Nat
        BY <1>1, <1>2
      <3>2. (b - 1) * step \in Nat
        BY <1>2, <3>1
      <3>3. QED
        BY <1>2, <3>2
    <2>2. \A k \in snap : from <= k.ts /\ k.ts <= to =>
             (Bucket(k) = b <=> low <= k.ts /\ k.ts < low + step)
      BY <1>1, <1>4, BucketOf
    <2>3. \A k \in snap : low <= k.ts => from <= k.ts
      BY <1>2, <1>4, <2>1
    <2> HIDE DEF low
    <2>4. InBucket(b) \subseteq Counted
      BY <1>1, <1>5, <2>2 DEF InBucket
    <2>5. Certain \subseteq InBucket(b)
      BY <1>1, <1>5, <2>2, <2>3 DEF InBucket
    <2>6. Counted \in SUBSET EventKeys
      BY <1>1
    <2> HIDE DEF Counted, Certain
    <2>7. Cardinality(InBucket(b)) \in Cardinality(Certain) .. Cardinality(Counted)
      BY <2>4, <2>5, <2>6, CountBetween
    <2>8. QED
      BY <1>1, <2>7 DEF Certain, Counted, low
  <1>7. ASSUME NEW k \in snap, query.start <= k.ts, k.ts <= query.end
        PROVE  from < k.ts /\ k.ts < from + Len(hist) * step
    <2>1. PICK n \in Nat : to = from + n * step /\ Length(from, to, step) = n + 1 /\ n * step \in Nat
      BY <1>2
    <2>2. Len(hist) = n + 1
      BY <1>1, <2>1
    <2>3. (n + 1) * step = n * step + step
      BY <1>2, <2>1
    <2>4. k.ts \in Nat
      BY <1>4
    <2>5. QED
      BY <1>2, <1>3, <1>7, <2>1, <2>2, <2>3, <2>4
  <1>8. QED
    BY <1>6, <1>7

(* When the iterator is exhausted, the cells count the events of the        *)
(* snapshot by second and sub-second, but for these edges.                  *)
LEMMA CellsCounted == ASSUME QueryInv PROVE HeatmapExact
  <1> SUFFICES ASSUME pc = "filled"
               PROVE  /\ \A c \in CellSet :
                            LET Counted == {k \in snap : /\ OfKind(k) /\ from <= k.ts /\ k.ts <= to
                                                         /\ k.ts = c[1] /\ k.id % Cells = c[2]}
                                Certain == {k \in Counted : ~AtEdge(k)}
                            IN  cells[c] \in Cardinality(Certain) .. Cardinality(Counted)
                      /\ peak = Max({cells[c] : c \in CellSet} \cup {0})
    BY DEF HeatmapExact
  <1>1. /\ query.kind \in Selectable /\ from \in Nat /\ to \in Nat
        /\ snap \in SUBSET EventKeys /\ Taken = InRange
        /\ cells \in [CellSet -> Nat] /\ peak \in Nat
        /\ \A c \in CellSet : cells[c] = Cardinality(InCell(c)) /\ cells[c] <= peak
        /\ peak = 0 \/ \E c \in CellSet : cells[c] = peak
    BY DEF QueryInv, HeatInv, Taken
  <1>2. /\ \A k \in InRange : k \in snap /\ from <= k.ts /\ k.ts <= to /\ OfKind(k)
        /\ \A k \in snap \ InRange : from <= k.ts /\ k.ts <= to /\ OfKind(k) => AtEdge(k)
    <2>1. InRange \subseteq snap
      BY DEF InRange, TimeRange
    <2>2. QED
      BY <1>1, <2>1, RangeByKeys DEF InRange, OfKind, AtEdge
  <1>3. ASSUME NEW c \in CellSet
        PROVE  LET Counted == {k \in snap : /\ OfKind(k) /\ from <= k.ts /\ k.ts <= to
                                            /\ k.ts = c[1] /\ k.id % Cells = c[2]}
                   Certain == {k \in Counted : ~AtEdge(k)}
               IN  cells[c] \in Cardinality(Certain) .. Cardinality(Counted)
    <2> DEFINE Counted == {k \in snap : /\ OfKind(k) /\ from <= k.ts /\ k.ts <= to
                                        /\ k.ts = c[1] /\ k.id % Cells = c[2]}
               Certain == {k \in Counted : ~AtEdge(k)}
    <2>1. \A k : Cell(k) = c <=> k.ts = c[1] /\ k.id % Cells = c[2]
      BY DEF Cell, CellSet
    <2>2. InCell(c) \subseteq Counted
      BY <1>1, <1>2, <2>1 DEF InCell
    <2>3. Certain \subseteq InCell(c)
      BY <1>1, <1>2, <2>1 DEF InCell
    <2>4. Counted \in SUBSET EventKeys
      BY <1>1
    <2> HIDE DEF Counted, Certain
    <2>5. Cardinality(InCell(c)) \in Cardinality(Certain) .. Cardinality(Counted)
      BY <2>2, <2>3, <2>4, CountBetween
    <2>6. QED
      BY <1>1, <2>5 DEF Certain, Counted
  <1>4. peak = Max({cells[c] : c \in CellSet} \cup {0})
    <2> DEFINE S == {cells[c] : c \in CellSet} \cup {0}
    <2>1. S \in SUBSET Nat /\ peak \in S /\ \A y \in S : y <= peak
      BY <1>1
    <2> HIDE DEF S
    <2>2. Max(S) = peak
      BY <2>1, MaxIs
    <2>3. QED
      BY <2>2 DEF S
  <1>5. QED
    BY <1>3, <1>4

(* event_count_buckets and build_heatmap count each event of the snapshot in *)
(* the bucket of its time and in the cell of its second and sub-second,     *)
(* whatever the collector adds meanwhile, and no arithmetic overflows but   *)
(* for a range from 1970.                                                   *)
THEOREM PlotsAlwaysExact == Spec => []PlotsExact
  <1>1. QueryInv => PlotsExact
    BY BucketsCounted, CellsCounted DEF QueryInv, BucketInv, PlotsExact, PanicsAtZero
  <1>2. QED
    BY <1>1, QueryInvariant, PTL

-----------------------------------------------------------------------------
(* Sums over sets.                                                         *)

Picked(s) == CHOOSE x \in s : TRUE

(* f adds up w over the subsets of S, one member after the other. *)
AddsUp(f, S, w) ==
    f = [s \in SUBSET S |-> IF s = {} THEN 0 ELSE w[Picked(s)] + f[s \ {Picked(s)}]]

(* The recursion behind Total. Its function has one value for each subset.  *)
LEMMA TotalIs ==
    ASSUME NEW S, NEW w
    PROVE  Total(S, w) = (CHOOSE f : AddsUp(f, S, w))[S]
  BY DEF Total, MapThenSumSet, MapThenFoldSet, AddsUp, Picked

(* A property of finite sets that fails fails for a set of which it holds for *)
(* all proper subsets.                                                        *)
LEMMA SmallestSet ==
    ASSUME NEW F, \A s \in F : IsFiniteSet(s), F # {}
    PROVE  \E s \in F : \A t \in SUBSET s : t # s => t \notin F
  <1> DEFINE N == {Cardinality(s) : s \in F}
  <1>1. N \in SUBSET Nat /\ N # {}
    BY FS_CardinalityType
  <1>2. PICK n \in N : \A m \in N : n <= m
    BY <1>1, LeastNatural
  <1>3. PICK s \in F : Cardinality(s) = n
    BY <1>2
  <1>4. ASSUME NEW t \in SUBSET s, t # s PROVE t \notin F
    <2>1. IsFiniteSet(s)
      OBVIOUS
    <2>2. Cardinality(t) \in Nat /\ Cardinality(s) \in Nat
      BY <2>1, FS_CardinalityType, FS_Subset
    <2>3. Cardinality(t) <= Cardinality(s) /\ Cardinality(t) # Cardinality(s)
      BY <1>4, <2>1, FS_Subset
    <2>4. ~(n <= Cardinality(t))
      BY <1>3, <2>2, <2>3
    <2>5. QED
      BY <1>2, <2>4
  <1>5. QED
    BY <1>4

(* There is at most one such function, whatever larger set it is made for, ...*)
LEMMA AddsUpOnce ==
    ASSUME NEW S, NEW w, NEW f, NEW g, IsFiniteSet(S),
           NEW T \in SUBSET S, AddsUp(f, S, w), AddsUp(g, T, w)
    PROVE  \A s \in SUBSET T : f[s] = g[s]
  <1> DEFINE F == {s \in SUBSET T : f[s] # g[s]}
  <1> SUFFICES ASSUME F # {} PROVE FALSE
    OBVIOUS
  <1>1. \A s \in F : IsFiniteSet(s)
    BY FS_Subset
  <1>2. PICK s \in F : \A t \in SUBSET s : t # s => t \notin F
    <2> HIDE DEF F
    <2>1. QED
      BY <1>1, SmallestSet
  <1>3. CASE s = {}
    BY <1>2, <1>3 DEF AddsUp
  <1>4. CASE s # {}
    <2>1. Picked(s) \in s
      BY <1>4 DEF Picked
    <2>2. f[s \ {Picked(s)}] = g[s \ {Picked(s)}]
      BY <1>2, <2>1
    <2>3. f[s] = w[Picked(s)] + f[s \ {Picked(s)}]
      BY <1>4 DEF AddsUp
    <2>4. g[s] = w[Picked(s)] + g[s \ {Picked(s)}]
      BY <1>4 DEF AddsUp
    <2>5. QED
      BY <2>2, <2>3, <2>4
  <1>5. QED
    BY <1>3, <1>4

(* ... and there is one.                                                    *)
LEMMA AddsUpExists ==
    ASSUME NEW S, NEW w, IsFiniteSet(S)
    PROVE  \E f : AddsUp(f, S, w)
  <1> DEFINE F == {s \in SUBSET S : \A f : ~AddsUp(f, s, w)}
  <1> SUFFICES ASSUME F # {} PROVE FALSE
    OBVIOUS
  <1>1. \A s \in F : IsFiniteSet(s)
    BY FS_Subset
  <1>2. PICK s \in F : \A t \in SUBSET s : t # s => t \notin F
    <2> HIDE DEF F
    <2>1. QED
      BY <1>1, SmallestSet
  <1> DEFINE h(t) == CHOOSE f : AddsUp(f, t, w)
             x == Picked(s)
             f == [t \in SUBSET s |->
                      IF t # s THEN h(t)[t]
                      ELSE IF s = {} THEN 0 ELSE w[x] + h(s \ {x})[s \ {x}]]
  <1>3. \A t \in SUBSET s : t # s => AddsUp(h(t), t, w)
    BY <1>2
  <1> HIDE DEF h
  <1>4. ASSUME NEW t \in SUBSET s
        PROVE  f[t] = IF t = {} THEN 0 ELSE w[Picked(t)] + f[t \ {Picked(t)}]
    <2>1. CASE t = s
      <3>1. CASE s = {}
        BY <2>1, <3>1
      <3>2. CASE s # {}
        <4>1. x \in s /\ s \ {x} \in SUBSET s /\ s \ {x} # s
          BY <3>2 DEF Picked
        <4>2. f[s \ {x}] = h(s \ {x})[s \ {x}]
          BY <4>1
        <4>3. QED
          BY <2>1, <3>2, <4>2
      <3>3. QED
        BY <3>1, <3>2
    <2>2. CASE t # s
      <3>1. f[t] = h(t)[t]
        BY <2>2
      <3>2. h(t)[t] = IF t = {} THEN 0 ELSE w[Picked(t)] + h(t)[t \ {Picked(t)}]
        BY <1>3, <2>2 DEF AddsUp
      <3>3. CASE t = {}
        BY <3>1, <3>2, <3>3
      <3>4. CASE t # {}
        <4> DEFINE u == t \ {Picked(t)}
        <4>1. Picked(t) \in t
          BY <3>4 DEF Picked
        <4>2. u \in SUBSET t /\ u \in SUBSET s /\ u # s
          BY <2>2, <4>1
        <4>3. f[u] = h(u)[u]
          BY <4>2
        <4>4. IsFiniteSet(t)
          BY <1>1, FS_Subset
        <4>5. h(t)[u] = h(u)[u]
          BY <1>3, <2>2, <4>2, <4>4, AddsUpOnce
        <4>6. QED
          BY <3>1, <3>2, <3>4, <4>3, <4>5
      <3>5. QED
        BY <3>3, <3>4
    <2>3. QED
      BY <2>1, <2>2
  <1>5. AddsUp(f, s, w)
    <2>1. f = [t \in SUBSET s |-> f[t]]
      OBVIOUS
    <2> HIDE DEF f
    <2>2. QED
      BY <1>4, <2>1 DEF AddsUp
  <1>6. QED
    BY <1>2, <1>5

(* So a sum is that of one member and the rest.                             *)
LEMMA TotalPicked ==
    ASSUME NEW S, NEW w, IsFiniteSet(S)
    PROVE  Total(S, w) = IF S = {} THEN 0
                         ELSE w[Picked(S)] + Total(S \ {Picked(S)}, w)
  <1> DEFINE h(t) == CHOOSE f : AddsUp(f, t, w)
             u == S \ {Picked(S)}
  <1>1. AddsUp(h(S), S, w)
    BY AddsUpExists
  <1>2. AddsUp(h(u), u, w)
    BY AddsUpExists, FS_Subset
  <1>3. Total(S, w) = h(S)[S] /\ Total(u, w) = h(u)[u]
    BY TotalIs
  <1> HIDE DEF h
  <1>4. h(S)[u] = h(u)[u]
    BY <1>1, <1>2, AddsUpOnce
  <1>5. h(S)[S] = IF S = {} THEN 0 ELSE w[Picked(S)] + h(S)[u]
    BY <1>1 DEF AddsUp
  <1>6. QED
    BY <1>3, <1>4, <1>5

(* The sum over no member. *)
LEMMA TotalNone == ASSUME NEW w PROVE Total({}, w) = 0
  BY TotalPicked, FS_EmptySet

(* A sum of naturals is one. *)
LEMMA TotalNat ==
    ASSUME NEW S, NEW w, IsFiniteSet(S), \A x \in S : w[x] \in Nat
    PROVE  Total(S, w) \in Nat
  <1> DEFINE F == {s \in SUBSET S : Total(s, w) \notin Nat}
  <1> SUFFICES ASSUME F # {} PROVE FALSE
    OBVIOUS
  <1>1. \A s \in F : IsFiniteSet(s)
    BY FS_Subset
  <1>2. PICK s \in F : \A t \in SUBSET s : t # s => t \notin F
    <2> HIDE DEF F
    <2>1. QED
      BY <1>1, SmallestSet
  <1>3. s # {}
    BY TotalNone
  <1>4. Picked(s) \in s
    BY <1>3 DEF Picked
  <1>5. Total(s \ {Picked(s)}, w) \in Nat
    BY <1>2, <1>4
  <1>6. Total(s, w) = w[Picked(s)] + Total(s \ {Picked(s)}, w)
    BY <1>1, <1>3, TotalPicked
  <1>7. QED
    BY <1>4, <1>5, <1>6

(* Any member may be taken out first. *)
LEMMA TotalWithout ==
    ASSUME NEW S, NEW w, IsFiniteSet(S), \A x \in S : w[x] \in Nat, NEW x \in S
    PROVE  Total(S, w) = w[x] + Total(S \ {x}, w)
  <1> DEFINE F == {s \in SUBSET S : \E y \in s : Total(s, w) # w[y] + Total(s \ {y}, w)}
  <1> SUFFICES ASSUME F # {} PROVE FALSE
    OBVIOUS
  <1>1. \A s \in F : IsFiniteSet(s)
    BY FS_Subset
  <1>2. PICK s \in F : \A t \in SUBSET s : t # s => t \notin F
    <2> HIDE DEF F
    <2>1. QED
      BY <1>1, SmallestSet
  <1>3. PICK y \in s : Total(s, w) # w[y] + Total(s \ {y}, w)
    OBVIOUS
  <1> DEFINE p == Picked(s)
             q == Picked(s \ {y})
  <1>4. p \in s /\ Total(s, w) = w[p] + Total(s \ {p}, w)
    BY <1>1, <1>3, TotalPicked DEF Picked
  <1>5. y # p
    BY <1>3, <1>4
  <1>6. Total(s \ {p}, w) = w[y] + Total((s \ {p}) \ {y}, w)
    <2>1. s \ {p} \notin F
      BY <1>2, <1>4
    <2>2. QED
      BY <1>5, <2>1
  <1>7. Total(s \ {y}, w) = w[p] + Total((s \ {y}) \ {p}, w)
    <2>1. s \ {y} \notin F
      BY <1>2
    <2>2. QED
      BY <1>4, <1>5, <2>1
  <1>8. (s \ {p}) \ {y} = (s \ {y}) \ {p}
    OBVIOUS
  <1>9. Total((s \ {p}) \ {y}, w) \in Nat /\ w[p] \in Nat /\ w[y] \in Nat
    BY <1>4, TotalNat, FS_Subset
  <1>10. QED
    BY <1>3, <1>4, <1>6, <1>7, <1>8, <1>9

(* One member more. *)
LEMMA TotalWith ==
    ASSUME NEW S, NEW w, IsFiniteSet(S), NEW x, x \notin S,
           \A y \in S \cup {x} : w[y] \in Nat
    PROVE  Total(S \cup {x}, w) = w[x] + Total(S, w)
  <1>1. IsFiniteSet(S \cup {x}) /\ (S \cup {x}) \ {x} = S
    BY FS_AddElement
  <1>2. Total(S \cup {x}, w) = w[x] + Total((S \cup {x}) \ {x}, w)
    BY <1>1, TotalWithout
  <1>3. QED
    BY <1>1, <1>2

(* Sums of the same terms are the same. *)
LEMMA TotalSame ==
    ASSUME NEW S, NEW v, NEW w, IsFiniteSet(S), \A x \in S : v[x] = w[x]
    PROVE  Total(S, v) = Total(S, w)
  <1> DEFINE F == {s \in SUBSET S : Total(s, v) # Total(s, w)}
  <1> SUFFICES ASSUME F # {} PROVE FALSE
    OBVIOUS
  <1>1. \A s \in F : IsFiniteSet(s)
    BY FS_Subset
  <1>2. PICK s \in F : \A t \in SUBSET s : t # s => t \notin F
    <2> HIDE DEF F
    <2>1. QED
      BY <1>1, SmallestSet
  <1>3. s # {}
    BY TotalNone
  <1>4. Picked(s) \in s
    BY <1>3 DEF Picked
  <1>5. Total(s \ {Picked(s)}, v) = Total(s \ {Picked(s)}, w)
    BY <1>2, <1>4
  <1>6. Total(s, w) = w[Picked(s)] + Total(s \ {Picked(s)}, w)
    BY <1>1, <1>3, TotalPicked
  <1>7. Total(s, v) = v[Picked(s)] + Total(s \ {Picked(s)}, v)
    BY <1>1, <1>3, TotalPicked
  <1>8. v[Picked(s)] = w[Picked(s)]
    BY <1>4
  <1>9. QED
    BY <1>5, <1>6, <1>7, <1>8

(* Terms add up one by one. *)
LEMMA TotalSum ==
    ASSUME NEW S, NEW u, NEW v, NEW w, IsFiniteSet(S),
           \A x \in S : u[x] \in Nat /\ v[x] \in Nat /\ w[x] = u[x] + v[x]
    PROVE  Total(S, w) = Total(S, u) + Total(S, v)
  <1> DEFINE F == {s \in SUBSET S : Total(s, w) # Total(s, u) + Total(s, v)}
  <1> SUFFICES ASSUME F # {} PROVE FALSE
    OBVIOUS
  <1>1. \A s \in F : IsFiniteSet(s)
    BY FS_Subset
  <1>2. PICK s \in F : \A t \in SUBSET s : t # s => t \notin F
    <2> HIDE DEF F
    <2>1. QED
      BY <1>1, SmallestSet
  <1>3. s # {}
    <2>1. Total({}, w) = 0 /\ Total({}, u) = 0 /\ Total({}, v) = 0
      BY TotalNone
    <2>2. Total({}, w) = Total({}, u) + Total({}, v)
      BY <2>1
    <2>3. {} \notin F
      BY <2>2
    <2> HIDE DEF F
    <2>4. QED
      BY <2>3
  <1> DEFINE p == Picked(s)
             t == s \ {p}
  <1>4. p \in s
    BY <1>3 DEF Picked
  <1>5. Total(t, w) = Total(t, u) + Total(t, v)
    BY <1>2, <1>4
  <1>6. /\ Total(s, u) = u[p] + Total(t, u)
        /\ Total(s, v) = v[p] + Total(t, v)
        /\ Total(s, w) = w[p] + Total(t, w)
    BY <1>1, <1>3, TotalPicked
  <1>7. IsFiniteSet(t) /\ t \in SUBSET S
    BY <1>1, FS_Subset
  <1>8. Total(t, u) \in Nat /\ Total(t, v) \in Nat
    BY <1>7, TotalNat
  <1>9. u[p] \in Nat /\ v[p] \in Nat /\ w[p] = u[p] + v[p]
    BY <1>4
  <1>10. QED
    BY <1>5, <1>6, <1>8, <1>9

(* What is zero adds nothing. *)
LEMMA TotalZero ==
    ASSUME NEW S, NEW T, NEW w, IsFiniteSet(T), S \subseteq T,
           \A x \in T : w[x] \in Nat, \A x \in T \ S : w[x] = 0
    PROVE  Total(T, w) = Total(S, w)
  <1> DEFINE F == {s \in SUBSET T : S \subseteq s /\ Total(s, w) # Total(S, w)}
  <1> SUFFICES ASSUME F # {} PROVE FALSE
    OBVIOUS
  <1>1. \A s \in F : IsFiniteSet(s)
    BY FS_Subset
  <1>2. PICK s \in F : \A t \in SUBSET s : t # s => t \notin F
    <2> HIDE DEF F
    <2>1. QED
      BY <1>1, SmallestSet
  <1> HIDE DEF F
  <1>8. S \subseteq s /\ Total(s, w) # Total(S, w)
    BY DEF F
  <1>3. PICK x \in s : x \notin S
    BY <1>8
  <1>9. s \in SUBSET T
    BY DEF F
  <1>4. Total(s, w) = w[x] + Total(s \ {x}, w)
    BY <1>1, <1>9, TotalWithout
  <1>5. Total(s \ {x}, w) = Total(S, w)
    BY <1>2, <1>3 DEF F
  <1>6. w[x] = 0 /\ Total(s \ {x}, w) \in Nat
    BY <1>1, <1>3, <1>9, TotalNat, FS_Subset
  <1>7. QED
    BY <1>8, <1>4, <1>5, <1>6
(* Equal terms. *)
LEMMA TotalEqual ==
    ASSUME NEW S, NEW w, NEW c \in Nat, IsFiniteSet(S), \A x \in S : w[x] = c
    PROVE  Total(S, w) = c * Cardinality(S)
  <1> DEFINE F == {s \in SUBSET S : Total(s, w) # c * Cardinality(s)}
  <1> SUFFICES ASSUME F # {} PROVE FALSE
    OBVIOUS
  <1>1. \A s \in F : IsFiniteSet(s)
    BY FS_Subset
  <1>2. PICK s \in F : \A t \in SUBSET s : t # s => t \notin F
    <2> HIDE DEF F
    <2>1. QED
      BY <1>1, SmallestSet
  <1>3. s # {}
    <2>1. Total({}, w) = 0 /\ Cardinality({}) = 0
      BY TotalNone, FS_EmptySet
    <2>2. {} \notin F
      BY <2>1
    <2> HIDE DEF F
    <2>3. QED
      BY <2>2
  <1> DEFINE p == Picked(s)
             t == s \ {p}
  <1>4. p \in s /\ w[p] = c
    BY <1>3 DEF Picked
  <1>5. Total(t, w) = c * Cardinality(t)
    BY <1>2, <1>4
  <1>6. Total(s, w) = w[p] + Total(t, w)
    BY <1>1, <1>3, TotalPicked
  <1>7. Cardinality(t) \in Nat /\ Cardinality(s) = Cardinality(t) + 1
    BY <1>1, <1>4, FS_RemoveElement, FS_CardinalityType
  <1>8. c * (Cardinality(t) + 1) = c + c * Cardinality(t)
    BY <1>7
  <1>9. QED
    BY <1>4, <1>5, <1>6, <1>7, <1>8

(* One term. *)
LEMMA TotalOne ==
    ASSUME NEW S, NEW w, IsFiniteSet(S), NEW x \in S, w[x] \in Nat,
           \A y \in S \ {x} : w[y] = 0
    PROVE  Total(S, w) = w[x]
  <1>1. \A y \in S : w[y] \in Nat
    OBVIOUS
  <1>2. Total(S, w) = Total({x}, w)
    BY <1>1, TotalZero
  <1>3. IsFiniteSet({x}) /\ {x} \ {x} = {}
    BY FS_Singleton
  <1>4. Total({x}, w) = w[x] + Total({x} \ {x}, w)
    <2>1. x \in {x} /\ \A y \in {x} : w[y] \in Nat
      OBVIOUS
    <2>2. QED
      BY <1>3, <2>1, TotalWithout
  <1>5. QED
    BY <1>2, <1>3, <1>4, TotalNone

(* A sum is that of the sums over the members with the same value of f. *)
LEMMA TotalByValue ==
    ASSUME NEW S, NEW f, NEW w, NEW V, IsFiniteSet(S), IsFiniteSet(V),
           \A x \in S : f[x] \in V /\ w[x] \in Nat
    PROVE  Total(V, [v \in V |-> Total({x \in S : f[x] = v}, w)]) = Total(S, w)
  <1> DEFINE Of(s) == [v \in V |-> Total({x \in s : f[x] = v}, w)]
             F == {s \in SUBSET S : Total(V, Of(s)) # Total(s, w)}
  <1> SUFFICES ASSUME F # {} PROVE FALSE
    OBVIOUS
  <1>1. \A s \in F : IsFiniteSet(s)
    BY FS_Subset
  <1>2. PICK s \in F : \A t \in SUBSET s : t # s => t \notin F
    <2> HIDE DEF F
    <2>1. QED
      BY <1>1, SmallestSet
  <1>3. s # {}
    <2>1. Total({}, w) = 0
      BY TotalNone
    <2>2. \A v \in V : Of({})[v] = 0
      <3>1. \A v \in V : {x \in {} : f[x] = v} = {}
        OBVIOUS
      <3>2. QED
        BY <2>1, <3>1
    <2>3. Total(V, Of({})) = 0 * Cardinality(V)
      <3> HIDE DEF Of
      <3>1. QED
        BY <2>2, TotalEqual
    <2>4. Total(V, Of({})) = 0
      BY <2>3, FS_CardinalityType
    <2>5. {} \notin F
      <3> HIDE DEF Of
      <3>1. QED
        BY <2>1, <2>4
    <2> HIDE DEF F
    <2>6. QED
      BY <2>5
  <1> DEFINE p == Picked(s)
             t == s \ {p}
             one == [v \in V |-> IF v = f[p] THEN w[p] ELSE 0]
  <1>4. p \in s /\ p \in S /\ s \subseteq S
    BY <1>3 DEF Picked
  <1>5. Total(V, Of(t)) = Total(t, w)
    <2> HIDE DEF Of
    <2>1. QED
      BY <1>2, <1>4
  <1>6. Total(s, w) = w[p] + Total(t, w)
    BY <1>1, <1>3, TotalPicked
  <1>7. IsFiniteSet(t) /\ IsFiniteSet(s)
    BY <1>1, FS_Subset
  <1>8. Total(V, one) = w[p]
    <2>1. one[f[p]] = w[p] /\ w[p] \in Nat /\ f[p] \in V
      BY <1>4
    <2>2. \A v \in V \ {f[p]} : one[v] = 0
      OBVIOUS
    <2> HIDE DEF one
    <2>3. QED
      BY <2>1, <2>2, TotalOne
  <1>9. ASSUME NEW v \in V
        PROVE  /\ Of(t)[v] \in Nat /\ one[v] \in Nat
               /\ Of(s)[v] = Of(t)[v] + one[v]
    <2> DEFINE A == {x \in s : f[x] = v}
               B == {x \in t : f[x] = v}
    <2>1. Of(s)[v] = Total(A, w) /\ Of(t)[v] = Total(B, w)
      OBVIOUS
    <2>2. IsFiniteSet(A) /\ IsFiniteSet(B)
      BY <1>7, FS_Subset
    <2>3. \A x \in A : w[x] \in Nat
      BY <1>4
    <2>4. \A x \in B : w[x] \in Nat
      BY <1>4
    <2>5. Total(B, w) \in Nat
      <3> HIDE DEF B
      <3>1. QED
        BY <2>2, <2>4, TotalNat
    <2>6. one[v] \in Nat
      BY <1>4
    <2>7. Total(A, w) = Total(B, w) + one[v]
      <3>1. CASE v = f[p]
        <4>1. p \in A /\ A \ {p} = B
          BY <1>4, <3>1
        <4>2. Total(A, w) = w[p] + Total(A \ {p}, w)
          <5> HIDE DEF A
          <5>1. QED
            BY <2>2, <2>3, <4>1, TotalWithout
        <4>3. one[v] = w[p] /\ w[p] \in Nat
          BY <1>4, <3>1
        <4> HIDE DEF A, B, one, p
        <4>4. Total(A \ {p}, w) = Total(B, w)
          BY <4>1
        <4>5. QED
          BY <2>5, <4>2, <4>3, <4>4
      <3>2. CASE v # f[p]
        <4>1. A = B
          BY <3>2
        <4>2. one[v] = 0
          BY <3>2
        <4> HIDE DEF A, B, one
        <4>3. QED
          BY <2>5, <4>1, <4>2
      <3>3. QED
        BY <3>1, <3>2
    <2> HIDE DEF A, B, one, Of
    <2>8. QED
      BY <2>1, <2>5, <2>6, <2>7
  <1>10. Total(V, Of(s)) = Total(V, Of(t)) + Total(V, one)
    <2> HIDE DEF Of, one
    <2>1. QED
      BY <1>9, TotalSum
  <1>11. Total(t, w) \in Nat /\ w[p] \in Nat
    BY <1>4, <1>7, TotalNat
  <1>12. Total(V, Of(s)) = Total(s, w)
    <2> HIDE DEF Of, one, t, p
    <2>1. QED
      BY <1>5, <1>6, <1>8, <1>10, <1>11
  <1> HIDE DEF Of
  <1>13. QED
    BY <1>12

-----------------------------------------------------------------------------
(* Sums that are rounded down.                                             *)

(* A number that fits is no larger than the quotient.                       *)
LEMMA QuotientAtLeast ==
    ASSUME NEW a \in Nat, NEW t \in Nat \ {0}, NEW q \in Nat, q * t <= a
    PROVE  q <= a \div t
  <1> DEFINE p == a \div t
  <1>1. p \in Nat /\ p * t \in Nat /\ a < p * t + t
    BY Quotient
  <1> HIDE DEF p
  <1>2. SUFFICES ASSUME p < q PROVE FALSE
    BY <1>1 DEF p
  <1>3. (p + 1) * t <= q * t
    BY <1>1, <1>2, ProductGrows
  <1>4. (p + 1) * t = p * t + t
    BY <1>1
  <1>5. q * t \in Nat
    OBVIOUS
  <1>6. QED
    BY <1>1, <1>3, <1>4, <1>5

(* Quotients grow with what is divided, ...                                 *)
LEMMA QuotientGrows ==
    ASSUME NEW a \in Nat, NEW b \in Nat, NEW t \in Nat \ {0}, a <= b
    PROVE  a \div t <= b \div t
  <1> DEFINE p == a \div t
  <1>1. p \in Nat /\ p * t \in Nat /\ p * t <= a
    BY Quotient
  <1> HIDE DEF p
  <1>2. p * t <= b
    BY <1>1
  <1>3. QED
    BY <1>1, <1>2, QuotientAtLeast DEF p

(* ... and rounding down twice loses no less than rounding down once.       *)
LEMMA QuotientSum ==
    ASSUME NEW a \in Nat, NEW b \in Nat, NEW t \in Nat \ {0}
    PROVE  a \div t + b \div t <= (a + b) \div t
  <1> DEFINE p == a \div t
             q == b \div t
  <1>1. p \in Nat /\ p * t \in Nat /\ p * t <= a /\ q \in Nat /\ q * t \in Nat /\ q * t <= b
    BY Quotient
  <1> HIDE DEF p, q
  <1>2. (p + q) * t = p * t + q * t
    BY <1>1
  <1>3. (p + q) * t <= a + b
    BY <1>1, <1>2
  <1>4. QED
    BY <1>1, <1>3, QuotientAtLeast DEF p, q

(* Scaled and rounded down, the parts take no more room than the whole.     *)
LEMMA TotalQuotients ==
    ASSUME NEW S, NEW w, NEW v, NEW c \in Nat, NEW t \in Nat \ {0}, IsFiniteSet(S),
           \A x \in S : w[x] \in Nat /\ v[x] = (w[x] * c) \div t
    PROVE  Total(S, v) <= (Total(S, w) * c) \div t
  <1> DEFINE F == {s \in SUBSET S : ~(Total(s, v) <= (Total(s, w) * c) \div t)}
  <1> SUFFICES ASSUME F # {} PROVE FALSE
    OBVIOUS
  <1>1. \A s \in F : IsFiniteSet(s)
    BY FS_Subset
  <1>2. PICK s \in F : \A u \in SUBSET s : u # s => u \notin F
    <2> HIDE DEF F
    <2>1. QED
      BY <1>1, SmallestSet
  <1>3. s # {}
    <2>1. Total({}, v) = 0 /\ Total({}, w) = 0
      BY TotalNone
    <2>2. 0 * c = 0 /\ 0 \div t = 0
      OBVIOUS
    <2>3. {} \notin F
      BY <2>1, <2>2
    <2> HIDE DEF F
    <2>4. QED
      BY <2>3
  <1> DEFINE p == Picked(s)
             u == s \ {p}
  <1>4. p \in s /\ p \in S
    BY <1>3 DEF Picked
  <1>5. Total(u, v) <= (Total(u, w) * c) \div t
    BY <1>2, <1>4
  <1>6. Total(s, v) = v[p] + Total(u, v) /\ Total(s, w) = w[p] + Total(u, w)
    BY <1>1, <1>3, TotalPicked
  <1>7. IsFiniteSet(u) /\ \A x \in u : w[x] \in Nat
    BY <1>1, FS_Subset
  <1>8. Total(u, w) \in Nat
    BY <1>7, TotalNat
  <1>9. w[p] \in Nat /\ v[p] = (w[p] * c) \div t
    BY <1>4
  <1>10. \A x \in u : v[x] \in Nat
    <2> SUFFICES ASSUME NEW x \in u PROVE v[x] \in Nat
      OBVIOUS
    <2>1. w[x] * c \in Nat /\ v[x] = (w[x] * c) \div t
      OBVIOUS
    <2>2. QED
      BY <2>1, Quotient
  <1>11. Total(u, v) \in Nat
    BY <1>7, <1>10, TotalNat
  <1> DEFINE a == w[p] * c
             b == Total(u, w) * c
  <1>12. a \in Nat /\ b \in Nat /\ (w[p] + Total(u, w)) * c = a + b
    BY <1>8, <1>9
  <1>13. Total(s, v) <= (Total(s, w) * c) \div t
    <2>1. v[p] = a \div t /\ Total(u, v) <= b \div t /\ Total(s, w) * c = a + b
      BY <1>5, <1>6, <1>9, <1>12
    <2>2. a \div t + b \div t <= (a + b) \div t /\ a \div t \in Nat /\ b \div t \in Nat
          /\ (a + b) \div t \in Nat
      <3> HIDE DEF a, b
      <3>1. a \in Nat /\ b \in Nat /\ a + b \in Nat
        BY <1>12
      <3>2. a \div t + b \div t <= (a + b) \div t
        BY <3>1, QuotientSum
      <3>3. a \div t \in Nat /\ b \div t \in Nat /\ (a + b) \div t \in Nat
        BY <3>1, Quotient
      <3>4. QED
        BY <3>2, <3>3
    <2> HIDE DEF a, b, u, p
    <2>3. QED
      BY <1>6, <1>11, <2>1, <2>2
  <1>14. QED
    BY <1>13

(* A part of the terms adds up to no more than all of them.                 *)
LEMMA TotalPart ==
    ASSUME NEW S, NEW T, NEW w, IsFiniteSet(T), S \subseteq T, \A x \in T : w[x] \in Nat
    PROVE  Total(S, w) <= Total(T, w)
  <1> DEFINE u == [x \in T |-> IF x \in S THEN w[x] ELSE 0]
             v == [x \in T |-> IF x \in S THEN 0 ELSE w[x]]
  <1>1. \A x \in T : u[x] \in Nat /\ v[x] \in Nat /\ w[x] = u[x] + v[x]
    OBVIOUS
  <1>2. (\A x \in S : u[x] = w[x]) /\ (\A x \in T \ S : u[x] = 0)
    OBVIOUS
  <1> HIDE DEF u, v
  <1>3. Total(T, w) = Total(T, u) + Total(T, v)
    BY <1>1, TotalSum
  <1>4. Total(T, v) \in Nat /\ Total(T, u) \in Nat
    BY <1>1, TotalNat
  <1>5. Total(T, u) = Total(S, u)
    BY <1>1, <1>2, TotalZero
  <1>6. Total(S, u) = Total(S, w)
    BY <1>2, TotalSame, FS_Subset
  <1>7. QED
    BY <1>3, <1>4, <1>5, <1>6
=============================================================================
