---------------------------- MODULE ViewsProofs ----------------------------
(***************************************************************************)
(* Proofs about the views: the table of top functions (TopFuncs), the      *)
(* trace frequencies (TraceFreq), the tree of a flame graph (FlameGraph)   *)
(* and the search in a drawn one (FlameSearch), the rings of requests and  *)
(* messages (Logs) and the queue of dropped files (DropQueue), for every   *)
(* capacity, any events, traces, trees, chains and filters, any number of  *)
(* requests, messages and files, and any order of the threads and          *)
(* handlers; and that what is proved of the parts alone holds of all of    *)
(* them together.                                                          *)
(*                                                                         *)
(* Top functions: the argument does not follow the threads but what they   *)
(* have yet to do.  Whatever symbols the frames under way turn out to have,*)
(* the channels hold blocks of locations, and a tally that takes them all, *)
(* one by one, is right for the events whose traces were found.  A step    *)
(* of a thread moves a block on, splits one or merges two, which changes   *)
(* the tally in the end not at all, or appends the blocks of a trace.      *)
(*                                                                         *)
(* Trace frequencies: the invariant says what the groups of the events     *)
(* folded so far are; that the histogram tells the same is a sum taken in  *)
(* another order.                                                          *)
(*                                                                         *)
(* Search: drawing stops at what is narrow or hidden.  It misses nothing,  *)
(* as a node lies within its parent, rounded down or not.                  *)
(*                                                                         *)
(* Flame graph: every event merged so far has a walk, the nodes its frames *)
(* led through, and the nodes of the tree are what the walks come by.  How *)
(* far a frame leads is written in the tree, not in the event: the first   *)
(* event that came by stored what was inlined in it then.  Two walks       *)
(* meet in a node only if they came by the same frames, so that those who  *)
(* share a node are those who share its callers.                           *)
(*                                                                         *)
(* Sandwich view: a walk that has come to its end is a path that spreads   *)
(* the event's calls, every call over one place or more, so that a frame's *)
(* first place in the path is that of its first call, and the first other  *)
(* place after it that of the next call of another frame.  No two hits     *)
(* have an event in common: each node of the view's trees weighs a set of  *)
(* events, and its children parts of that set.                             *)
(***************************************************************************)
EXTENDS Views, EventQueriesProofs, SequenceTheorems

-----------------------------------------------------------------------------
(* What the third thread sends of a chain.                                 *)

Shows(l, set) == l # NoFunc /\ l \in set

(* The recursion of Sent has a solution.                                     *)
Solves(f, places, set) ==
    \A i \in 0 .. Len(places) :
       f[i] = IF i = 0 THEN <<>>
              ELSE IF places[i] # NoFunc /\ places[i] \in set
                   THEN <<places[i]>> \o f[i - 1] ELSE f[i - 1]

(* The recursion has a solution: of the lengths for which it has none there *)
(* would be a least one.                                                    *)
LEMMA SentSolved ==
    ASSUME NEW S, NEW places \in Seq(S), NEW set
    PROVE  \E f \in [0 .. Len(places) -> Seq(S)] : Solves(f, places, set)
  <1> DEFINE n == Len(places)
             Def(f, i) == IF i = 0 THEN <<>>
                          ELSE IF places[i] # NoFunc /\ places[i] \in set
                               THEN <<places[i]>> \o f[i - 1] ELSE f[i - 1]
             Solved(k) == \E f \in [0 .. k -> Seq(S)] : \A i \in 0 .. k : f[i] = Def(f, i)
             Bad == {k \in 0 .. n : ~Solved(k)}
  <1>1. n \in Nat /\ \A i \in 1 .. n : places[i] \in S
    OBVIOUS
  <1>2. Solved(0)
    <2> DEFINE f == [i \in 0 .. 0 |-> <<>>]
    <2>1. f \in [0 .. 0 -> Seq(S)] /\ \A i \in 0 .. 0 : f[i] = Def(f, i)
      OBVIOUS
    <2>2. QED
      BY <2>1
  <1>3. ASSUME NEW k \in 0 .. n, k # 0, Solved(k - 1)
        PROVE  Solved(k)
    <2>1. PICK g \in [0 .. k - 1 -> Seq(S)] : \A i \in 0 .. k - 1 : g[i] = Def(g, i)
      BY <1>3
    <2> DEFINE f == [i \in 0 .. k |-> IF i < k THEN g[i] ELSE Def(g, k)]
    <2>2. k \in 1 .. n /\ k - 1 \in 0 .. k - 1 /\ g[k - 1] \in Seq(S)
      BY <1>1, <1>3
    <2>3. Def(g, k) \in Seq(S)
      BY <1>1, <2>2
    <2>4. f \in [0 .. k -> Seq(S)]
      BY <1>3, <2>1, <2>3
    <2>5. ASSUME NEW i \in 0 .. k PROVE f[i] = Def(f, i)
      <3>1. i = 0 \/ (i - 1 \in 0 .. k - 1 /\ f[i - 1] = g[i - 1])
        BY <1>1, <1>3
      <3>2. Def(f, i) = Def(g, i)
        BY <3>1
      <3> f[i] = IF i < k THEN g[i] ELSE Def(g, k)
        OBVIOUS
      <3> HIDE DEF f, Def
      <3>3. CASE i < k
        BY <2>1, <3>2, <3>3
      <3>4. CASE i = k
        BY <3>2, <3>4
      <3>5. QED
        BY <1>1, <1>3, <3>3, <3>4
    <2>6. QED
      BY <2>4, <2>5
  <1> HIDE DEF Solved
  <1>4. Bad = {}
    <2> SUFFICES ASSUME Bad # {} PROVE FALSE
      OBVIOUS
    <2>1. Bad \in SUBSET Nat
      BY <1>1
    <2>2. PICK k \in Bad : \A m \in Bad : k <= m
      BY <2>1, LeastNatural
    <2>3. k \in 0 .. n /\ ~Solved(k) /\ k # 0
      BY <1>2
    <2>4. k - 1 \in 0 .. n /\ k - 1 \notin Bad
      BY <1>1, <2>2, <2>3
    <2>5. QED
      BY <1>3, <2>3, <2>4
  <1>5. n \in 0 .. n /\ n \notin Bad
    BY <1>1, <1>4
  <1>6. Solved(n)
    BY <1>5
  <1>7. QED
    BY <1>6 DEF Solved, Solves

(* The locations of a chain that match, and the innermost first.             *)
LEMMA SentIs ==
    ASSUME NEW S, NEW places \in Seq(S), NEW set
    PROVE  /\ Sent(places, set) \in Seq({l \in S : Shows(l, set)})
           /\ Range(Sent(places, set)) = {l \in Range(places) : Shows(l, set)}
           /\ Sent(places, set) # <<>> =>
                 \E i \in 1 .. Len(places) :
                    /\ Sent(places, set)[1] = places[i] /\ Shows(places[i], set)
                    /\ \A j \in i + 1 .. Len(places) : ~Shows(places[j], set)
  <1> DEFINE n == Len(places)
             Def(f, i) == IF i = 0 THEN <<>>
                          ELSE IF places[i] # NoFunc /\ places[i] \in set
                               THEN <<places[i]>> \o f[i - 1] ELSE f[i - 1]
             Eq(f) == f = [i \in 0 .. n |-> Def(f, i)]
  <1>1. n \in Nat /\ \A i \in 1 .. n : places[i] \in S
    OBVIOUS
  <1>2. PICK g \in [0 .. n -> Seq(S)] : g = [i \in 0 .. n |-> Def(g, i)]
    <2>1. PICK g \in [0 .. n -> Seq(S)] : Solves(g, places, set)
      BY SentSolved
    <2>2. \A i \in 0 .. n : g[i] = Def(g, i)
      BY <2>1 DEF Solves
    <2>3. g = [i \in 0 .. n |-> g[i]]
      OBVIOUS
    <2> HIDE DEF Def
    <2>4. QED
      BY <2>2, <2>3
  <1>3. \E f : Eq(f)
    BY <1>2
  <1> DEFINE sent == CHOOSE f : Eq(f)
  <1>4. Eq(sent)
    <2> HIDE DEF Eq
    <2>1. QED
      BY <1>3
  <1>5. Sent(places, set) = sent[n]
    BY DEF Sent
  <1> HIDE DEF sent
  <1>6. \A i \in 0 .. n : sent[i] = Def(sent, i)
    BY <1>4
  <1>7. /\ sent[0] = <<>>
        /\ \A i \in 1 .. n :
              sent[i] = IF Shows(places[i], set) THEN <<places[i]>> \o sent[i - 1]
                        ELSE sent[i - 1]
    <2>1. 0 \in 0 .. n /\ \A i \in 1 .. n : i \in 0 .. n /\ i # 0
      BY <1>1
    <2>2. QED
      BY <1>6, <2>1, Zenon DEF Shows
  <1> HIDE DEF Eq, Def
  <1> DEFINE Kept == {l \in S : Shows(l, set)}
             Good(i) == /\ sent[i] \in Seq(Kept)
                        /\ Range(sent[i]) = {places[j] : j \in {h \in 1 .. i : Shows(places[h], set)}}
                        /\ sent[i] # <<>> =>
                              \E j \in 1 .. i :
                                 /\ sent[i][1] = places[j] /\ Shows(places[j], set)
                                 /\ \A h \in j + 1 .. i : ~Shows(places[h], set)
             Bad == {i \in 0 .. n : ~Good(i)}
  <1>8. Good(0)
    <2>1. sent[0] = <<>>
      BY <1>7
    <2>2. Range(<<>>) = {} /\ 1 .. 0 = {}
      BY DEF Range
    <2>3. QED
      BY <2>1, <2>2
  <1>9. ASSUME NEW i \in 0 .. n, i # 0, Good(i - 1)
        PROVE  Good(i)
    <2>1. i \in 1 .. n /\ i - 1 \in 0 .. n /\ places[i] \in S
      BY <1>1, <1>9
    <2>2. \A h : h \in 1 .. i <=> h \in 1 .. i - 1 \/ h = i
      BY <2>1
    <2>3. CASE Shows(places[i], set)
      <3> DEFINE s == <<places[i]>> \o sent[i - 1]
      <3>1. sent[i] = s
        BY <1>7, <2>1, <2>3
      <3>2. places[i] \in Kept /\ <<places[i]>> \in Seq(Kept) /\ sent[i - 1] \in Seq(Kept)
        BY <1>9, <2>1, <2>3
      <3>3. /\ s \in Seq(Kept) /\ Len(s) = Len(sent[i - 1]) + 1 /\ s[1] = places[i]
            /\ Len(sent[i - 1]) \in Nat
            /\ \A m \in 1 .. Len(sent[i - 1]) : s[m + 1] = sent[i - 1][m]
        BY <3>2
      <3>4. Range(s) = {places[i]} \cup Range(sent[i - 1])
        <4>1. DOMAIN s = 1 .. Len(sent[i - 1]) + 1 /\ DOMAIN sent[i - 1] = 1 .. Len(sent[i - 1])
          BY <3>2, <3>3
        <4>2. \A m \in 2 .. Len(sent[i - 1]) + 1 : m - 1 \in 1 .. Len(sent[i - 1]) /\ s[m] = sent[i - 1][m - 1]
          BY <3>3
        <4> HIDE DEF s
        <4>3. ASSUME NEW x \in Range(s) PROVE x \in {places[i]} \cup Range(sent[i - 1])
          <5>1. PICK m \in 1 .. Len(sent[i - 1]) + 1 : s[m] = x
            BY <4>1 DEF Range
          <5>2. CASE m = 1
            BY <3>3, <5>1, <5>2
          <5>3. CASE m # 1
            <6>1. m \in 2 .. Len(sent[i - 1]) + 1
              BY <3>3, <5>3
            <6>2. QED
              BY <4>1, <4>2, <5>1, <6>1 DEF Range
          <5>4. QED
            BY <5>2, <5>3
        <4>4. ASSUME NEW x \in Range(sent[i - 1]) PROVE x \in Range(s)
          <5>1. PICK m \in 1 .. Len(sent[i - 1]) : sent[i - 1][m] = x
            BY <4>1 DEF Range
          <5>2. m + 1 \in DOMAIN s
            BY <3>3, <4>1, <5>1
          <5>3. QED
            BY <3>3, <5>1, <5>2 DEF Range
        <4>5. places[i] \in Range(s)
          <5>1. 1 \in DOMAIN s
            BY <3>3, <4>1
          <5>2. QED
            BY <3>3, <5>1 DEF Range
        <4>6. QED
          BY <4>3, <4>4, <4>5
      <3> HIDE DEF s
      <3>5. Range(sent[i]) = {places[j] : j \in {h \in 1 .. i : Shows(places[h], set)}}
        BY <1>9, <2>2, <2>3, <3>1, <3>4
      <3>6. i \in 1 .. i /\ \A h \in i + 1 .. i : FALSE
        BY <2>1
      <3>7. QED
        BY <2>3, <3>1, <3>3, <3>5, <3>6
    <2>4. CASE ~Shows(places[i], set)
      <3>1. sent[i] = sent[i - 1]
        BY <1>7, <2>1, <2>4
      <3>2. {h \in 1 .. i : Shows(places[h], set)} = {h \in 1 .. i - 1 : Shows(places[h], set)}
        BY <2>2, <2>4
      <3>3. ASSUME sent[i] # <<>>
            PROVE  \E j \in 1 .. i :
                                 /\ sent[i][1] = places[j] /\ Shows(places[j], set)
                                 /\ \A h \in j + 1 .. i : ~Shows(places[h], set)
        <4>1. PICK j \in 1 .. i - 1 : /\ sent[i - 1][1] = places[j] /\ Shows(places[j], set)
                                     /\ \A h \in j + 1 .. i - 1 : ~Shows(places[h], set)
          BY <1>9, <3>1, <3>3
        <4>2. \A h \in j + 1 .. i : h \in j + 1 .. i - 1 \/ h = i
          BY <2>1
        <4>3. QED
          BY <2>2, <2>4, <3>1, <4>1, <4>2
      <3>4. QED
        BY <1>9, <3>1, <3>2, <3>3
    <2>5. QED
      BY <2>3, <2>4
  <1> HIDE DEF Good
  <1>10. Bad = {}
    <2> SUFFICES ASSUME Bad # {} PROVE FALSE
      OBVIOUS
    <2>1. Bad \in SUBSET Nat
      BY <1>1
    <2>2. PICK k \in Bad : \A m \in Bad : k <= m
      BY <2>1, LeastNatural
    <2>3. k \in 0 .. n /\ ~Good(k) /\ k # 0
      BY <1>8
    <2>4. k - 1 \in 0 .. n /\ k - 1 \notin Bad
      BY <1>1, <2>2, <2>3
    <2>5. QED
      BY <1>9, <2>3, <2>4
  <1>11. Good(n)
    <2>1. n \in 0 .. n /\ n \notin Bad
      BY <1>1, <1>10
    <2>2. QED
      BY <2>1
  <1>12. {places[j] : j \in {h \in 1 .. n : Shows(places[h], set)}} = {l \in Range(places) : Shows(l, set)}
    BY DEF Range
  <1>13. QED
    BY <1>5, <1>11, <1>12 DEF Good

-----------------------------------------------------------------------------
(* What the fourth thread makes of what is in the channels.                *)

(* A block: locations, and whether a trace begins before them.  A tally:     *)
(* what the thread has counted, and whether a trace has begun of which       *)
(* nothing was counted yet.                                                  *)
Blocks == [new : BOOLEAN, locs : Seq(Locations)]
Tallies == [seen : SUBSET Locations, fresh : BOOLEAN,
            zelf : [Locations -> Nat], with : [Locations -> Nat]]

Take(st, b) ==
    LET fresh == st.fresh \/ b.new
        before == IF fresh THEN {} ELSE st.seen
    IN  IF b.locs = <<>>
        THEN [seen |-> st.seen, fresh |-> fresh, zelf |-> st.zelf, with |-> st.with]
        ELSE [seen |-> before \cup Range(b.locs),
              fresh |-> FALSE,
              zelf |-> [l \in Locations |->
                          IF fresh /\ l = b.locs[1] THEN st.zelf[l] + 1 ELSE st.zelf[l]],
              with |-> [l \in Locations |->
                          IF l \in Range(b.locs) \ before THEN st.with[l] + 1
                          ELSE st.with[l]]]

(* A tally stays one.                                                       *)
LEMMA TakeType ==
    ASSUME NEW st \in Tallies, NEW b \in Blocks
    PROVE  Take(st, b) \in Tallies
  <1> DEFINE fresh == st.fresh \/ b.new
             before == IF fresh THEN {} ELSE st.seen
             own == [l \in Locations |->
                          IF fresh /\ l = b.locs[1] THEN st.zelf[l] + 1 ELSE st.zelf[l]]
             with == [l \in Locations |->
                          IF l \in Range(b.locs) \ before THEN st.with[l] + 1
                          ELSE st.with[l]]
  <1>1. /\ st.seen \in SUBSET Locations /\ st.fresh \in BOOLEAN
        /\ st.zelf \in [Locations -> Nat] /\ st.with \in [Locations -> Nat]
        /\ b.new \in BOOLEAN /\ b.locs \in Seq(Locations)
    BY DEF Tallies, Blocks
  <1>2. fresh \in BOOLEAN
    BY <1>1
  <1>3. before \cup Range(b.locs) \in SUBSET Locations
    <2>1. Range(b.locs) \subseteq Locations
      BY <1>1 DEF Range
    <2>2. QED
      BY <1>1, <2>1
  <1>4. own \in [Locations -> Nat] /\ with \in [Locations -> Nat]
    BY <1>1
  <1>5. CASE b.locs = <<>>
    <2>1. Take(st, b) = [seen |-> st.seen, fresh |-> fresh, zelf |-> st.zelf, with |-> st.with]
      BY <1>5 DEF Take
    <2> HIDE DEF fresh
    <2>2. QED
      BY <1>1, <1>2, <2>1 DEF Tallies
  <1>6. CASE b.locs # <<>>
    <2>1. Take(st, b) = [seen |-> before \cup Range(b.locs), fresh |-> FALSE,
                         zelf |-> own, with |-> with]
      BY <1>6 DEF Take
    <2> HIDE DEF own, with, before
    <2>2. QED
      BY <1>3, <1>4, <2>1 DEF Tallies
  <1>7. QED
    BY <1>5, <1>6

(* Taking blocks one after the other leads from one tally to another.        *)
IsRun(run, B, st, fin) ==
    /\ run \in [0 .. Len(B) -> Tallies]
    /\ run[0] = st /\ run[Len(B)] = fin
    /\ \A i \in 1 .. Len(B) : run[i] = Take(run[i - 1], B[i])

Yields(B, st, fin) == \E run : IsRun(run, B, st, fin)

(* What blocks lead from and to are tallies.                                *)
LEMMA YieldsType ==
    ASSUME NEW B \in Seq(Blocks), NEW st, NEW fin, Yields(B, st, fin)
    PROVE  st \in Tallies /\ fin \in Tallies
  <1>1. PICK run : IsRun(run, B, st, fin)
    BY DEF Yields
  <1>2. 0 \in 0 .. Len(B) /\ Len(B) \in 0 .. Len(B)
    OBVIOUS
  <1>3. QED
    BY <1>1, <1>2 DEF IsRun

(* One block is taken in one step, ...                                      *)
LEMMA YieldsOne ==
    ASSUME NEW b \in Blocks, NEW st \in Tallies, NEW fin
    PROVE  Yields(<<b>>, st, fin) <=> fin = Take(st, b)
  <1> DEFINE B == <<b>>
  <1>1. B \in Seq(Blocks) /\ Len(B) = 1 /\ B[1] = b
    OBVIOUS
  <1> HIDE DEF B
  <1>2. ASSUME Yields(B, st, fin) PROVE fin = Take(st, b)
    <2>1. PICK run : IsRun(run, B, st, fin)
      BY <1>2 DEF Yields
    <2>2. 1 \in 1 .. 1
      OBVIOUS
    <2>3. QED
      BY <1>1, <2>1, <2>2 DEF IsRun
  <1>3. ASSUME fin = Take(st, b) PROVE Yields(B, st, fin)
    <2> DEFINE run == [i \in 0 .. 1 |-> IF i = 0 THEN st ELSE fin]
    <2>1. fin \in Tallies
      BY <1>3, TakeType
    <2>2. run \in [0 .. 1 -> Tallies] /\ run[0] = st /\ run[1] = fin
      BY <2>1
    <2> HIDE DEF run
    <2>3. \A i \in 1 .. 1 : i = 1 /\ run[i - 1] = st
      BY <2>2
    <2>4. IsRun(run, B, st, fin)
      BY <1>1, <1>3, <2>2, <2>3 DEF IsRun
    <2>5. QED
      BY <2>4 DEF Yields
  <1>4. QED
    BY <1>2, <1>3 DEF B

(* ... no block in none.                                                    *)
LEMMA YieldsNone ==
    ASSUME NEW st \in Tallies, NEW fin
    PROVE  Yields(<<>>, st, fin) <=> fin = st
  <1> DEFINE B == <<>>
  <1>1. Len(B) = 0 /\ 1 .. 0 = {} /\ 0 \in 0 .. 0
    OBVIOUS
  <1> HIDE DEF B
  <1>2. ASSUME Yields(B, st, fin) PROVE fin = st
    BY <1>1, <1>2 DEF Yields, IsRun
  <1>3. ASSUME fin = st PROVE Yields(B, st, fin)
    <2> DEFINE run == [i \in 0 .. 0 |-> st]
    <2>1. run \in [0 .. 0 -> Tallies] /\ run[0] = st
      OBVIOUS
    <2> HIDE DEF run
    <2>2. IsRun(run, B, st, fin)
      BY <1>1, <1>3, <2>1 DEF IsRun
    <2>3. QED
      BY <2>2 DEF Yields
  <1>4. QED
    BY <1>2, <1>3 DEF B

(* Blocks before and after a point are taken one after the other.            *)
LEMMA YieldsConcat ==
    ASSUME NEW B \in Seq(Blocks), NEW C \in Seq(Blocks), NEW st, NEW fin
    PROVE  Yields(B \o C, st, fin) <=>
              \E mid \in Tallies : Yields(B, st, mid) /\ Yields(C, mid, fin)
  <1> DEFINE D == B \o C
             m == Len(B)
             n == Len(C)
  <1>1. /\ D \in Seq(Blocks) /\ Len(D) = m + n /\ m \in Nat /\ n \in Nat
        /\ \A i \in 1 .. m : D[i] = B[i]
        /\ \A i \in 1 .. n : D[m + i] = C[i]
    OBVIOUS
  <1> HIDE DEF D
  <1>2. ASSUME Yields(D, st, fin)
        PROVE  \E mid \in Tallies : Yields(B, st, mid) /\ Yields(C, mid, fin)
    <2>1. PICK run : IsRun(run, D, st, fin)
      BY <1>2 DEF Yields
    <2> DEFINE fore == [i \in 0 .. m |-> run[i]]
               aft == [i \in 0 .. n |-> run[m + i]]
    <2>2. /\ run \in [0 .. m + n -> Tallies] /\ run[0] = st /\ run[m + n] = fin
          /\ \A i \in 1 .. m + n : run[i] = Take(run[i - 1], D[i])
      BY <1>1, <2>1 DEF IsRun
    <2>3. IsRun(fore, B, st, run[m])
      <3>1. /\ fore \in [0 .. m -> Tallies] /\ fore[0] = st /\ fore[m] = run[m]
            /\ \A i \in 0 .. m : fore[i] = run[i]
        BY <1>1, <2>2
      <3>2. \A i \in 1 .. m : i \in 1 .. m + n /\ i \in 0 .. m /\ i - 1 \in 0 .. m
        BY <1>1
      <3> HIDE DEF fore
      <3>3. \A i \in 1 .. m : fore[i] = Take(fore[i - 1], B[i])
        BY <1>1, <2>2, <3>1, <3>2
      <3>4. QED
        BY <3>1, <3>3 DEF IsRun
    <2>4. IsRun(aft, C, run[m], fin)
      <3>1. /\ aft \in [0 .. n -> Tallies] /\ aft[0] = run[m] /\ aft[n] = fin
            /\ \A i \in 0 .. n : aft[i] = run[m + i]
        BY <1>1, <2>2
      <3>2. \A i \in 1 .. n : /\ m + i \in 1 .. m + n /\ i \in 0 .. n /\ i - 1 \in 0 .. n
                              /\ m + (i - 1) = (m + i) - 1
        BY <1>1
      <3> HIDE DEF aft
      <3>3. ASSUME NEW i \in 1 .. n PROVE aft[i] = Take(aft[i - 1], C[i])
        <4>1. run[m + i] = Take(run[(m + i) - 1], D[m + i]) /\ D[m + i] = C[i]
          BY <1>1, <2>2, <3>2
        <4>2. aft[i] = run[m + i] /\ aft[i - 1] = run[(m + i) - 1]
          BY <3>1, <3>2
        <4>3. QED
          BY <4>1, <4>2
      <3>4. QED
        BY <3>1, <3>3 DEF IsRun
    <2>5. run[m] \in Tallies
      BY <1>1, <2>2
    <2> HIDE DEF fore, aft
    <2>6. Yields(B, st, run[m]) /\ Yields(C, run[m], fin)
      BY <2>3, <2>4 DEF Yields
    <2>7. QED
      BY <2>5, <2>6
  <1>3. ASSUME NEW mid \in Tallies, Yields(B, st, mid), Yields(C, mid, fin)
        PROVE  Yields(D, st, fin)
    <2>1. PICK fore : IsRun(fore, B, st, mid)
      BY <1>3 DEF Yields
    <2>2. PICK aft : IsRun(aft, C, mid, fin)
      BY <1>3 DEF Yields
    <2> DEFINE run == [i \in 0 .. m + n |-> IF i <= m THEN fore[i] ELSE aft[i - m]]
    <2>3. /\ fore \in [0 .. m -> Tallies] /\ fore[0] = st /\ fore[m] = mid
          /\ \A i \in 1 .. m : fore[i] = Take(fore[i - 1], B[i])
      BY <2>1 DEF IsRun
    <2>4. /\ aft \in [0 .. n -> Tallies] /\ aft[0] = mid /\ aft[n] = fin
          /\ \A i \in 1 .. n : aft[i] = Take(aft[i - 1], C[i])
      BY <2>2 DEF IsRun
    <2>5. /\ run \in [0 .. m + n -> Tallies]
          /\ \A i \in 0 .. m : run[i] = fore[i]
          /\ \A i \in 1 .. n : run[m + i] = aft[i]
      BY <1>1, <2>3, <2>4
    <2> HIDE DEF run
    <2>6. \A i \in 0 .. n : run[m + i] = aft[i]
      <3>1. 0 \in 0 .. n /\ m \in 0 .. m /\ run[m + 0] = run[m]
        BY <1>1
      <3>2. run[m + 0] = aft[0]
        BY <2>3, <2>4, <2>5, <3>1
      <3>3. \A i \in 0 .. n : i = 0 \/ i \in 1 .. n
        BY <1>1
      <3>4. QED
        BY <2>5, <3>2, <3>3
    <2>7. ASSUME NEW i \in 1 .. m + n PROVE run[i] = Take(run[i - 1], D[i])
      <3>1. CASE i <= m
        <4>1. i \in 1 .. m /\ i \in 0 .. m /\ i - 1 \in 0 .. m
          BY <1>1, <3>1
        <4>2. QED
          BY <1>1, <2>3, <2>5, <4>1
      <3>2. CASE ~(i <= m)
        <4> DEFINE j == i - m
        <4>1. j \in 1 .. n /\ j \in 0 .. n /\ j - 1 \in 0 .. n /\ i = m + j /\ i - 1 = m + (j - 1)
          BY <1>1, <3>2
        <4> HIDE DEF j
        <4>2. run[i] = aft[j] /\ run[i - 1] = aft[j - 1] /\ D[i] = C[j]
          BY <1>1, <2>6, <4>1
        <4>3. QED
          BY <2>4, <4>1, <4>2
      <3>3. QED
        BY <3>1, <3>2
    <2>8. 0 \in 0 .. m /\ n \in 0 .. n
      BY <1>1
    <2>9. IsRun(run, D, st, fin)
      BY <1>1, <2>3, <2>4, <2>5, <2>6, <2>7, <2>8 DEF IsRun
    <2>10. QED
      BY <2>9 DEF Yields
  <1>4. QED
    BY <1>2, <1>3 DEF D

(* A block may be taken in parts, ... *)
LEMMA TakeParts ==
    ASSUME NEW st \in Tallies, NEW n \in BOOLEAN, NEW s \in Seq(Locations), s # <<>>
    PROVE  Take(Take(st, [new |-> n, locs |-> <<Head(s)>>]), [new |-> FALSE, locs |-> Tail(s)])
             = Take(st, [new |-> n, locs |-> s])
  <1> DEFINE a == Head(s)
             b == [new |-> n, locs |-> <<a>>]
             c == [new |-> FALSE, locs |-> Tail(s)]
             d == [new |-> n, locs |-> s]
             fresh == st.fresh \/ n
             before == IF fresh THEN {} ELSE st.seen
             mid == Take(st, b)
             all == Take(st, d)
             own == [l \in Locations |->
                       IF fresh /\ l = a THEN st.zelf[l] + 1 ELSE st.zelf[l]]
             with1 == [l \in Locations |->
                         IF l \in {a} \ before THEN st.with[l] + 1 ELSE st.with[l]]
             with2 == [l \in Locations |->
                         IF l \in Range(s) \ before THEN st.with[l] + 1 ELSE st.with[l]]
  <1>1. /\ s[1] = a /\ a \in Locations /\ Tail(s) \in Seq(Locations)
        /\ Range(<<a>>) = {a} /\ <<a>> # <<>> /\ <<a>>[1] = a
        /\ Range(s) = {a} \cup Range(Tail(s))
    <2>1. /\ s = <<a>> \o Tail(s) /\ s[1] = a /\ a \in Locations /\ Tail(s) \in Seq(Locations)
          /\ Len(Tail(s)) = Len(s) - 1 /\ Len(s) \in Nat \ {0}
          /\ \A i \in 1 .. Len(s) - 1 : Tail(s)[i] = s[i + 1]
      OBVIOUS
    <2>2. DOMAIN s = 1 .. Len(s) /\ DOMAIN Tail(s) = 1 .. Len(s) - 1
      BY <2>1
    <2> HIDE DEF a
    <2>3. DOMAIN <<a>> = {1} /\ <<a>>[1] = a
      OBVIOUS
    <2>4. Range(<<a>>) = {a}
      BY <2>3 DEF Range
    <2>5. ASSUME NEW x \in Range(s) PROVE x \in {a} \cup Range(Tail(s))
      <3>1. PICK i \in 1 .. Len(s) : x = s[i]
        BY <2>2 DEF Range
      <3>2. i = 1 \/ (i - 1 \in 1 .. Len(s) - 1 /\ s[i] = Tail(s)[i - 1])
        BY <2>1
      <3>3. QED
        BY <2>1, <2>2, <3>1, <3>2 DEF Range
    <2>6. ASSUME NEW x \in Range(Tail(s)) PROVE x \in Range(s)
      <3>1. PICK i \in 1 .. Len(s) - 1 : x = Tail(s)[i]
        BY <2>2 DEF Range
      <3>2. i + 1 \in DOMAIN s /\ x = s[i + 1]
        BY <2>1, <2>2, <3>1
      <3>3. QED
        BY <3>2 DEF Range
    <2>7. a \in Range(s)
      <3>1. 1 \in DOMAIN s
        BY <2>1, <2>2
      <3>2. QED
        BY <2>1, <3>1 DEF Range
    <2>8. QED
      BY <2>1, <2>3, <2>4, <2>5, <2>6, <2>7
  <1> HIDE DEF a
  <1>2. mid = [seen |-> before \cup {a}, fresh |-> FALSE, zelf |-> own, with |-> with1]
    BY <1>1 DEF Take
  <1>3. all = [seen |-> before \cup Range(s), fresh |-> FALSE, zelf |-> own, with |-> with2]
    BY <1>1 DEF Take
  <1>4. st.with \in [Locations -> Nat] /\ st.zelf \in [Locations -> Nat]
    BY DEF Tallies
  <1> HIDE DEF mid, all, before, fresh
  <1>5. CASE Tail(s) = <<>>
    <2>1. Range(Tail(s)) = {}
      BY <1>5 DEF Range
    <2>2. with1 = with2
      BY <1>1, <2>1
    <2>3. Take(mid, c) = [seen |-> mid.seen, fresh |-> mid.fresh \/ FALSE,
                          zelf |-> mid.zelf, with |-> mid.with]
      BY <1>5 DEF Take
    <2> HIDE DEF own, with1, with2
    <2>4. Take(mid, c) = all
      BY <1>1, <1>2, <1>3, <2>1, <2>2, <2>3
    <2>5. QED
      BY <2>4 DEF mid, all, a
  <1>6. CASE Tail(s) # <<>>
    <2> DEFINE own2 == [l \in Locations |->
                          IF (mid.fresh \/ c.new) /\ l = c.locs[1] THEN mid.zelf[l] + 1
                          ELSE mid.zelf[l]]
               with3 == [l \in Locations |->
                           IF l \in Range(c.locs) \ mid.seen THEN mid.with[l] + 1
                           ELSE mid.with[l]]
    <2>1. ~(mid.fresh \/ c.new) /\ mid.seen = before \cup {a} /\ mid.zelf = own /\ mid.with = with1
      BY <1>2
    <2>2. Take(mid, c) = [seen |-> mid.seen \cup Range(Tail(s)), fresh |-> FALSE,
                          zelf |-> own2, with |-> with3]
      BY <1>6, <2>1 DEF Take
    <2>3. own2 = own
      BY <2>1
    <2>4. with3 = with2
      <3>1. ASSUME NEW l \in Locations PROVE with3[l] = with2[l]
        <4>1. with3[l] = IF l \in Range(Tail(s)) \ (before \cup {a}) THEN with1[l] + 1 ELSE with1[l]
          BY <2>1
        <4>2. with1[l] = IF l \in {a} \ before THEN st.with[l] + 1 ELSE st.with[l]
          OBVIOUS
        <4>3. with2[l] = IF l \in Range(s) \ before THEN st.with[l] + 1 ELSE st.with[l]
          OBVIOUS
        <4> HIDE DEF with1, with2, with3
        <4>4. QED
          BY <1>1, <4>1, <4>2, <4>3
      <3>2. QED
        BY <3>1
    <2> HIDE DEF own, own2, with1, with2, with3
    <2>5. Take(mid, c) = all
      BY <1>1, <1>3, <2>1, <2>2, <2>3, <2>4
    <2>6. QED
      BY <2>5 DEF mid, all, a
  <1>7. QED
    BY <1>5, <1>6

(* ... and one without locations together with the next. *)
LEMMA TakeEmpty ==
    ASSUME NEW st \in Tallies, NEW n \in BOOLEAN, NEW b \in Blocks
    PROVE  Take(Take(st, [new |-> n, locs |-> <<>>]), b)
             = Take(st, [new |-> n \/ b.new, locs |-> b.locs])
  <1> DEFINE mid == Take(st, [new |-> n, locs |-> <<>>])
             c == [new |-> n \/ b.new, locs |-> b.locs]
  <1>1. mid = [seen |-> st.seen, fresh |-> st.fresh \/ n, zelf |-> st.zelf, with |-> st.with]
    BY DEF Take
  <1> HIDE DEF mid
  <1>2. /\ mid.seen = st.seen /\ mid.zelf = st.zelf /\ mid.with = st.with
        /\ (mid.fresh \/ b.new) = (st.fresh \/ (n \/ b.new))
    BY <1>1
  <1>3. Take(mid, b) = Take(st, c)
    BY <1>2 DEF Take
  <1>4. QED
    BY <1>3 DEF mid

-----------------------------------------------------------------------------
(* What the blocks of a trace add to a tally.                              *)

Met(T, n) == UNION {Range(T[i].locs) : i \in 1 .. n}

Leads(T, n, l) ==
    \E i \in 1 .. n : /\ T[i].locs # <<>> /\ T[i].locs[1] = l
                      /\ \A j \in 1 .. i - 1 : T[j].locs = <<>>

After(T, st, n) ==
    [seen |-> IF Met(T, n) = {} THEN st.seen ELSE Met(T, n),
     fresh |-> Met(T, n) = {},
     zelf |-> [l \in Locations |-> IF Leads(T, n, l) THEN st.zelf[l] + 1 ELSE st.zelf[l]],
     with |-> [l \in Locations |-> IF l \in Met(T, n) THEN st.with[l] + 1 ELSE st.with[l]]]

(* A trace: one begins with its first block only. *)
IsTrace(T) == T \in Seq(Blocks) /\ \A i \in 1 .. Len(T) : T[i].new = (i = 1)

(* What one block more adds to the locations met and to the leading one.    *)
LEMMA MetGrows ==
    ASSUME NEW T, IsTrace(T), NEW n \in 1 .. Len(T)
    PROVE  /\ Met(T, n) = Met(T, n - 1) \cup Range(T[n].locs)
           /\ Met(T, n - 1) = {} <=> \A j \in 1 .. n - 1 : T[j].locs = <<>>
           /\ \A l : Leads(T, n, l) <=>
                \/ Leads(T, n - 1, l)
                \/ Met(T, n - 1) = {} /\ T[n].locs # <<>> /\ T[n].locs[1] = l
           /\ Met(T, n - 1) = {} => \A l : ~Leads(T, n - 1, l)
           /\ Met(T, n) \subseteq Locations
           /\ Range(T[n].locs) = {} <=> T[n].locs = <<>>
  <1>1. Len(T) \in Nat /\ \A i \in 1 .. Len(T) : T[i].locs \in Seq(Locations)
    <2>1. T \in Seq(Blocks)
      BY DEF IsTrace
    <2>2. \A i \in 1 .. Len(T) : T[i] \in Blocks
      BY <2>1
    <2>3. QED
      BY <2>1, <2>2 DEF Blocks
  <1>2. \A i \in 1 .. n : i \in 1 .. Len(T)
    BY <1>1
  <1>3. \A i : i \in 1 .. n <=> i \in 1 .. n - 1 \/ i = n
    OBVIOUS
  <1>4. \A i \in 1 .. Len(T) : /\ Range(T[i].locs) \subseteq Locations
                               /\ Range(T[i].locs) = {} <=> T[i].locs = <<>>
    <2> SUFFICES ASSUME NEW i \in 1 .. Len(T)
                 PROVE  /\ Range(T[i].locs) \subseteq Locations
                        /\ Range(T[i].locs) = {} <=> T[i].locs = <<>>
      OBVIOUS
    <2> DEFINE s == T[i].locs
    <2>1. s \in Seq(Locations)
      BY <1>1
    <2> HIDE DEF s
    <2>2. DOMAIN s = 1 .. Len(s) /\ Len(s) \in Nat /\ (s = <<>> <=> Len(s) = 0)
      BY <2>1
    <2>3. (s # <<>> => 1 \in DOMAIN s) /\ (s = <<>> => DOMAIN s = {})
      BY <2>2
    <2>4. Range(s) \subseteq Locations
      BY <2>1, <2>2 DEF Range
    <2>5. Range(s) = {} <=> s = <<>>
      BY <2>2, <2>3 DEF Range
    <2>6. QED
      BY <2>4, <2>5 DEF s
  <1>5. Met(T, n) = Met(T, n - 1) \cup Range(T[n].locs)
    BY <1>3 DEF Met
  <1>6. Met(T, n - 1) = {} <=> \A j \in 1 .. n - 1 : T[j].locs = <<>>
    BY <1>2, <1>3, <1>4 DEF Met
  <1>7. ASSUME NEW l
        PROVE  Leads(T, n, l) <=>
                \/ Leads(T, n - 1, l)
                \/ Met(T, n - 1) = {} /\ T[n].locs # <<>> /\ T[n].locs[1] = l
    BY <1>3, <1>6 DEF Leads
  <1>8. Met(T, n - 1) = {} => \A l : ~Leads(T, n - 1, l)
    BY <1>6 DEF Leads
  <1>9. Met(T, n) \subseteq Locations
    BY <1>2, <1>4 DEF Met
  <1>10. QED
    BY <1>4, <1>5, <1>6, <1>7, <1>8, <1>9

(* Taking the n-th block of a trace leads to what is there after n.         *)
LEMMA AfterStep ==
    ASSUME NEW T, IsTrace(T), NEW st \in Tallies, NEW n \in 1 .. Len(T)
    PROVE  Take(IF n = 1 THEN st ELSE After(T, st, n - 1), T[n]) = After(T, st, n)
  <1> DEFINE m == Met(T, n - 1)
             b == T[n]
             from1 == IF n = 1 THEN st ELSE After(T, st, n - 1)
             before == m
             own == [l \in Locations |->
                       IF m = {} /\ l = b.locs[1] THEN from1.zelf[l] + 1 ELSE from1.zelf[l]]
             wth == [l \in Locations |->
                       IF l \in Range(b.locs) \ m THEN from1.with[l] + 1 ELSE from1.with[l]]
             own2 == [l \in Locations |-> IF Leads(T, n, l) THEN st.zelf[l] + 1 ELSE st.zelf[l]]
             wth2 == [l \in Locations |-> IF l \in Met(T, n) THEN st.with[l] + 1 ELSE st.with[l]]
  <1>1. /\ Met(T, n) = m \cup Range(b.locs)
        /\ \A l : Leads(T, n, l) <=>
                \/ Leads(T, n - 1, l)
                \/ m = {} /\ b.locs # <<>> /\ b.locs[1] = l
        /\ m = {} => \A l : ~Leads(T, n - 1, l)
        /\ Range(b.locs) = {} <=> b.locs = <<>>
    BY MetGrows
  <1>2. b.new = (n = 1) /\ st.with \in [Locations -> Nat] /\ st.zelf \in [Locations -> Nat]
    BY DEF IsTrace, Tallies
  <1>3. n = 1 => m = {}
    <2>1. n = 1 => 1 .. n - 1 = {}
      OBVIOUS
    <2>2. QED
      BY <2>1 DEF Met
  <1>4. /\ (from1.fresh \/ b.new) <=> m = {}
        /\ m # {} => from1.seen = m
        /\ m = {} => from1.seen = st.seen
        /\ \A l \in Locations :
              /\ from1.zelf[l] = IF Leads(T, n - 1, l) THEN st.zelf[l] + 1 ELSE st.zelf[l]
              /\ from1.with[l] = IF l \in m THEN st.with[l] + 1 ELSE st.with[l]
    <2>1. CASE n = 1
      BY <1>1, <1>2, <1>3, <2>1
    <2>2. CASE n # 1
      BY <1>2, <2>2 DEF After
    <2>3. QED
      BY <2>1, <2>2
  <1>5. After(T, st, n) = [seen |-> IF Met(T, n) = {} THEN st.seen ELSE Met(T, n),
                           fresh |-> Met(T, n) = {}, zelf |-> own2, with |-> wth2]
    BY DEF After
  <1> HIDE DEF from1, m, b
  <1>6. CASE b.locs = <<>>
    <2>1. Take(from1, b) = [seen |-> from1.seen, fresh |-> from1.fresh \/ b.new,
                           zelf |-> from1.zelf, with |-> from1.with]
      BY <1>6 DEF Take
    <2>2. Met(T, n) = m /\ \A l : Leads(T, n, l) <=> Leads(T, n - 1, l)
      BY <1>1, <1>6
    <2>3. DOMAIN from1.zelf = Locations /\ DOMAIN from1.with = Locations
      BY <1>2 DEF from1, After
    <2>4. from1.zelf = own2 /\ from1.with = wth2
      <3>1. from1.zelf = [l \in Locations |-> from1.zelf[l]] /\ from1.with = [l \in Locations |-> from1.with[l]]
        <4>1. \A l \in Locations : TRUE
          OBVIOUS
        <4>2. QED
          BY <1>2 DEF from1, After
      <3>2. QED
        BY <1>4, <2>2, <3>1
    <2>5. (from1.fresh \/ b.new) = (m = {})
      BY <1>4
    <2> HIDE DEF own2, wth2
    <2>6. QED
      BY <1>4, <1>5, <2>1, <2>2, <2>4, <2>5 DEF from1, b
  <1>7. CASE b.locs # <<>>
    <2>1. Take(from1, b) = [seen |-> m \cup Range(b.locs), fresh |-> FALSE,
                            zelf |-> own, with |-> wth]
      <3>1. (IF from1.fresh \/ b.new THEN {} ELSE from1.seen) = m
        BY <1>4
      <3>2. QED
        BY <1>4, <1>7, <3>1 DEF Take
    <2>2. Met(T, n) # {} /\ (Met(T, n) = {}) = FALSE
      BY <1>1, <1>7
    <2>3. own = own2
      <3>1. ASSUME NEW l \in Locations PROVE own[l] = own2[l]
        <4>1. own[l] = IF m = {} /\ l = b.locs[1] THEN from1.zelf[l] + 1 ELSE from1.zelf[l]
          OBVIOUS
        <4>2. own2[l] = IF Leads(T, n, l) THEN st.zelf[l] + 1 ELSE st.zelf[l]
          OBVIOUS
        <4> HIDE DEF own, own2
        <4>3. QED
          BY <1>1, <1>4, <1>7, <4>1, <4>2
      <3>2. QED
        BY <3>1
    <2>4. wth = wth2
      <3>1. ASSUME NEW l \in Locations PROVE wth[l] = wth2[l]
        <4>1. wth[l] = IF l \in Range(b.locs) \ m THEN from1.with[l] + 1 ELSE from1.with[l]
          OBVIOUS
        <4>2. wth2[l] = IF l \in Met(T, n) THEN st.with[l] + 1 ELSE st.with[l]
          OBVIOUS
        <4> HIDE DEF wth, wth2
        <4>3. QED
          BY <1>1, <1>4, <4>1, <4>2
      <3>2. QED
        BY <3>1
    <2> HIDE DEF own, own2, wth, wth2
    <2>5. QED
      BY <1>1, <1>5, <2>1, <2>2, <2>3, <2>4 DEF from1, b
  <1>8. QED
    BY <1>6, <1>7 DEF from1, b

(* A trace counts once for each location in it, and as its own for the first. *)
LEMMA TraceYields ==
    ASSUME NEW T, IsTrace(T), NEW st \in Tallies
    PROVE  \E fin \in Tallies :
              /\ Yields(T, st, fin)
              /\ \A l \in Locations :
                    /\ fin.with[l] = IF l \in Met(T, Len(T)) THEN st.with[l] + 1 ELSE st.with[l]
                    /\ fin.zelf[l] = IF Leads(T, Len(T), l) THEN st.zelf[l] + 1 ELSE st.zelf[l]
  <1> DEFINE run == [i \in 0 .. Len(T) |-> IF i = 0 THEN st ELSE After(T, st, i)]
  <1>1. Len(T) \in Nat
    BY DEF IsTrace
  <1>2. ASSUME NEW i \in 1 .. Len(T) PROVE After(T, st, i) \in Tallies
    <2> DEFINE own == [l \in Locations |-> IF Leads(T, i, l) THEN st.zelf[l] + 1 ELSE st.zelf[l]]
               wth == [l \in Locations |-> IF l \in Met(T, i) THEN st.with[l] + 1 ELSE st.with[l]]
               seen1 == IF Met(T, i) = {} THEN st.seen ELSE Met(T, i)
    <2>1. /\ st.with \in [Locations -> Nat] /\ st.zelf \in [Locations -> Nat]
          /\ st.seen \in SUBSET Locations
      BY DEF Tallies
    <2>2. own \in [Locations -> Nat] /\ wth \in [Locations -> Nat]
      BY <2>1
    <2>3. seen1 \in SUBSET Locations /\ (Met(T, i) = {}) \in BOOLEAN
      BY <2>1, MetGrows
    <2>4. After(T, st, i) = [seen |-> seen1, fresh |-> Met(T, i) = {}, zelf |-> own, with |-> wth]
      BY DEF After
    <2> HIDE DEF own, wth, seen1
    <2>5. QED
      BY <2>2, <2>3, <2>4 DEF Tallies
  <1>3. /\ run \in [0 .. Len(T) -> Tallies] /\ run[0] = st
        /\ \A i \in 1 .. Len(T) : run[i] = After(T, st, i)
    BY <1>1, <1>2
  <1>4. ASSUME NEW i \in 1 .. Len(T) PROVE run[i] = Take(run[i - 1], T[i])
    <2>1. run[i - 1] = IF i = 1 THEN st ELSE After(T, st, i - 1)
      BY <1>1
    <2> HIDE DEF run
    <2>2. QED
      BY <1>3, <2>1, AfterStep
  <1> HIDE DEF run
  <1>5. Yields(T, st, run[Len(T)])
    BY <1>3, <1>4 DEF Yields, IsRun
  <1>6. CASE Len(T) = 0
    <2>1. 1 .. Len(T) = {}
      BY <1>6
    <2>2. Met(T, Len(T)) = {} /\ \A l : ~Leads(T, Len(T), l)
      BY <2>1 DEF Met, Leads
    <2>3. QED
      BY <1>3, <1>5, <1>6, <2>2
  <1>7. CASE Len(T) # 0
    <2>1. run[Len(T)] = After(T, st, Len(T)) /\ run[Len(T)] \in Tallies
      BY <1>1, <1>3, <1>7
    <2>2. \A l \in Locations :
                    /\ run[Len(T)].with[l] = IF l \in Met(T, Len(T)) THEN st.with[l] + 1 ELSE st.with[l]
                    /\ run[Len(T)].zelf[l] = IF Leads(T, Len(T), l) THEN st.zelf[l] + 1 ELSE st.zelf[l]
      BY <2>1 DEF After
    <2>3. QED
      BY <1>5, <2>1, <2>2
  <1>8. QED
    BY <1>6, <1>7

-----------------------------------------------------------------------------
(* The channels.                                                           *)

FrameItems == [frame : Frames, idx : Nat]
LocItems == [loc : Locations, new : BOOLEAN]

(* The chains that the frames may turn out to have.                          *)
ChainOf == {c \in [Frames -> UNION {Chains[f] : f \in Frames}] :
               \A f \in Frames : c[f] \in Chains[f]}

(* The blocks in the last channel, ... *)
LocBlocks(q) == [i \in 1 .. Len(q) |-> [new |-> q[i].new, locs |-> <<q[i].loc>>]]

(* ... and those that frames in the others become.                           *)
FrameBlocks(q, c, set) ==
    [i \in 1 .. Len(q) |-> [new |-> q[i].idx = 0, locs |-> Sent(c[q[i].frame], set)]]

FramesOf(t) == [i \in DOMAIN t |-> [frame |-> t[i], idx |-> i - 1]]

(* What is sent of a chain that a frame may have.                           *)
LEMMA SentLocations ==
    ASSUME NEW f \in Frames, NEW c \in Chains[f], NEW set \in SUBSET Locations
    PROVE  /\ Sent(c, set) \in Seq(Locations)
           /\ Range(Sent(c, set)) = {l \in Range(c) : Shows(l, set)}
           /\ Sent(c, set) # <<>> =>
                 \E i \in 1 .. Len(c) :
                    /\ Sent(c, set)[1] = c[i] /\ Shows(c[i], set)
                    /\ \A j \in i + 1 .. Len(c) : ~Shows(c[j], set)
           /\ c \in Seq(Range(c))
  <1>1. c \in Seq(Range(c))
    BY ProfileAssumption
  <1>2. Sent(c, set) \in Seq({l \in Range(c) : Shows(l, set)})
    BY <1>1, SentIs
  <1>3. {l \in Range(c) : Shows(l, set)} \subseteq Locations
    BY DEF Shows
  <1>4. \A S, T : S \subseteq T => Seq(S) \subseteq Seq(T)
    OBVIOUS
  <1>5. Sent(c, set) \in Seq(Locations)
    BY <1>2, <1>3, <1>4
  <1>6. QED
    BY <1>1, <1>5, SentIs

(* Blocks for the items of the last channel, one each, ...                  *)
LEMMA LocBlocksType ==
    ASSUME NEW q \in Seq(LocItems)
    PROVE  LocBlocks(q) \in Seq(Blocks) /\ Len(LocBlocks(q)) = Len(q)
  <1>1. Len(q) \in Nat /\ \A i \in 1 .. Len(q) : q[i] \in LocItems
    OBVIOUS
  <1>2. ASSUME NEW i \in 1 .. Len(q)
        PROVE  [new |-> q[i].new, locs |-> <<q[i].loc>>] \in Blocks
    <2>1. q[i].loc \in Locations /\ q[i].new \in BOOLEAN
      BY <1>1 DEF LocItems
    <2>2. <<q[i].loc>> \in Seq(Locations)
      BY <2>1
    <2>3. QED
      BY <2>1, <2>2 DEF Blocks
  <1>3. LocBlocks(q) \in [1 .. Len(q) -> Blocks]
    BY <1>2 DEF LocBlocks
  <1>4. QED
    BY <1>1, <1>3

(* ... and for frames.                                                      *)
LEMMA FrameBlocksType ==
    ASSUME NEW q \in Seq(FrameItems), NEW c \in ChainOf, NEW set \in SUBSET Locations
    PROVE  FrameBlocks(q, c, set) \in Seq(Blocks) /\ Len(FrameBlocks(q, c, set)) = Len(q)
  <1>1. Len(q) \in Nat /\ \A i \in 1 .. Len(q) : q[i] \in FrameItems
    OBVIOUS
  <1>2. ASSUME NEW i \in 1 .. Len(q)
        PROVE  [new |-> q[i].idx = 0, locs |-> Sent(c[q[i].frame], set)] \in Blocks
    <2>1. q[i].frame \in Frames /\ (q[i].idx = 0) \in BOOLEAN
      BY <1>1 DEF FrameItems
    <2>2. c[q[i].frame] \in Chains[q[i].frame]
      BY <2>1 DEF ChainOf
    <2>3. Sent(c[q[i].frame], set) \in Seq(Locations)
      BY <2>1, <2>2, SentLocations
    <2>4. QED
      BY <2>1, <2>3 DEF Blocks
  <1>3. FrameBlocks(q, c, set) \in [1 .. Len(q) -> Blocks]
    BY <1>2 DEF FrameBlocks
  <1>4. QED
    BY <1>1, <1>3

(* The blocks of two parts of a channel are those of the whole.             *)
LEMMA LocBlocksConcat ==
    ASSUME NEW q \in Seq(LocItems), NEW r \in Seq(LocItems)
    PROVE  LocBlocks(q \o r) = LocBlocks(q) \o LocBlocks(r)
  <1> DEFINE a == LocBlocks(q)
             b == LocBlocks(r)
             d == LocBlocks(q \o r)
  <1>1. /\ Len(q) \in Nat /\ Len(r) \in Nat /\ Len(q \o r) = Len(q) + Len(r)
        /\ q \o r \in Seq(LocItems)
        /\ \A i \in 1 .. Len(q) : (q \o r)[i] = q[i]
        /\ \A i \in Len(q) + 1 .. Len(q) + Len(r) : (q \o r)[i] = r[i - Len(q)]
    BY ConcatProperties
  <1>2. /\ a \in Seq(Blocks) /\ b \in Seq(Blocks) /\ d \in Seq(Blocks)
        /\ Len(a) = Len(q) /\ Len(b) = Len(r) /\ Len(d) = Len(q) + Len(r)
    BY <1>1, LocBlocksType
  <1>3. /\ \A i \in 1 .. Len(q) : d[i] = a[i]
        /\ \A i \in Len(q) + 1 .. Len(q) + Len(r) : d[i] = b[i - Len(q)]
    BY <1>1 DEF LocBlocks
  <1> HIDE DEF a, b, d
  <1>4. /\ a \o b \in Seq(Blocks) /\ Len(a \o b) = Len(d)
        /\ \A i \in 1 .. Len(q) : (a \o b)[i] = a[i]
        /\ \A i \in Len(q) + 1 .. Len(q) + Len(r) : (a \o b)[i] = b[i - Len(q)]
    <2>1. a \in Seq(Blocks) /\ b \in Seq(Blocks)
      BY <1>2
    <2>2. /\ a \o b \in Seq(Blocks) /\ Len(a \o b) = Len(a) + Len(b)
          /\ \A i \in 1 .. Len(a) : (a \o b)[i] = a[i]
          /\ \A i \in Len(a) + 1 .. Len(a) + Len(b) : (a \o b)[i] = b[i - Len(a)]
      BY <2>1, ConcatProperties
    <2>3. QED
      BY <1>2, <2>2
  <1>5. \A i \in 1 .. Len(d) : d[i] = (a \o b)[i]
    BY <1>1, <1>2, <1>3, <1>4
  <1>6. d = a \o b
    BY <1>2, <1>4, <1>5
  <1>7. QED
    BY <1>6 DEF a, b, d

(* So are those of frames, in the channel and not yet in it.                *)
LEMMA FrameBlocksConcat ==
    ASSUME NEW q \in Seq(FrameItems), NEW r \in Seq(FrameItems),
           NEW c \in ChainOf, NEW set \in SUBSET Locations
    PROVE  FrameBlocks(q \o r, c, set) = FrameBlocks(q, c, set) \o FrameBlocks(r, c, set)
  <1> DEFINE a == FrameBlocks(q, c, set)
             b == FrameBlocks(r, c, set)
             d == FrameBlocks(q \o r, c, set)
  <1>1. /\ Len(q) \in Nat /\ Len(r) \in Nat /\ Len(q \o r) = Len(q) + Len(r)
        /\ q \o r \in Seq(FrameItems)
        /\ \A i \in 1 .. Len(q) : (q \o r)[i] = q[i]
        /\ \A i \in Len(q) + 1 .. Len(q) + Len(r) : (q \o r)[i] = r[i - Len(q)]
    BY ConcatProperties
  <1>2. /\ a \in Seq(Blocks) /\ b \in Seq(Blocks) /\ d \in Seq(Blocks)
        /\ Len(a) = Len(q) /\ Len(b) = Len(r) /\ Len(d) = Len(q) + Len(r)
    BY <1>1, FrameBlocksType
  <1>3. /\ \A i \in 1 .. Len(q) : d[i] = a[i]
        /\ \A i \in Len(q) + 1 .. Len(q) + Len(r) : d[i] = b[i - Len(q)]
    BY <1>1 DEF FrameBlocks
  <1> HIDE DEF a, b, d
  <1>4. /\ a \o b \in Seq(Blocks) /\ Len(a \o b) = Len(d)
        /\ \A i \in 1 .. Len(q) : (a \o b)[i] = a[i]
        /\ \A i \in Len(q) + 1 .. Len(q) + Len(r) : (a \o b)[i] = b[i - Len(q)]
    <2>1. a \in Seq(Blocks) /\ b \in Seq(Blocks)
      BY <1>2
    <2>2. /\ a \o b \in Seq(Blocks) /\ Len(a \o b) = Len(a) + Len(b)
          /\ \A i \in 1 .. Len(a) : (a \o b)[i] = a[i]
          /\ \A i \in Len(a) + 1 .. Len(a) + Len(b) : (a \o b)[i] = b[i - Len(a)]
      BY <2>1, ConcatProperties
    <2>3. QED
      BY <1>2, <2>2
  <1>5. \A i \in 1 .. Len(d) : d[i] = (a \o b)[i]
    BY <1>1, <1>2, <1>3, <1>4
  <1>6. d = a \o b
    BY <1>2, <1>4, <1>5
  <1>7. QED
    BY <1>6 DEF a, b, d

(* The frames of an event's trace become the blocks of one trace.           *)
LEMMA TraceBlocks ==
    ASSUME NEW k \in EventKeys, NEW c \in ChainOf, NEW set \in SUBSET Locations
    PROVE  /\ FramesOf(Sample[k].trace) \in Seq(FrameItems)
           /\ IsTrace(FrameBlocks(FramesOf(Sample[k].trace), c, set))
  <1> DEFINE t == Sample[k].trace
             q == FramesOf(t)
  <1>1. t \in Seq(Frames)
    BY ProfileAssumption DEF Traces
  <1> HIDE DEF t
  <1>2. Len(t) \in Nat /\ DOMAIN t = 1 .. Len(t) /\ \A i \in 1 .. Len(t) : t[i] \in Frames
    BY <1>1
  <1>3. q \in [1 .. Len(t) -> FrameItems] /\ \A i \in 1 .. Len(t) : q[i].idx = i - 1
    BY <1>2 DEF FramesOf, FrameItems
  <1> HIDE DEF q
  <1>4. q \in Seq(FrameItems) /\ Len(q) = Len(t)
    BY <1>2, <1>3
  <1>5. \A i \in 1 .. Len(t) : FrameBlocks(q, c, set)[i].new = (i = 1)
    <2>1. \A i \in 1 .. Len(t) : FrameBlocks(q, c, set)[i].new = (q[i].idx = 0)
      BY <1>4 DEF FrameBlocks
    <2>2. \A i \in 1 .. Len(t) : (q[i].idx = 0) = (i = 1)
      BY <1>2, <1>3
    <2>3. QED
      BY <2>1, <2>2
  <1>6. QED
    BY <1>4, <1>5, FrameBlocksType DEF IsTrace, q, t

-----------------------------------------------------------------------------
(* The invariant.                                                          *)

TopTypes ==
    /\ tpc \in {"idle", "query", "done"}
    /\ filter \in SUBSET Locations
    /\ unread \in SUBSET EventKeys /\ counted \in SUBSET EventKeys
    /\ eventChan \in Seq(EventKeys)
    /\ frameChan \in Seq(FrameItems) /\ frames \in Seq(FrameItems)
    /\ locs \in Seq(Locations) /\ locChan \in Seq(LocItems)
    /\ newTrace \in BOOLEAN
    /\ seen \in SUBSET Locations
    /\ zelf \in [Locations -> Nat] /\ withChildren \in [Locations -> Nat]
    /\ DOMAIN cached \subseteq Frames
    /\ \A f \in DOMAIN cached : cached[f] \in Chains[f]

(* An event is in one place: unread, once in the first channel, or counted.  *)
EventsOnce ==
    /\ unread \cap counted = {}
    /\ \A i \in 1 .. Len(eventChan) : eventChan[i] \notin unread \cup counted
    /\ \A i, j \in 1 .. Len(eventChan) : eventChan[i] = eventChan[j] => i = j

(* The frames of a counted event have been looked up or are on their way.    *)
FramesMet ==
    \A k \in counted : \A i \in DOMAIN Sample[k].trace :
       \/ Sample[k].trace[i] \in DOMAIN cached
       \/ \E j \in 1 .. Len(frameChan \o frames) :
             (frameChan \o frames)[j].frame = Sample[k].trace[i]

NothingYet ==
    /\ counted = {} /\ seen = {} /\ zelf = Zero /\ withChildren = Zero
    /\ newTrace \in BOOLEAN

Resting ==
    /\ tpc # "query" => Finished
    /\ tpc = "idle" => NothingYet

Extends(c) == \A f \in DOMAIN cached : c[f] = cached[f]

Held == [new |-> newTrace, locs |-> locs]
Pipe(c) == LocBlocks(locChan) \o <<Held>> \o FrameBlocks(frameChan \o frames, c, filter)
Now == [seen |-> seen, fresh |-> FALSE, zelf |-> zelf, with |-> withChildren]

BlocksOf(k, c) == FrameBlocks(FramesOf(Sample[k].trace), c, filter)
MetIn(k, c) == Met(BlocksOf(k, c), Len(BlocksOf(k, c)))
LeadsIn(k, c, l) == Leads(BlocksOf(k, c), Len(BlocksOf(k, c)), l)

(* A tally is right if each event whose trace was found counts once.         *)
Right(c, fin) ==
    \A l \in Locations :
       /\ fin.with[l] = Cardinality({k \in counted : l \in MetIn(k, c)})
       /\ fin.zelf[l] = Cardinality({k \in counted : LeadsIn(k, c, l)})

(* Whatever the symbols not looked up yet will be: when the fourth thread has *)
(* taken all that is in the channels, its tally is right.                     *)
PipeInv ==
    \A c \in ChainOf :
       Extends(c) => \E fin \in Tallies : Yields(Pipe(c), Now, fin) /\ Right(c, fin)

TopInv == TopTypes /\ EventsOnce /\ FramesMet /\ Resting /\ PipeInv

(* Of the channels: blocks, what thread three holds, and more blocks.        *)
LEMMA PipeYields ==
    ASSUME NEW L \in Seq(Blocks), NEW h \in Blocks, NEW F \in Seq(Blocks), NEW st, NEW fin
    PROVE  Yields(L \o <<h>> \o F, st, fin) <=>
              \E mid \in Tallies : Yields(L, st, mid) /\ Yields(F, Take(mid, h), fin)
  <1>1. <<h>> \in Seq(Blocks)
    OBVIOUS
  <1>2. L \o <<h>> \in Seq(Blocks)
    BY <1>1
  <1>3. Yields((L \o <<h>>) \o F, st, fin) <=>
           \E m \in Tallies : Yields(L \o <<h>>, st, m) /\ Yields(F, m, fin)
    BY <1>2, YieldsConcat
  <1>4. \A m : Yields(L \o <<h>>, st, m) <=>
           \E mid \in Tallies : Yields(L, st, mid) /\ Yields(<<h>>, mid, m)
    BY <1>1, YieldsConcat
  <1>5. \A mid \in Tallies : \A m : Yields(<<h>>, mid, m) <=> m = Take(mid, h)
    BY YieldsOne
  <1>6. \A mid \in Tallies : Take(mid, h) \in Tallies
    BY TakeType
  <1>7. QED
    BY <1>3, <1>4, <1>5, <1>6

(* The parts of the pipe are blocks, what has been counted is a tally.      *)
LEMMA PipeTyped ==
    ASSUME TopTypes, NEW c \in ChainOf
    PROVE  /\ LocBlocks(locChan) \in Seq(Blocks) /\ Held \in Blocks
           /\ FrameBlocks(frameChan \o frames, c, filter) \in Seq(Blocks)
           /\ frameChan \o frames \in Seq(FrameItems)
           /\ Now \in Tallies
  <1>1. frameChan \o frames \in Seq(FrameItems)
    BY DEF TopTypes
  <1>2. FrameBlocks(frameChan \o frames, c, filter) \in Seq(Blocks)
    BY <1>1, FrameBlocksType DEF TopTypes
  <1>3. LocBlocks(locChan) \in Seq(Blocks)
    BY LocBlocksType DEF TopTypes
  <1>4. Held \in Blocks
    BY DEF Held, Blocks, TopTypes
  <1>5. Now \in Tallies
    BY DEF Now, Tallies, TopTypes
  <1>6. QED
    BY <1>1, <1>2, <1>3, <1>4, <1>5

(* The block of one item, ...                                               *)
LEMMA LocBlocksOne ==
    ASSUME NEW x \in LocItems
    PROVE  /\ LocBlocks(<<x>>) = <<[new |-> x.new, locs |-> <<x.loc>>]>>
           /\ [new |-> x.new, locs |-> <<x.loc>>] \in Blocks
  <1> DEFINE y == LocBlocks(<<x>>)
             b == [new |-> x.new, locs |-> <<x.loc>>]
  <1>1. <<x>> \in Seq(LocItems) /\ Len(<<x>>) = 1 /\ <<x>>[1] = x /\ 1 \in 1 .. Len(<<x>>)
    OBVIOUS
  <1>2. y \in Seq(Blocks) /\ Len(y) = 1
    BY <1>1, LocBlocksType
  <1>3. y[1] = b
    BY <1>1 DEF LocBlocks
  <1>4. b \in Blocks
    BY <1>2, <1>3
  <1> HIDE DEF y, b
  <1>5. y = <<b>>
    BY <1>2, <1>3
  <1>6. QED
    BY <1>4, <1>5 DEF y, b

(* ... and of one frame.                                                    *)
LEMMA FrameBlocksOne ==
    ASSUME NEW x \in FrameItems, NEW c \in ChainOf, NEW set \in SUBSET Locations
    PROVE  /\ FrameBlocks(<<x>>, c, set) = <<[new |-> x.idx = 0, locs |-> Sent(c[x.frame], set)]>>
           /\ [new |-> x.idx = 0, locs |-> Sent(c[x.frame], set)] \in Blocks
  <1> DEFINE y == FrameBlocks(<<x>>, c, set)
             b == [new |-> x.idx = 0, locs |-> Sent(c[x.frame], set)]
  <1>1. <<x>> \in Seq(FrameItems) /\ Len(<<x>>) = 1 /\ <<x>>[1] = x /\ 1 \in 1 .. Len(<<x>>)
    OBVIOUS
  <1>2. y \in Seq(Blocks) /\ Len(y) = 1
    BY <1>1, FrameBlocksType
  <1>3. y[1] = b
    BY <1>1 DEF FrameBlocks
  <1>4. b \in Blocks
    BY <1>2, <1>3
  <1> HIDE DEF y, b
  <1>5. y = <<b>>
    BY <1>2, <1>3
  <1>6. QED
    BY <1>4, <1>5 DEF y, b

(* Nothing in the channels adds nothing. *)
LEMMA BlocksNone ==
    ASSUME NEW c \in ChainOf, NEW set \in SUBSET Locations
    PROVE  LocBlocks(<<>>) = <<>> /\ FrameBlocks(<<>>, c, set) = <<>>
  <1> DEFINE L == LocBlocks(<<>>)
             F == FrameBlocks(<<>>, c, set)
  <1>1. <<>> \in Seq(LocItems) /\ <<>> \in Seq(FrameItems) /\ Len(<<>>) = 0
    OBVIOUS
  <1>2. L \in Seq(Blocks) /\ Len(L) = 0
    BY <1>1, LocBlocksType
  <1>3. F \in Seq(Blocks) /\ Len(F) = 0
    BY <1>1, FrameBlocksType
  <1> HIDE DEF L, F
  <1>4. L = <<>> /\ F = <<>>
    BY <1>2, <1>3
  <1>5. QED
    BY <1>4 DEF L, F

(* With empty channels nothing is left to count.                            *)
LEMMA NothingYields ==
    ASSUME NEW h \in Blocks, h.locs = <<>>, NEW st \in Tallies
    PROVE  \E fin \in Tallies : /\ Yields(<<>> \o <<h>> \o <<>>, st, fin)
                                /\ fin.with = st.with /\ fin.zelf = st.zelf
  <1> DEFINE fin == Take(st, h)
             none == <<>>
  <1>1. fin \in Tallies
    BY TakeType
  <1>2. fin.with = st.with /\ fin.zelf = st.zelf
    BY DEF Take
  <1> HIDE DEF fin
  <1>3. none \in Seq(Blocks) /\ Yields(none, st, st) /\ Yields(none, fin, fin)
    BY <1>1, YieldsNone
  <1> HIDE DEF none
  <1>4. Yields(none \o <<h>> \o none, st, fin)
    BY <1>3, PipeYields DEF fin
  <1>5. QED
    BY <1>1, <1>2, <1>4 DEF none

(* Counts of zero are right for no events.                                  *)
LEMMA NothingRight ==
    ASSUME NEW c \in ChainOf, NEW fin, fin.with = Zero, fin.zelf = Zero, counted = {}
    PROVE  Right(c, fin)
  <1>1. Cardinality({}) = 0
    BY FS_EmptySet
  <1>2. QED
    BY <1>1 DEF Right, Zero

(* Nothing in the channels and nothing counted is right.                     *)
LEMMA TopStart == ASSUME TopInit PROVE TopInv
  <1>1. TopTypes
    <2>1. Locations \in SUBSET Locations /\ <<>> \in Seq(EventKeys) /\ <<>> \in Seq(FrameItems)
          /\ <<>> \in Seq(Locations) /\ <<>> \in Seq(LocItems)
      OBVIOUS
    <2>2. Zero \in [Locations -> Nat]
      BY DEF Zero
    <2>3. DOMAIN cached = {}
      BY DEF TopInit
    <2>4. QED
      BY <2>1, <2>2, <2>3 DEF TopTypes, TopInit
  <1>2. EventsOnce /\ FramesMet /\ Resting
    <2>1. Len(<<>>) = 0 /\ 1 .. 0 = {}
      OBVIOUS
    <2>2. QED
      BY <2>1 DEF EventsOnce, FramesMet, Resting, NothingYet, Finished, TopInit
  <1>3. PipeInv
    <2> SUFFICES ASSUME NEW c \in ChainOf
                 PROVE  \E fin \in Tallies : Yields(Pipe(c), Now, fin) /\ Right(c, fin)
      BY DEF PipeInv
    <2>1. Held \in Blocks /\ Now \in Tallies /\ Held.locs = <<>>
      BY <1>1, PipeTyped DEF Held, TopInit
    <2>2. Pipe(c) = <<>> \o <<Held>> \o <<>>
      <3>1. frameChan \o frames = <<>> /\ locChan = <<>>
        BY DEF TopInit
      <3>2. filter \in SUBSET Locations
        BY <1>1 DEF TopTypes
      <3> HIDE DEF Held
      <3>3. QED
        BY <3>1, <3>2, BlocksNone DEF Pipe
    <2>3. PICK fin \in Tallies : /\ Yields(Pipe(c), Now, fin)
                                 /\ fin.with = Now.with /\ fin.zelf = Now.zelf
      BY <2>1, <2>2, NothingYields
    <2>4. fin.with = Zero /\ fin.zelf = Zero /\ counted = {}
      BY <2>3 DEF Now, TopInit
    <2>5. QED
      BY <2>3, <2>4, NothingRight
  <1>4. QED
    BY <1>1, <1>2, <1>3 DEF TopInv

(* The tables the threads read.                                             *)
TablesOK == events \subseteq EventKeys /\ chain \in ChainOf

(* The invariant of the pipe is about these variables.                      *)
LEMMA PipeKept ==
    ASSUME PipeInv,
           UNCHANGED <<filter, frames, frameChan, cached, newTrace, locs, locChan,
                       seen, zelf, withChildren, counted>>
    PROVE  PipeInv'
  <1> SUFFICES ASSUME NEW c \in ChainOf, Extends(c)'
               PROVE  \E fin \in Tallies : Yields(Pipe(c)', Now', fin) /\ Right(c, fin)'
    BY DEF PipeInv
  <1>1. Extends(c)
    BY DEF Extends
  <1>2. PICK fin \in Tallies : Yields(Pipe(c), Now, fin) /\ Right(c, fin)
    BY <1>1 DEF PipeInv
  <1>3. Pipe(c)' = Pipe(c) /\ Now' = Now
    BY DEF Pipe, Held, Now
  <1>4. Right(c, fin)'
    BY <1>2 DEF Right, MetIn, LeadsIn, BlocksOf
  <1>5. QED
    BY <1>2, <1>3, <1>4

(* Thread 1: an event moves from those unread to the first channel.         *)
LEMMA SendEventStep ==
    ASSUME TopInv, SendEvent
    PROVE  TopInv'
  <1> USE DEF TopInv
  <1>1. /\ unread # {} /\ unread \in SUBSET EventKeys /\ eventChan \in Seq(EventKeys)
        /\ First(unread) \in unread
    BY FirstIsKey DEF SendEvent, CanSendEvent, TopTypes
  <1>2. /\ eventChan' = Append(eventChan, First(unread)) /\ unread' = unread \ {First(unread)}
        /\ UNCHANGED <<tpc, filter, frames, frameChan, cached, newTrace, locs,
                       locChan, seen, zelf, withChildren, counted>>
    BY DEF SendEvent, CanSendEvent, counts
  <1> HIDE DEF TopInv
  <1>3. TopTypes'
    <2>1. eventChan' \in Seq(EventKeys)
      BY <1>1, <1>2
    <2>2. QED
      BY <1>1, <1>2, <2>1 DEF TopTypes, TopInv
  <1>4. EventsOnce'
    <2> DEFINE n == Len(eventChan)
               x == First(unread)
    <2>1. /\ n \in Nat /\ Len(eventChan') = n + 1 /\ eventChan'[n + 1] = x
          /\ \A i \in 1 .. n : eventChan'[i] = eventChan[i]
      BY <1>1, <1>2
    <2>2. \A i \in 1 .. n + 1 : i \in 1 .. n \/ i = n + 1
      BY <2>1
    <2>3. EventsOnce
      BY DEF TopInv
    <2>4. x \notin counted /\ \A i \in 1 .. n : eventChan[i] # x
      BY <1>1, <2>3 DEF EventsOnce
    <2> HIDE DEF x
    <2>5. \A i \in 1 .. n + 1 : eventChan'[i] \notin unread' \cup counted'
      BY <1>2, <2>1, <2>2, <2>3, <2>4 DEF EventsOnce, x
    <2>6. \A i, j \in 1 .. n + 1 : eventChan'[i] = eventChan'[j] => i = j
      BY <2>1, <2>2, <2>3, <2>4 DEF EventsOnce
    <2>7. (unread \cap counted)' = {}
      BY <1>2, <2>3 DEF EventsOnce
    <2>8. QED
      BY <2>1, <2>5, <2>6, <2>7 DEF EventsOnce
  <1>5. FramesMet'
    BY <1>2 DEF FramesMet, TopInv
  <1>6. Resting'
    <2>1. tpc = "query"
      BY <1>1 DEF TopInv, Resting, Finished, TopTypes
    <2>2. QED
      BY <1>2, <2>1 DEF Resting
  <1>7. PipeInv'
    BY <1>2, PipeKept DEF TopInv
  <1>8. QED
    BY <1>3, <1>4, <1>5, <1>6, <1>7 DEF TopInv

(* A frame moves on to its channel.                                         *)
LEMMA SendFrameStep ==
    ASSUME TopInv, SendFrame
    PROVE  TopInv'
  <1>1. /\ frames \in Seq(FrameItems) /\ frameChan \in Seq(FrameItems) /\ frames # <<>>
        /\ frameChan' = Append(frameChan, Head(frames)) /\ frames' = Tail(frames)
        /\ UNCHANGED <<tpc, filter, unread, eventChan, cached, newTrace, locs,
                       locChan, seen, zelf, withChildren, counted>>
    BY DEF SendFrame, CanSendFrame, counts, TopInv, TopTypes
  <1>2. /\ Head(frames) \in FrameItems /\ Tail(frames) \in Seq(FrameItems)
        /\ frames = <<Head(frames)>> \o Tail(frames)
    BY <1>1
  <1>3. frameChan' \in Seq(FrameItems) /\ frames' \in Seq(FrameItems)
    BY <1>1, <1>2
  <1>4. (frameChan \o frames)' = frameChan \o frames
    <2>1. \A x \in FrameItems, r \in Seq(FrameItems) :
             Append(frameChan, x) \o r = frameChan \o (<<x>> \o r)
      BY <1>1
    <2>2. QED
      BY <1>1, <1>2, <2>1
  <1>5. TopTypes'
    BY <1>1, <1>3 DEF TopTypes, TopInv
  <1>6. EventsOnce'
    BY <1>1 DEF EventsOnce, TopInv
  <1>7. FramesMet'
    <2>1. PICK q : q = frameChan \o frames
      OBVIOUS
    <2>2. frameChan' \o frames' = q
      BY <1>4, <2>1
    <2>3. \A k \in counted : \A i \in DOMAIN Sample[k].trace :
             \/ Sample[k].trace[i] \in DOMAIN cached
             \/ \E j \in 1 .. Len(q) : q[j].frame = Sample[k].trace[i]
      BY <2>1, Zenon DEF FramesMet, TopInv
    <2>4. counted' = counted /\ cached' = cached
      BY <1>1
    <2>5. QED
      BY <2>2, <2>3, <2>4, Zenon DEF FramesMet
  <1>8. Resting'
    <2>1. tpc = "query"
      BY <1>1 DEF TopInv, Resting, Finished, TopTypes
    <2>2. QED
      BY <1>1, <2>1 DEF Resting
  <1>9. PipeInv'
    <2> SUFFICES ASSUME NEW c \in ChainOf, Extends(c)'
                 PROVE  \E fin \in Tallies : Yields(Pipe(c)', Now', fin) /\ Right(c, fin)'
      BY DEF PipeInv
    <2>1. Extends(c)
      BY <1>1 DEF Extends
    <2>2. PICK fin \in Tallies : Yields(Pipe(c), Now, fin) /\ Right(c, fin)
      BY <2>1 DEF PipeInv, TopInv
    <2>3. Pipe(c)' = Pipe(c) /\ Now' = Now
      BY <1>1, <1>4 DEF Pipe, Held, Now
    <2>4. Right(c, fin)'
      BY <1>1, <2>2 DEF Right, MetIn, LeadsIn, BlocksOf
    <2>5. QED
      BY <2>2, <2>3, <2>4
  <1>10. QED
    BY <1>5, <1>6, <1>7, <1>8, <1>9 DEF TopInv

(* A location moves on, and the flag with it: the block held is sent in     *)
(* parts.                                                                   *)
LEMMA SendLocationStep ==
    ASSUME TopInv, SendLocation
    PROVE  TopInv'
  <1>1. /\ locs # <<>> /\ locs \in Seq(Locations) /\ locChan \in Seq(LocItems)
        /\ newTrace \in BOOLEAN
        /\ locChan' = Append(locChan, [loc |-> Head(locs), new |-> newTrace])
        /\ newTrace' = FALSE /\ locs' = Tail(locs)
        /\ UNCHANGED <<tpc, filter, unread, eventChan, frames, frameChan, cached,
                       seen, zelf, withChildren, counted>>
    BY DEF SendLocation, CanSendLocation, counts, TopInv, TopTypes
  <1> DEFINE x == [loc |-> Head(locs), new |-> newTrace]
             b == [new |-> newTrace, locs |-> <<Head(locs)>>]
  <1>2. Head(locs) \in Locations /\ Tail(locs) \in Seq(Locations)
    BY <1>1
  <1>3. x \in LocItems
    BY <1>1, <1>2 DEF LocItems
  <1>4. b \in Blocks
    <2>1. <<Head(locs)>> \in Seq(Locations)
      BY <1>2
    <2>2. QED
      BY <1>1, <2>1 DEF Blocks
  <1>5. locChan' \in Seq(LocItems)
    BY <1>1, <1>3
  <1>6. TopTypes'
    BY <1>1, <1>2, <1>5 DEF TopTypes, TopInv
  <1>7. EventsOnce'
    BY <1>1 DEF EventsOnce, TopInv
  <1>8. FramesMet'
    BY <1>1 DEF FramesMet, TopInv
  <1>9. Resting'
    <2>1. tpc = "query"
      BY <1>1 DEF TopInv, Resting, Finished, TopTypes
    <2>2. QED
      BY <1>1, <2>1 DEF Resting
  <1>10. PipeInv'
    <2> SUFFICES ASSUME NEW c \in ChainOf, Extends(c)'
                 PROVE  \E fin \in Tallies : Yields(Pipe(c)', Now', fin) /\ Right(c, fin)'
      BY DEF PipeInv
    <2> DEFINE L == LocBlocks(locChan)
               F == FrameBlocks(frameChan \o frames, c, filter)
               h2 == [new |-> FALSE, locs |-> Tail(locs)]
               L2 == LocBlocks(locChan')
    <2>1. Extends(c)
      BY <1>1 DEF Extends
    <2>2. PICK fin \in Tallies : Yields(Pipe(c), Now, fin) /\ Right(c, fin)
      BY <2>1 DEF PipeInv, TopInv
    <2>3. L \in Seq(Blocks) /\ Held \in Blocks /\ F \in Seq(Blocks) /\ Now \in Tallies
      BY PipeTyped DEF TopInv
    <2>4. L2 = L \o <<b>>
      <3>1. <<x>> \in Seq(LocItems) /\ locChan' = locChan \o <<x>>
        BY <1>1, <1>3
      <3>2. L2 = L \o LocBlocks(<<x>>)
        BY <1>1, <3>1, LocBlocksConcat
      <3>3. LocBlocks(<<x>>) = <<b>>
        BY <1>3, LocBlocksOne
      <3>4. QED
        BY <3>2, <3>3
    <2>5. Pipe(c)' = L2 \o <<h2>> \o F
      BY <1>1 DEF Pipe, Held
    <2>6. Now' = Now
      BY <1>1 DEF Now
    <2>7. h2 \in Blocks
      BY <1>2 DEF Blocks
    <2> HIDE DEF L, F, h2, L2, b
    <2>8. PICK mid \in Tallies : Yields(L, Now, mid) /\ Yields(F, Take(mid, Held), fin)
      BY <2>2, <2>3, PipeYields DEF Pipe, L, F
    <2>9. Take(mid, b) \in Tallies /\ Yields(<<b>>, mid, Take(mid, b))
      BY <1>4, TakeType, YieldsOne
    <2>10. Yields(L2, Now, Take(mid, b))
      <3>1. <<b>> \in Seq(Blocks)
        BY <1>4
      <3>2. QED
        BY <2>3, <2>4, <2>8, <2>9, <3>1, YieldsConcat
    <2>11. Take(Take(mid, b), h2) = Take(mid, Held)
      BY <1>1, TakeParts DEF b, h2, Held
    <2>12. L2 \in Seq(Blocks)
      BY <1>4, <2>3, <2>4
    <2>13. Yields(Pipe(c)', Now', fin)
      BY <2>3, <2>5, <2>6, <2>7, <2>8, <2>9, <2>10, <2>11, <2>12, PipeYields
    <2>14. Right(c, fin)'
      BY <1>1, <2>2 DEF Right, MetIn, LeadsIn, BlocksOf
    <2>15. QED
      BY <2>13, <2>14
  <1>11. QED
    BY <1>6, <1>7, <1>8, <1>9, <1>10 DEF TopInv

(* Thread 4 takes the first block.                                          *)
LEMMA CountStep ==
    ASSUME TopInv, Count
    PROVE  TopInv'
  <1> DEFINE x == Head(locChan)
             before == IF x.new THEN {} ELSE seen
             b == [new |-> x.new, locs |-> <<x.loc>>]
  <1>1. /\ locChan # <<>> /\ locChan \in Seq(LocItems) /\ seen \in SUBSET Locations
        /\ zelf \in [Locations -> Nat] /\ withChildren \in [Locations -> Nat]
        /\ seen' = before \cup {x.loc}
        /\ IF x.loc \in before
           THEN UNCHANGED <<zelf, withChildren>>
           ELSE /\ withChildren' = [withChildren EXCEPT ![x.loc] = @ + 1]
                /\ zelf' = IF x.new THEN [zelf EXCEPT ![x.loc] = @ + 1] ELSE zelf
        /\ locChan' = Tail(locChan)
        /\ UNCHANGED <<tpc, filter, unread, eventChan, frames, frameChan,
                       cached, newTrace, locs, counted>>
    BY DEF Count, CanCount, TopInv, TopTypes
  <1>2. x \in LocItems /\ Tail(locChan) \in Seq(LocItems) /\ locChan = <<x>> \o Tail(locChan)
    BY <1>1
  <1> HIDE DEF x
  <1>3. x.loc \in Locations /\ x.new \in BOOLEAN
    BY <1>2 DEF LocItems
  <1>4. b \in Blocks /\ LocBlocks(<<x>>) = <<b>>
    BY <1>2, LocBlocksOne
  <1>5. Now' = Take(Now, b)
    <2> DEFINE own == [l \in Locations |->
                          IF x.new /\ l = x.loc THEN zelf[l] + 1 ELSE zelf[l]]
               wth == [l \in Locations |->
                          IF l \in {x.loc} \ before THEN withChildren[l] + 1
                          ELSE withChildren[l]]
    <2>1. Take(Now, b) = [seen |-> before \cup {x.loc}, fresh |-> FALSE, zelf |-> own, with |-> wth]
      <3>1. Range(<<x.loc>>) = {x.loc} /\ <<x.loc>> # <<>> /\ <<x.loc>>[1] = x.loc
        <4>1. DOMAIN <<x.loc>> = {1} /\ <<x.loc>>[1] = x.loc /\ <<x.loc>> # <<>>
          OBVIOUS
        <4>2. QED
          BY <4>1 DEF Range
      <3>2. QED
        BY <1>3, <3>1 DEF Take, Now
    <2>2. zelf' = own
      <3>1. CASE x.loc \in before
        <4>1. ~x.new /\ zelf' = zelf
          BY <1>1, <3>1
        <4>2. QED
          BY <1>1, <4>1
      <3>2. CASE x.loc \notin before
        BY <1>1, <1>3, <3>2
      <3>3. QED
        BY <3>1, <3>2
    <2>3. withChildren' = wth
      <3>1. CASE x.loc \in before
        BY <1>1, <3>1
      <3>2. CASE x.loc \notin before
        BY <1>1, <1>3, <3>2
      <3>3. QED
        BY <3>1, <3>2
    <2> HIDE DEF own, wth, before
    <2>4. QED
      BY <1>1, <2>1, <2>2, <2>3 DEF Now
  <1>6. TopTypes'
    <2>1. seen' \in SUBSET Locations
      BY <1>1, <1>3
    <2>2. zelf' \in [Locations -> Nat] /\ withChildren' \in [Locations -> Nat]
      <3>1. CASE x.loc \in before
        BY <1>1, <3>1
      <3>2. CASE x.loc \notin before
        <4> DEFINE one == [zelf EXCEPT ![x.loc] = @ + 1]
        <4>1. one \in [Locations -> Nat] /\ [withChildren EXCEPT ![x.loc] = @ + 1] \in [Locations -> Nat]
          BY <1>1, <1>3
        <4> HIDE DEF before, one
        <4>2. zelf' = IF x.new THEN one ELSE zelf
          BY <1>1, <3>2 DEF one
        <4>3. QED
          BY <1>1, <3>2, <4>1, <4>2
      <3>3. QED
        BY <3>1, <3>2
    <2>3. QED
      BY <1>1, <1>2, <2>1, <2>2 DEF TopTypes, TopInv
  <1>7. EventsOnce'
    BY <1>1 DEF EventsOnce, TopInv
  <1>8. FramesMet'
    BY <1>1 DEF FramesMet, TopInv
  <1>9. Resting'
    <2>1. tpc = "query"
      BY <1>1 DEF TopInv, Resting, Finished, TopTypes
    <2>2. QED
      BY <1>1, <2>1 DEF Resting
  <1>10. PipeInv'
    <2> SUFFICES ASSUME NEW c \in ChainOf, Extends(c)'
                 PROVE  \E fin \in Tallies : Yields(Pipe(c)', Now', fin) /\ Right(c, fin)'
      BY DEF PipeInv
    <2> DEFINE L == LocBlocks(locChan)
               F == FrameBlocks(frameChan \o frames, c, filter)
               L2 == LocBlocks(locChan')
    <2>1. Extends(c)
      BY <1>1 DEF Extends
    <2>2. PICK fin \in Tallies : Yields(Pipe(c), Now, fin) /\ Right(c, fin)
      BY <2>1 DEF PipeInv, TopInv
    <2>3. L \in Seq(Blocks) /\ Held \in Blocks /\ F \in Seq(Blocks) /\ Now \in Tallies
      BY PipeTyped DEF TopInv
    <2>4. L2 \in Seq(Blocks)
      BY <1>1, <1>2, LocBlocksType
    <2>5. L = <<b>> \o L2
      <3>1. <<x>> \in Seq(LocItems)
        BY <1>2
      <3>2. L = LocBlocks(<<x>>) \o L2
        BY <1>1, <1>2, <3>1, LocBlocksConcat
      <3>3. QED
        BY <1>4, <3>2
    <2>6. Pipe(c)' = L2 \o <<Held>> \o F
      BY <1>1 DEF Pipe, Held
    <2> HIDE DEF L, F, L2, b
    <2>7. PICK mid \in Tallies : Yields(L, Now, mid) /\ Yields(F, Take(mid, Held), fin)
      BY <2>2, <2>3, PipeYields DEF Pipe, L, F
    <2>8. Yields(L2, Now', mid)
      <3>1. <<b>> \in Seq(Blocks)
        BY <1>4
      <3>2. PICK m \in Tallies : Yields(<<b>>, Now, m) /\ Yields(L2, m, mid)
        BY <2>4, <2>5, <2>7, <3>1, YieldsConcat
      <3>3. m = Now'
        BY <1>4, <1>5, <2>3, <3>2, YieldsOne
      <3>4. QED
        BY <3>2, <3>3
    <2>9. Yields(Pipe(c)', Now', fin)
      BY <2>3, <2>4, <2>6, <2>7, <2>8, PipeYields
    <2>10. Right(c, fin)'
      BY <1>1, <2>2 DEF Right, MetIn, LeadsIn, BlocksOf
    <2>11. QED
      BY <2>9, <2>10
  <1>11. QED
    BY <1>6, <1>7, <1>8, <1>9, <1>10 DEF TopInv

(* Thread 3: the block of the frame is now held, and its chain no longer    *)
(* open. The flag of a frame of which nothing was sent passes to the next.  *)
LEMMA SymbolizeStep ==
    ASSUME TopInv, TablesOK, SymbolizeFrame
    PROVE  TopInv'
  <1> DEFINE x == Head(frameChan)
             q == frameChan \o frames
             q2 == Tail(frameChan) \o frames
  <1>1. /\ locs = <<>> /\ frameChan # <<>> /\ frameChan \in Seq(FrameItems)
        /\ frames \in Seq(FrameItems) /\ newTrace \in BOOLEAN /\ filter \in SUBSET Locations
        /\ cached' = [f \in DOMAIN cached \cup {x.frame} |->
                         IF f \in DOMAIN cached THEN cached[f] ELSE chain[f]]
        /\ locs' = Sent(cached'[x.frame], filter)
        /\ newTrace' = (newTrace \/ x.idx = 0)
        /\ frameChan' = Tail(frameChan)
        /\ UNCHANGED <<tpc, filter, unread, eventChan, frames, locChan, seen, zelf,
                       withChildren, counted>>
    BY DEF SymbolizeFrame, CanSymbolize, Symbolize, counts, TopInv, TopTypes
  <1>2. /\ x \in FrameItems /\ Tail(frameChan) \in Seq(FrameItems)
        /\ frameChan = <<x>> \o Tail(frameChan)
    BY <1>1
  <1> HIDE DEF x
  <1>3. x.frame \in Frames /\ x.idx \in Nat
    BY <1>2 DEF FrameItems
  <1>4. q2 \in Seq(FrameItems) /\ q \in Seq(FrameItems) /\ q = <<x>> \o q2
    BY <1>1, <1>2
  <1>5. /\ DOMAIN cached' = DOMAIN cached \cup {x.frame}
        /\ \A f \in DOMAIN cached : cached'[f] = cached[f]
        /\ DOMAIN cached' \subseteq Frames
        /\ \A f \in DOMAIN cached' : cached'[f] \in Chains[f]
    BY <1>1, <1>3 DEF TopInv, TopTypes, TablesOK, ChainOf
  <1>6. cached'[x.frame] \in Chains[x.frame]
    BY <1>5
  <1>7. locs' \in Seq(Locations)
    BY <1>1, <1>3, <1>6, SentLocations
  <1>8. TopTypes'
    BY <1>1, <1>2, <1>5, <1>7 DEF TopTypes, TopInv
  <1>9. EventsOnce'
    BY <1>1 DEF EventsOnce, TopInv
  <1>10. FramesMet'
    <2>1. frameChan' \o frames' = q2
      BY <1>1
    <2>2. /\ Len(q) = Len(q2) + 1 /\ Len(q2) \in Nat /\ q[1] = x
          /\ \A j \in 1 .. Len(q2) : q[j + 1] = q2[j]
      <3> HIDE DEF q, q2
      <3>1. QED
        BY <1>2, <1>4
    <2>3. FramesMet
      BY DEF TopInv
    <2>4. ASSUME NEW k \in counted, NEW i \in DOMAIN Sample[k].trace
          PROVE  \/ Sample[k].trace[i] \in DOMAIN cached'
                 \/ \E j \in 1 .. Len(q2) : q2[j].frame = Sample[k].trace[i]
      <3> DEFINE f == Sample[k].trace[i]
      <3>1. f \in DOMAIN cached \/ \E j \in 1 .. Len(q) : q[j].frame = f
        BY <2>3 DEF FramesMet
      <3> HIDE DEF f, q, q2
      <3>2. CASE f \in DOMAIN cached
        BY <1>5, <3>2 DEF f
      <3>3. ASSUME NEW j \in 1 .. Len(q), q[j].frame = f
            PROVE  \/ f \in DOMAIN cached'
                   \/ \E h \in 1 .. Len(q2) : q2[h].frame = f
        <4>1. CASE j = 1
          BY <1>5, <2>2, <3>3, <4>1
        <4>2. CASE j # 1
          <5>1. j - 1 \in 1 .. Len(q2) /\ q[(j - 1) + 1] = q2[j - 1] /\ (j - 1) + 1 = j
            BY <2>2, <4>2
          <5>2. QED
            BY <3>3, <5>1
        <4>3. QED
          BY <4>1, <4>2
      <3>4. QED
        BY <3>1, <3>2, <3>3 DEF f
    <2> HIDE DEF q2
    <2>5. counted' = counted
      BY <1>1
    <2>6. QED
      BY <2>1, <2>4, <2>5, Zenon DEF FramesMet
  <1>11. Resting'
    <2>1. tpc = "query"
      BY <1>1 DEF TopInv, Resting, Finished, TopTypes
    <2>2. QED
      BY <1>1, <2>1 DEF Resting
  <1>12. PipeInv'
    <2> SUFFICES ASSUME NEW c \in ChainOf, Extends(c)'
                 PROVE  \E fin \in Tallies : Yields(Pipe(c)', Now', fin) /\ Right(c, fin)'
      BY DEF PipeInv
    <2> DEFINE L == LocBlocks(locChan)
               F == FrameBlocks(q, c, filter)
               F2 == FrameBlocks(q2, c, filter)
               b == [new |-> x.idx = 0, locs |-> Sent(c[x.frame], filter)]
               h2 == [new |-> newTrace \/ x.idx = 0, locs |-> Sent(c[x.frame], filter)]
    <2>1. Extends(c) /\ c[x.frame] = cached'[x.frame]
      BY <1>5 DEF Extends
    <2>2. PICK fin \in Tallies : Yields(Pipe(c), Now, fin) /\ Right(c, fin)
      BY <2>1 DEF PipeInv, TopInv
    <2>3. L \in Seq(Blocks) /\ Held \in Blocks /\ F \in Seq(Blocks) /\ Now \in Tallies
      BY PipeTyped DEF TopInv
    <2>4. F2 \in Seq(Blocks)
      BY <1>1, <1>4, FrameBlocksType
    <2>5. b \in Blocks /\ F = <<b>> \o F2
      <3>1. <<x>> \in Seq(FrameItems)
        BY <1>2
      <3>2. F = FrameBlocks(<<x>>, c, filter) \o F2
        <4> HIDE DEF q, q2, b, h2
        <4>1. PICK y : y = <<x>>
          OBVIOUS
        <4>2. filter \in SUBSET Locations /\ y \in Seq(FrameItems) /\ q2 \in Seq(FrameItems)
          BY <1>1, <1>4, <3>1, <4>1
        <4>3. FrameBlocks(y \o q2, c, filter) = FrameBlocks(y, c, filter) \o F2
          BY <4>2, FrameBlocksConcat
        <4>4. QED
          BY <1>4, <4>1, <4>3
      <3>3. QED
        BY <1>1, <1>2, <3>2, FrameBlocksOne
    <2>6. Pipe(c)' = L \o <<h2>> \o F2
      BY <1>1, <2>1 DEF Pipe, Held
    <2>7. h2 \in Blocks
      BY <1>1, <1>7, <2>1 DEF Blocks
    <2>8. Now' = Now
      BY <1>1 DEF Now
    <2> HIDE DEF L, F, F2
    <2>9. PICK mid \in Tallies : Yields(L, Now, mid) /\ Yields(F, Take(mid, Held), fin)
      BY <2>2, <2>3, PipeYields DEF Pipe, L, F
    <2>10. Take(Take(mid, Held), b) = Take(mid, h2)
      <3>1. Held = [new |-> newTrace, locs |-> <<>>]
        BY <1>1 DEF Held
      <3>2. b.new = (x.idx = 0) /\ b.locs = Sent(c[x.frame], filter)
        OBVIOUS
      <3> HIDE DEF b
      <3>3. Take(Take(mid, [new |-> newTrace, locs |-> <<>>]), b)
              = Take(mid, [new |-> newTrace \/ b.new, locs |-> b.locs])
        BY <1>1, <2>5, TakeEmpty
      <3>4. QED
        BY <3>1, <3>2, <3>3
    <2> HIDE DEF b, h2
    <2>11. Yields(F2, Take(mid, h2), fin)
      <3>1. <<b>> \in Seq(Blocks) /\ Take(mid, Held) \in Tallies
        BY <2>3, <2>5, TakeType
      <3>2. PICK m \in Tallies : Yields(<<b>>, Take(mid, Held), m) /\ Yields(F2, m, fin)
        BY <2>4, <2>5, <2>9, <3>1, YieldsConcat
      <3>3. m = Take(mid, h2)
        BY <2>5, <2>10, <3>1, <3>2, YieldsOne
      <3>4. QED
        BY <3>2, <3>3
    <2>12. Yields(Pipe(c)', Now', fin)
      BY <2>3, <2>4, <2>6, <2>7, <2>8, <2>9, <2>11, PipeYields
    <2>13. Right(c, fin)'
      BY <1>1, <2>2 DEF Right, MetIn, LeadsIn, BlocksOf
    <2>14. QED
      BY <2>12, <2>13
  <1>13. QED
    BY <1>8, <1>9, <1>10, <1>11, <1>12 DEF TopInv

(* Thread 2: the blocks of a trace follow those in the pipe, and each event *)
(* is looked up once.                                                       *)
LEMMA LookupStep ==
    ASSUME TopInv, LookupTrace
    PROVE  TopInv'
  <1> DEFINE k == Head(eventChan)
             t == Sample[k].trace
             q == FramesOf(t)
  <1>1. /\ frames = <<>> /\ eventChan # <<>> /\ eventChan \in Seq(EventKeys)
        /\ frameChan \in Seq(FrameItems) /\ filter \in SUBSET Locations
        /\ counted \in SUBSET EventKeys
        /\ \/ t \in stored /\ frames' = q /\ counted' = counted \cup {k}
           \/ frames' = frames /\ counted' = counted
        /\ eventChan' = Tail(eventChan)
        /\ UNCHANGED <<tpc, filter, unread, frameChan, cached, newTrace, locs,
                       locChan, seen, zelf, withChildren>>
    BY DEF LookupTrace, CanLookup, FramesOf, counts, TopInv, TopTypes
  <1>2. /\ k \in EventKeys /\ Tail(eventChan) \in Seq(EventKeys) /\ k = eventChan[1]
        /\ Len(eventChan) \in Nat \ {0} /\ Len(Tail(eventChan)) = Len(eventChan) - 1
        /\ \A i \in 1 .. Len(eventChan) - 1 : Tail(eventChan)[i] = eventChan[i + 1]
    BY <1>1
  <1> HIDE DEF k
  <1>3. q \in Seq(FrameItems)
    <2> SUFFICES ChainOf # {}
      <3>1. \A c \in ChainOf : FramesOf(Sample[k].trace) \in Seq(FrameItems)
        BY <1>1, <1>2, TraceBlocks
      <3>2. QED
        BY <3>1
    <2> DEFINE c == [f \in Frames |-> CHOOSE p \in Chains[f] : TRUE]
    <2>1. \A f \in Frames : c[f] \in Chains[f]
      BY ProfileAssumption
    <2>2. c \in ChainOf
      BY <2>1 DEF ChainOf
    <2>3. QED
      BY <2>2
  <1> HIDE DEF q
  <1>4. TopTypes'
    <2>1. frames' \in Seq(FrameItems)
      <3>1. frames' = frames \/ frames' = q
        BY <1>1
      <3>2. frames \in Seq(FrameItems)
        BY DEF TopInv, TopTypes
      <3>3. QED
        BY <1>3, <3>1, <3>2
    <2>2. counted' \in SUBSET EventKeys
      <3>1. counted' = counted \/ counted' = counted \cup {k}
        BY <1>1
      <3>2. QED
        BY <1>1, <1>2, <3>1
    <2>3. QED
      BY <1>1, <1>2, <2>1, <2>2 DEF TopTypes, TopInv
  <1>5. k \notin unread \cup counted /\ \A i \in 1 .. Len(eventChan) - 1 : eventChan[i + 1] # k
    <2>1. 1 \in 1 .. Len(eventChan) /\ \A i \in 1 .. Len(eventChan) - 1 : i + 1 \in 1 .. Len(eventChan) /\ i + 1 # 1
      BY <1>2
    <2>2. QED
      BY <1>2, <2>1 DEF EventsOnce, TopInv
  <1>6. EventsOnce'
    <2> DEFINE n == Len(eventChan) - 1
    <2>1. EventsOnce /\ counted' \subseteq counted \cup {k} /\ unread' = unread
      BY <1>1 DEF TopInv
    <2>2. /\ Len(eventChan') = n /\ \A i \in 1 .. n : eventChan'[i] = eventChan[i + 1]
          /\ \A i \in 1 .. n : i + 1 \in 1 .. Len(eventChan)
          /\ \A i, j \in 1 .. n : i + 1 = j + 1 => i = j
      BY <1>1, <1>2
    <2> HIDE DEF n
    <2>3. ASSUME NEW i \in 1 .. n, NEW j \in 1 .. n, eventChan'[i] = eventChan'[j]
          PROVE  i = j
      <3>1. eventChan[i + 1] = eventChan[j + 1] /\ i + 1 \in 1 .. Len(eventChan)
            /\ j + 1 \in 1 .. Len(eventChan)
        BY <2>2, <2>3
      <3>2. i + 1 = j + 1
        BY <2>1, <3>1 DEF EventsOnce
      <3>3. QED
        BY <2>2, <3>2
    <2>4. \A i \in 1 .. n : eventChan'[i] \notin unread' \cup counted'
      BY <1>5, <2>1, <2>2 DEF EventsOnce, n
    <2>5. unread' \cap counted' = {}
      BY <1>5, <2>1 DEF EventsOnce
    <2>6. QED
      BY <2>2, <2>3, <2>4, <2>5 DEF EventsOnce
  <1>7. frameChan \o frames = frameChan /\ frameChan \o q \in Seq(FrameItems)
    BY <1>1, <1>3
  <1>8. FramesMet'
    <2>1. CASE frames' = frames /\ counted' = counted
      BY <1>1, <2>1 DEF FramesMet, TopInv
    <2>2. CASE t \in stored /\ frames' = q /\ counted' = counted \cup {k}
      <3> DEFINE r == frameChan \o q
                 m == Len(frameChan)
      <3>1. /\ m \in Nat /\ Len(q) \in Nat /\ Len(r) = m + Len(q)
            /\ \A i \in 1 .. m : r[i] = frameChan[i]
            /\ \A i \in 1 .. Len(q) : r[m + i] = q[i]
        BY <1>1, <1>3
      <3> HIDE DEF r
      <3>2. ASSUME NEW j \in counted, NEW i \in DOMAIN Sample[j].trace
            PROVE  \/ Sample[j].trace[i] \in DOMAIN cached
                   \/ \E h \in 1 .. Len(r) : r[h].frame = Sample[j].trace[i]
        <4>1. \/ Sample[j].trace[i] \in DOMAIN cached
              \/ \E h \in 1 .. m : frameChan[h].frame = Sample[j].trace[i]
          <5>1. PICK p : p = frameChan \o frames
            OBVIOUS
          <5>2. \/ Sample[j].trace[i] \in DOMAIN cached
                \/ \E h \in 1 .. Len(p) : p[h].frame = Sample[j].trace[i]
            BY <3>2, <5>1, Zenon DEF FramesMet, TopInv
          <5>3. p = frameChan
            BY <1>7, <5>1
          <5>4. QED
            BY <5>2, <5>3
        <4>2. \A h \in 1 .. m : h \in 1 .. Len(r)
          BY <3>1
        <4>3. QED
          BY <3>1, <4>1, <4>2
      <3>3. ASSUME NEW i \in DOMAIN t
            PROVE  \E h \in 1 .. Len(r) : r[h].frame = t[i]
        <4>1. q[i].frame = t[i] /\ DOMAIN q = DOMAIN t
          BY <3>3 DEF q, FramesOf
        <4>2. DOMAIN q = 1 .. Len(q)
          BY <1>3
        <4>3. m + i \in 1 .. Len(r) /\ r[m + i] = q[i]
          BY <3>1, <4>1, <4>2
        <4>4. QED
          BY <4>1, <4>3
      <3>4. frameChan' \o frames' = r
        BY <1>1, <2>2 DEF r
      <3>5. cached' = cached /\ \A j \in counted' : j \in counted \/ j = k
        BY <1>1, <2>2
      <3>6. ASSUME NEW j \in counted', NEW i \in DOMAIN Sample[j].trace
            PROVE  \/ Sample[j].trace[i] \in DOMAIN cached'
                   \/ \E h \in 1 .. Len(r) : r[h].frame = Sample[j].trace[i]
        <4>1. CASE j \in counted
          BY <3>2, <3>5, <4>1
        <4>2. CASE j = k
          BY <3>3, <3>6, <4>2
        <4>3. QED
          BY <3>5, <4>1, <4>2
      <3>7. QED
        BY <3>4, <3>6, Zenon DEF FramesMet
    <2>3. QED
      BY <1>1, <2>1, <2>2
  <1>9. Resting'
    <2>1. tpc = "query"
      BY <1>1 DEF TopInv, Resting, Finished, TopTypes
    <2>2. QED
      BY <1>1, <2>1 DEF Resting
  <1>10. PipeInv'
    <2>1. CASE frames' = frames /\ counted' = counted
      BY <1>1, <2>1, PipeKept DEF TopInv
    <2>2. CASE t \in stored /\ frames' = q /\ counted' = counted \cup {k}
      <3> SUFFICES ASSUME NEW c \in ChainOf, Extends(c)'
                   PROVE  \E fin \in Tallies : Yields(Pipe(c)', Now', fin) /\ Right(c, fin)'
        BY DEF PipeInv
      <3> DEFINE L == LocBlocks(locChan)
                 F == FrameBlocks(frameChan, c, filter)
                 T == BlocksOf(k, c)
      <3>1. Extends(c)
        BY <1>1 DEF Extends
      <3>2. PICK old \in Tallies : Yields(Pipe(c), Now, old) /\ Right(c, old)
        BY <3>1 DEF PipeInv, TopInv
      <3>3. L \in Seq(Blocks) /\ Held \in Blocks /\ F \in Seq(Blocks) /\ Now \in Tallies
        BY <1>7, PipeTyped DEF TopInv
      <3>4. T \in Seq(Blocks) /\ IsTrace(T)
        BY <1>1, <1>2, TraceBlocks DEF IsTrace, BlocksOf
      <3>5. FrameBlocks(frameChan \o q, c, filter) = F \o T
        BY <1>1, <1>3, FrameBlocksConcat DEF BlocksOf, q
      <3>6. Pipe(c) = L \o <<Held>> \o F
        BY <1>7 DEF Pipe
      <3>7. Pipe(c)' = L \o <<Held>> \o (F \o T) /\ Now' = Now
        BY <1>1, <2>2, <3>5 DEF Pipe, Held, Now
      <3>8. PICK fin \in Tallies :
              /\ Yields(T, old, fin)
              /\ \A l \in Locations :
                    /\ fin.with[l] = IF l \in MetIn(k, c) THEN old.with[l] + 1 ELSE old.with[l]
                    /\ fin.zelf[l] = IF LeadsIn(k, c, l) THEN old.zelf[l] + 1 ELSE old.zelf[l]
        BY <3>4, TraceYields DEF MetIn, LeadsIn
      <3> HIDE DEF L, F, T
      <3>9. Yields(Pipe(c)', Now', fin)
        <4>1. PICK mid \in Tallies : Yields(L, Now, mid) /\ Yields(F, Take(mid, Held), old)
          BY <3>2, <3>3, <3>6, PipeYields
        <4>2. Yields(F \o T, Take(mid, Held), fin)
          BY <3>3, <3>4, <3>8, <4>1, YieldsConcat
        <4>3. F \o T \in Seq(Blocks)
          BY <3>3, <3>4
        <4>4. QED
          BY <3>3, <3>7, <4>1, <4>2, <4>3, PipeYields
      <3>10. Right(c, fin)'
        <4>1. ASSUME NEW l \in Locations
              PROVE  /\ fin.with[l] = Cardinality({j \in counted' : l \in MetIn(j, c)})
                     /\ fin.zelf[l] = Cardinality({j \in counted' : LeadsIn(j, c, l)})
          <5> DEFINE A == {j \in counted : l \in MetIn(j, c)}
                     B == {j \in counted : LeadsIn(j, c, l)}
          <5>1. old.with[l] = Cardinality(A) /\ old.zelf[l] = Cardinality(B)
            BY <3>2 DEF Right
          <5>2. IsFiniteSet(A) /\ IsFiniteSet(B) /\ k \notin A /\ k \notin B
            <6>1. A \subseteq EventKeys /\ B \subseteq EventKeys
              BY <1>1
            <6>2. QED
              BY <1>5, <6>1, EventQueriesAssumption, FS_Subset
          <5>3. {j \in counted' : l \in MetIn(j, c)} = IF l \in MetIn(k, c) THEN A \cup {k} ELSE A
            BY <2>2
          <5>4. {j \in counted' : LeadsIn(j, c, l)} = IF LeadsIn(k, c, l) THEN B \cup {k} ELSE B
            BY <2>2
          <5> HIDE DEF A, B
          <5>5. Cardinality(A \cup {k}) = Cardinality(A) + 1 /\ Cardinality(B \cup {k}) = Cardinality(B) + 1
            BY <5>2, OneMore
          <5>6. QED
            BY <3>8, <5>1, <5>3, <5>4, <5>5
        <4>2. filter' = filter
          BY <1>1
        <4>3. QED
          BY <4>1, <4>2 DEF Right, MetIn, LeadsIn, BlocksOf
      <3>11. QED
        BY <3>9, <3>10
    <2>3. QED
      BY <1>1, <2>1, <2>2
  <1>11. QED
    BY <1>4, <1>6, <1>8, <1>9, <1>10 DEF TopInv

(* The table is shown when the threads are through.                         *)
LEMMA ShowStep ==
    ASSUME TopInv, ShowTop
    PROVE  TopInv'
  <1>1. /\ tpc' = "done" /\ Finished
        /\ UNCHANGED <<filter, unread, eventChan, frames, frameChan, cached, newTrace, locs,
                       locChan, seen, zelf, withChildren, counted>>
    BY DEF ShowTop, CanShow, pipe, counts
  <1>2. TopTypes'
    BY <1>1 DEF TopTypes, TopInv
  <1>3. EventsOnce' /\ FramesMet'
    BY <1>1 DEF EventsOnce, FramesMet, TopInv
  <1>4. Resting'
    BY <1>1 DEF Resting, Finished
  <1>5. PipeInv'
    BY <1>1, PipeKept DEF TopInv
  <1>6. QED
    BY <1>2, <1>3, <1>4, <1>5 DEF TopInv

(* A new query finds everything empty.                                      *)
LEMMA AskStep ==
    ASSUME TopInv, TablesOK, NEW q \in Ranges, NEW s \in Filters, AskTop(q, s)
    PROVE  TopInv'
  <1>1. /\ tpc = "idle" /\ tpc' \in {"query", "done"} /\ filter' = s
        /\ unread' = {} \/ (tpc' = "query" /\ unread' = TimeRange(events, Mixed, q.start, q.end))
        /\ UNCHANGED <<eventChan, frames, frameChan, cached, newTrace, locs, locChan,
                       seen, zelf, withChildren, counted>>
    BY DEF AskTop, counts
  <1>2. Finished /\ NothingYet
    BY <1>1 DEF Resting, TopInv
  <1>3. s \in SUBSET Locations
    BY TopFuncsAssumption
  <1>4. unread' \in SUBSET EventKeys
    BY <1>1 DEF TimeRange, TablesOK
  <1>5. TopTypes'
    BY <1>1, <1>3, <1>4 DEF TopTypes, TopInv
  <1>6. EventsOnce' /\ FramesMet'
    <2>1. 1 .. Len(<<>>) = {}
      OBVIOUS
    <2>2. QED
      BY <1>1, <1>2, <2>1 DEF EventsOnce, FramesMet, Finished, NothingYet
  <1>7. Resting'
    BY <1>1, <1>2 DEF Resting, Finished
  <1>8. PipeInv'
    <2> SUFFICES ASSUME NEW c \in ChainOf
                 PROVE  \E fin \in Tallies : Yields(Pipe(c)', Now', fin) /\ Right(c, fin)'
      BY DEF PipeInv
    <2>1. Held \in Blocks /\ Now \in Tallies /\ Held.locs = <<>>
      BY <1>2, PipeTyped DEF Held, TopInv, Finished
    <2>2. Pipe(c)' = <<>> \o <<Held>> \o <<>> /\ Now' = Now
      <3>1. frameChan' \o frames' = <<>> /\ locChan' = <<>>
        BY <1>1, <1>2 DEF Finished
      <3>2. Held' = Held /\ Now' = Now
        BY <1>1 DEF Held, Now
      <3> HIDE DEF Held
      <3>3. QED
        BY <1>1, <1>3, <3>1, <3>2, BlocksNone DEF Pipe
    <2>3. PICK fin \in Tallies : /\ Yields(Pipe(c)', Now', fin)
                                 /\ fin.with = Now.with /\ fin.zelf = Now.zelf
      BY <2>1, <2>2, NothingYields
    <2>4. fin.with = Zero /\ fin.zelf = Zero /\ counted' = {} /\ Cardinality({}) = 0
      BY <1>1, <1>2, <2>3, FS_EmptySet DEF Now, NothingYet
    <2>5. Right(c, fin)'
      BY <2>4 DEF Right, Zero
    <2>6. QED
      BY <2>3, <2>5
  <1>9. QED
    BY <1>5, <1>6, <1>7, <1>8 DEF TopInv

(* What is dropped leaves everything empty.                                 *)
LEMMA DropTopStep ==
    ASSUME TopInv, DropTop
    PROVE  TopInv'
  <1>1. /\ tpc = "done" /\ tpc' = "idle" /\ filter' = Locations /\ cached' = <<>>
        /\ newTrace' = FALSE /\ seen' = {} /\ zelf' = Zero /\ withChildren' = Zero /\ counted' = {}
        /\ UNCHANGED <<unread, eventChan, frames, frameChan, locs, locChan>>
    BY DEF DropTop
  <1>2. Finished
    BY <1>1 DEF Resting, TopInv
  <1>3. TopTypes'
    <2>1. Zero \in [Locations -> Nat] /\ DOMAIN <<>> = {}
      BY DEF Zero
    <2>2. QED
      BY <1>1, <2>1 DEF TopTypes, TopInv
  <1>4. EventsOnce' /\ FramesMet'
    <2>1. 1 .. Len(<<>>) = {}
      OBVIOUS
    <2>2. QED
      BY <1>1, <1>2, <2>1 DEF EventsOnce, FramesMet, Finished
  <1>5. Resting'
    BY <1>1, <1>2 DEF Resting, Finished, NothingYet
  <1>6. PipeInv'
    <2> SUFFICES ASSUME NEW c \in ChainOf
                 PROVE  \E fin \in Tallies : Yields(Pipe(c)', Now', fin) /\ Right(c, fin)'
      BY DEF PipeInv
    <2> DEFINE h == [new |-> FALSE, locs |-> <<>>]
               st == [seen |-> {}, fresh |-> FALSE, zelf |-> Zero, with |-> Zero]
    <2>1. h \in Blocks /\ st \in Tallies
      BY DEF Blocks, Tallies, Zero
    <2>2. Pipe(c)' = <<>> \o <<h>> \o <<>> /\ Now' = st
      <3>1. frameChan' \o frames' = <<>> /\ locChan' = <<>>
        BY <1>1, <1>2 DEF Finished
      <3>2. Held' = h /\ Now' = st
        BY <1>1, <1>2 DEF Held, Now, Finished
      <3> HIDE DEF h
      <3>3. Locations \in SUBSET Locations
        OBVIOUS
      <3>4. QED
        BY <1>1, <3>1, <3>2, <3>3, BlocksNone DEF Pipe
    <2>3. PICK fin \in Tallies : /\ Yields(Pipe(c)', Now', fin)
                                 /\ fin.with = st.with /\ fin.zelf = st.zelf
      BY <2>1, <2>2, NothingYields
    <2>4. fin.with = Zero /\ fin.zelf = Zero /\ counted' = {} /\ Cardinality({}) = 0
      BY <1>1, <2>3, FS_EmptySet
    <2>5. Right(c, fin)'
      BY <2>4 DEF Right, Zero
    <2>6. QED
      BY <2>3, <2>5
  <1>7. QED
    BY <1>3, <1>4, <1>5, <1>6 DEF TopInv

(* The blocks of an event whose frames have been looked up, in terms of the  *)
(* places in their chains.                                                   *)
LEMMA EventPlaces ==
    ASSUME TopTypes, NEW k \in EventKeys, NEW c \in ChainOf, Extends(c),
           \A i \in DOMAIN Sample[k].trace : Sample[k].trace[i] \in DOMAIN cached,
           NEW l \in Locations
    PROVE  /\ l \in MetIn(k, c) <=> \E p \in Matching(k) : At(k, p) = l
           /\ LeadsIn(k, c, l) <=>
                 \E p \in Matching(k) : /\ At(k, p) = l
                                        /\ \A q \in Matching(k) : ~Inside(q, p)
  <1> DEFINE t == Sample[k].trace
             n == Len(t)
             T == BlocksOf(k, c)
             ch(i) == cached[t[i]]
             Mat(i, h) == i \in 1 .. n /\ h \in 1 .. Len(ch(i)) /\ Shows(ch(i)[h], filter)
  <1>1. t \in Seq(Frames) /\ filter \in SUBSET Locations
    BY ProfileAssumption DEF Traces, TopTypes
  <1>2. n \in Nat /\ DOMAIN t = 1 .. n /\ \A i \in 1 .. n : t[i] \in Frames
    BY <1>1
  <1>3. Len(T) = n /\ \A i \in 1 .. n : T[i].locs = Sent(ch(i), filter)
    <2> DEFINE q == FramesOf(t)
    <2>1. q \in Seq(FrameItems)
      BY TraceBlocks
    <2>2. DOMAIN q = 1 .. n /\ \A i \in 1 .. n : q[i].frame = t[i]
      BY <1>2 DEF FramesOf
    <2>3. Len(q) = n
      BY <1>2, <2>1, <2>2
    <2> HIDE DEF q
    <2>4. Len(T) = n
      BY <1>1, <2>1, <2>3, FrameBlocksType DEF BlocksOf, q
    <2>5. \A i \in 1 .. n : T[i].locs = Sent(c[t[i]], filter)
      BY <2>2, <2>3 DEF BlocksOf, FrameBlocks, q
    <2>6. \A i \in 1 .. n : c[t[i]] = cached[t[i]]
      BY <1>2 DEF Extends
    <2>7. QED
      BY <2>4, <2>5, <2>6
  <1>4. ASSUME NEW i \in 1 .. n
        PROVE  /\ Len(ch(i)) \in Nat /\ DOMAIN ch(i) = 1 .. Len(ch(i))
               /\ T[i].locs \in Seq(Locations)
               /\ \A x : x \in Range(T[i].locs) <=>
                           \E h \in 1 .. Len(ch(i)) : ch(i)[h] = x /\ Shows(x, filter)
               /\ T[i].locs # <<>> =>
                     \E h \in 1 .. Len(ch(i)) :
                        /\ T[i].locs[1] = ch(i)[h] /\ Shows(ch(i)[h], filter)
                        /\ \A j \in h + 1 .. Len(ch(i)) : ~Shows(ch(i)[j], filter)
    <2>1. t[i] \in Frames /\ ch(i) \in Chains[t[i]]
      BY <1>2 DEF TopTypes
    <2> DEFINE p == ch(i)
    <2>2. /\ Sent(p, filter) \in Seq(Locations)
          /\ Range(Sent(p, filter)) = {x \in Range(p) : Shows(x, filter)}
          /\ Sent(p, filter) # <<>> =>
                 \E h \in 1 .. Len(p) :
                    /\ Sent(p, filter)[1] = p[h] /\ Shows(p[h], filter)
                    /\ \A j \in h + 1 .. Len(p) : ~Shows(p[j], filter)
          /\ p \in Seq(Range(p))
      BY <1>1, <2>1, SentLocations
    <2>3. T[i].locs = Sent(p, filter)
      BY <1>3
    <2> HIDE DEF p, T
    <2>4. Len(p) \in Nat /\ DOMAIN p = 1 .. Len(p)
      BY <2>2
    <2>5. \A x : x \in Range(p) <=> \E h \in 1 .. Len(p) : p[h] = x
      BY <2>4 DEF Range
    <2>6. QED
      BY <2>2, <2>3, <2>4, <2>5 DEF p
  <1>5. \A i, h : Mat(i, h) => <<i, h>> \in Matching(k) /\ At(k, <<i, h>>) = ch(i)[h]
    <2> SUFFICES ASSUME NEW i, NEW h, Mat(i, h)
                 PROVE  <<i, h>> \in Matching(k) /\ At(k, <<i, h>>) = ch(i)[h]
      OBVIOUS
    <2>1. <<i, h>>[1] = i /\ <<i, h>>[2] = h
      OBVIOUS
    <2>2. At(k, <<i, h>>) = ch(i)[h]
      BY <2>1, Zenon DEF At
    <2>3. <<i, h>> \in Places(k)
      BY <1>2, <1>4 DEF Places
    <2>4. QED
      BY <2>2, <2>3 DEF Matching, Shows
  <1>6. ASSUME NEW p \in Matching(k)
        PROVE  \E i, h : p = <<i, h>> /\ Mat(i, h)
    <2>1. PICK i \in 1 .. n : p \in {i} \X DOMAIN ch(i)
      BY <1>2 DEF Matching, Places
    <2>2. PICK h \in 1 .. Len(ch(i)) : p = <<i, h>>
      BY <1>4, <2>1
    <2>3. <<i, h>>[1] = i /\ <<i, h>>[2] = h
      OBVIOUS
    <2>4. At(k, p) = ch(i)[h]
      BY <2>2, <2>3 DEF At
    <2>5. Shows(ch(i)[h], filter)
      BY <2>4 DEF Matching, Shows
    <2>6. QED
      BY <2>2, <2>5
  <1>7. \A i, h, a, b : Inside(<<a, b>>, <<i, h>>) <=> a < i \/ (a = i /\ b > h)
    BY DEF Inside
  <1> HIDE DEF t, n, T, ch
  <1>8. l \in MetIn(k, c) <=> \E i, h : Mat(i, h) /\ ch(i)[h] = l
    <2>1. l \in MetIn(k, c) <=> \E i \in 1 .. n : l \in Range(T[i].locs)
      BY <1>3 DEF MetIn, Met, T
    <2>2. \A i \in 1 .. n : l \in Range(T[i].locs) <=>
             \E h \in 1 .. Len(ch(i)) : ch(i)[h] = l /\ Shows(l, filter)
      BY <1>4
    <2>3. QED
      BY <2>1, <2>2
  <1>9. LeadsIn(k, c, l) <=>
           \E i, h : /\ Mat(i, h) /\ ch(i)[h] = l
                     /\ \A a, b : Mat(a, b) => ~(a < i \/ (a = i /\ b > h))
    <2>1. LeadsIn(k, c, l) <=>
             \E i \in 1 .. n : /\ T[i].locs # <<>> /\ T[i].locs[1] = l
                               /\ \A j \in 1 .. i - 1 : T[j].locs = <<>>
      BY <1>3 DEF LeadsIn, Leads, T
    <2>2. ASSUME NEW i \in 1 .. n, T[i].locs = <<>>, NEW h
          PROVE  ~Mat(i, h)
      <3>1. Range(<<>>) = {}
        BY DEF Range
      <3>2. QED
        BY <1>4, <2>2, <3>1
    <2>3. ASSUME NEW i \in 1 .. n, T[i].locs # <<>>, T[i].locs[1] = l,
                 \A j \in 1 .. i - 1 : T[j].locs = <<>>
          PROVE  \E h : /\ Mat(i, h) /\ ch(i)[h] = l
                        /\ \A a, b : Mat(a, b) => ~(a < i \/ (a = i /\ b > h))
      <3>1. PICK h \in 1 .. Len(ch(i)) :
               /\ l = ch(i)[h] /\ Shows(ch(i)[h], filter)
               /\ \A j \in h + 1 .. Len(ch(i)) : ~Shows(ch(i)[j], filter)
        BY <1>4, <2>3
      <3>2. ASSUME NEW a, NEW b, Mat(a, b) PROVE ~(a < i \/ (a = i /\ b > h))
        <4>1. a < i => a \in 1 .. i - 1 /\ a \in 1 .. n
          BY <1>2, <3>2
        <4>2. ~(a < i)
          BY <2>2, <2>3, <3>2, <4>1
        <4>3. ~(a = i /\ b > h)
          <5> SUFFICES ASSUME a = i, b > h PROVE FALSE
            OBVIOUS
          <5>1. b \in h + 1 .. Len(ch(i))
            BY <1>4, <3>2
          <5>2. QED
            BY <3>1, <3>2, <5>1
        <4>4. QED
          BY <4>2, <4>3
      <3>3. QED
        BY <3>1, <3>2
    <2>4. ASSUME NEW i, NEW h, Mat(i, h), ch(i)[h] = l,
                 \A a, b : Mat(a, b) => ~(a < i \/ (a = i /\ b > h))
          PROVE  /\ i \in 1 .. n /\ T[i].locs # <<>> /\ T[i].locs[1] = l
                 /\ \A j \in 1 .. i - 1 : T[j].locs = <<>>
      <3>1. i \in 1 .. n /\ T[i].locs # <<>>
        BY <2>2, <2>4
      <3>2. PICK g \in 1 .. Len(ch(i)) :
               /\ T[i].locs[1] = ch(i)[g] /\ Shows(ch(i)[g], filter)
               /\ \A j \in g + 1 .. Len(ch(i)) : ~Shows(ch(i)[j], filter)
        BY <1>4, <3>1
      <3>3. ~(g > h)
        <4>1. Mat(i, g)
          BY <3>1, <3>2
        <4>2. QED
          BY <2>4, <4>1
      <3>4. ~(g < h)
        <4>1. g < h => h \in g + 1 .. Len(ch(i))
          BY <1>4, <2>4, <3>1
        <4>2. QED
          BY <2>4, <3>2, <4>1
      <3>5. g = h
        BY <1>4, <2>4, <3>1, <3>3, <3>4
      <3>6. ASSUME NEW j \in 1 .. i - 1 PROVE T[j].locs = <<>>
        <4>1. j \in 1 .. n /\ j < i
          BY <1>2, <3>1
        <4>2. T[j].locs # <<>> => \E b : Mat(j, b)
          BY <1>4, <4>1
        <4>3. QED
          BY <2>4, <4>1, <4>2
      <3>7. QED
        BY <2>4, <3>1, <3>2, <3>5, <3>6
    <2> HIDE DEF Mat
    <2>5. QED
      BY <2>1, <2>3, <2>4
  <1> HIDE DEF Mat
  <1>10. (\E p \in Matching(k) : At(k, p) = l) <=> \E i, h : Mat(i, h) /\ ch(i)[h] = l
    <2>1. ASSUME NEW p \in Matching(k), At(k, p) = l
          PROVE  \E i, h : Mat(i, h) /\ ch(i)[h] = l
      <3>1. PICK i, h : p = <<i, h>> /\ Mat(i, h)
        BY <1>6
      <3>2. QED
        BY <1>5, <2>1, <3>1
    <2>2. ASSUME NEW i, NEW h, Mat(i, h), ch(i)[h] = l
          PROVE  \E p \in Matching(k) : At(k, p) = l
      BY <1>5, <2>2
    <2>3. QED
      BY <2>1, <2>2
  <1>11. (\E p \in Matching(k) : /\ At(k, p) = l
                                 /\ \A q \in Matching(k) : ~Inside(q, p)) <=>
           \E i, h : /\ Mat(i, h) /\ ch(i)[h] = l
                     /\ \A a, b : Mat(a, b) => ~(a < i \/ (a = i /\ b > h))
    <2>1. ASSUME NEW p \in Matching(k), At(k, p) = l, \A q \in Matching(k) : ~Inside(q, p)
          PROVE  \E i, h : /\ Mat(i, h) /\ ch(i)[h] = l
                           /\ \A a, b : Mat(a, b) => ~(a < i \/ (a = i /\ b > h))
      <3>1. PICK i, h : p = <<i, h>> /\ Mat(i, h)
        BY <1>6
      <3>2. ch(i)[h] = l
        BY <1>5, <2>1, <3>1
      <3>3. ASSUME NEW a, NEW b, Mat(a, b) PROVE ~(a < i \/ (a = i /\ b > h))
        <4>1. <<a, b>> \in Matching(k)
          BY <1>5, <3>3
        <4>2. ~Inside(<<a, b>>, <<i, h>>)
          BY <2>1, <3>1, <4>1
        <4>3. QED
          BY <1>7, <4>2
      <3>4. QED
        BY <3>1, <3>2, <3>3
    <2>2. ASSUME NEW i, NEW h, Mat(i, h), ch(i)[h] = l,
                 \A a, b : Mat(a, b) => ~(a < i \/ (a = i /\ b > h))
          PROVE  \E p \in Matching(k) : /\ At(k, p) = l
                                        /\ \A q \in Matching(k) : ~Inside(q, p)
      <3>1. <<i, h>> \in Matching(k) /\ At(k, <<i, h>>) = l
        BY <1>5, <2>2
      <3>2. ASSUME NEW q \in Matching(k) PROVE ~Inside(q, <<i, h>>)
        <4>1. PICK a, b : q = <<a, b>> /\ Mat(a, b)
          BY <1>6
        <4>2. QED
          BY <1>7, <2>2, <4>1
      <3>3. QED
        BY <3>1, <3>2
    <2>3. QED
      BY <2>1, <2>2
  <1>12. QED
    BY <1>8, <1>9, <1>10, <1>11

(* When the threads are through, the table is right. *)
LEMMA TopShown == ASSUME TopInv PROVE TopExact
  <1> SUFFICES ASSUME tpc = "done", NEW l \in Locations
               PROVE  /\ withChildren[l] =
                            Cardinality({k \in counted : {p \in Matching(k) : At(k, p) = l} # {}})
                      /\ zelf[l] =
                            Cardinality({k \in counted :
                               \E p \in {p \in Matching(k) : At(k, p) = l} :
                                  \A q \in Matching(k) : ~Inside(q, p)})
    BY DEF TopExact
  <1>1. Finished /\ TopTypes
    BY DEF TopInv, Resting
  <1> DEFINE c == [f \in Frames |-> IF f \in DOMAIN cached THEN cached[f]
                                    ELSE CHOOSE p \in Chains[f] : TRUE]
  <1>2. c \in ChainOf /\ Extends(c)
    <2>1. \A f \in Frames : c[f] \in Chains[f]
      BY <1>1, ProfileAssumption DEF TopTypes
    <2>2. c \in ChainOf
      BY <2>1 DEF ChainOf
    <2>3. Extends(c)
      BY <1>1 DEF Extends, TopTypes
    <2>4. QED
      BY <2>2, <2>3
  <1> HIDE DEF c
  <1>3. PICK fin \in Tallies : Yields(Pipe(c), Now, fin) /\ Right(c, fin)
    BY <1>2 DEF PipeInv, TopInv
  <1>4. fin.with = withChildren /\ fin.zelf = zelf
    <2>1. Held \in Blocks /\ Now \in Tallies /\ Held.locs = <<>>
      BY <1>1, <1>2, PipeTyped DEF Held, Finished
    <2>2. Pipe(c) = <<>> \o <<Held>> \o <<>>
      <3>1. frameChan \o frames = <<>> /\ locChan = <<>>
        BY <1>1 DEF Finished
      <3>2. filter \in SUBSET Locations
        BY <1>1 DEF TopTypes
      <3> HIDE DEF Held
      <3>3. QED
        BY <1>2, <3>1, <3>2, BlocksNone DEF Pipe
    <2>3. PICK none : none = <<>>
      OBVIOUS
    <2>4. none \in Seq(Blocks) /\ Take(Now, Held) \in Tallies
      BY <2>1, <2>3, TakeType
    <2>5. PICK mid \in Tallies : Yields(none, Now, mid) /\ Yields(none, Take(mid, Held), fin)
      <3>1. Yields(none \o <<Held>> \o none, Now, fin)
        BY <1>3, <2>2, <2>3
      <3> HIDE DEF Held, Now
      <3>2. QED
        BY <2>1, <2>4, <3>1, PipeYields
    <2>6. mid = Now
      BY <2>1, <2>3, <2>5, YieldsNone
    <2>7. fin = Take(Now, Held)
      BY <2>3, <2>4, <2>5, <2>6, YieldsNone
    <2>8. QED
      BY <2>1, <2>7 DEF Take, Now
  <1>5. ASSUME NEW k \in counted
        PROVE  /\ l \in MetIn(k, c) <=> \E p \in Matching(k) : At(k, p) = l
               /\ LeadsIn(k, c, l) <=>
                     \E p \in Matching(k) : /\ At(k, p) = l
                                            /\ \A q \in Matching(k) : ~Inside(q, p)
    <2>1. k \in EventKeys
      BY <1>1 DEF TopTypes
    <2>2. \A i \in DOMAIN Sample[k].trace : Sample[k].trace[i] \in DOMAIN cached
      <3>1. PICK q : q = frameChan \o frames
        OBVIOUS
      <3>2. q = <<>>
        BY <1>1, <3>1 DEF Finished
      <3>3. 1 .. Len(q) = {}
        BY <3>2
      <3>4. \A i \in DOMAIN Sample[k].trace :
               \/ Sample[k].trace[i] \in DOMAIN cached
               \/ \E j \in 1 .. Len(q) : q[j].frame = Sample[k].trace[i]
        BY <3>1, Zenon DEF FramesMet, TopInv
      <3>5. QED
        BY <3>3, <3>4
    <2>3. QED
      BY <1>1, <1>2, <2>1, <2>2, EventPlaces
  <1>6. {k \in counted : l \in MetIn(k, c)}
           = {k \in counted : {p \in Matching(k) : At(k, p) = l} # {}}
    BY <1>5
  <1>7. {k \in counted : LeadsIn(k, c, l)}
           = {k \in counted : \E p \in {p \in Matching(k) : At(k, p) = l} :
                                  \A q \in Matching(k) : ~Inside(q, p)}
    BY <1>5
  <1>8. /\ fin.with[l] = Cardinality({k \in counted : l \in MetIn(k, c)})
        /\ fin.zelf[l] = Cardinality({k \in counted : LeadsIn(k, c, l)})
    BY <1>3 DEF Right
  <1>9. QED
    BY <1>4, <1>6, <1>7, <1>8

-----------------------------------------------------------------------------
(* All views.                                                              *)

(* Whatever happens, each frame has one of its chains.                      *)
LEMMA TablesStep == TablesOK /\ [ViewsNext]_<<vars, views, apart>> => TablesOK'
  <1> SUFFICES ASSUME TablesOK, [ViewsNext]_<<vars, views, apart>> PROVE TablesOK'
    OBVIOUS
  <1>1. ASSUME UNCHANGED <<events, chain>> PROVE TablesOK'
    BY <1>1 DEF TablesOK
  <1>2. ASSUME Opened, UNCHANGED events PROVE TablesOK'
    BY <1>2 DEF TablesOK, Opened, ChainOf
  <1>3. ASSUME TablesChange, UNCHANGED events PROVE TablesOK'
    BY <1>3 DEF TablesOK, TablesChange, Symbolized, Flushed, ChainOf
  <1>4. ASSUME chain' = AnyChain, UNCHANGED events PROVE TablesOK'
    BY <1>4, ProfileAssumption DEF TablesOK, AnyChain, ChainOf
  <1>5. ASSUME Collect, UNCHANGED views PROVE TablesOK'
    BY <1>5 DEF Collect, Insert, views, tables, TablesOK
  <1>6. ASSUME Query, UNCHANGED views PROVE TablesOK'
    <2>1. chain' = chain
      BY <1>6 DEF views, tables
    <2>2. events' = events
      BY <1>6 DEF Query, AskNothing, AskBuckets, AskHeatmap, CountEvent, FillCell, Finish, Return
    <2>3. QED
      BY <1>1, <2>1, <2>2
  <1>7. ASSUME FlameNext, UNCHANGED vars PROVE TablesOK'
    <2>1. events' = events
      BY <1>7 DEF vars
    <2>2. ASSUME NEW q \in Ranges, NEW i \in BOOLEAN, AskFlame(q, i) PROVE TablesOK'
      BY <1>2, <2>1, <2>2 DEF AskFlame
    <2>3. ASSUME NEW p, Sandwich(p) PROVE TablesOK'
      BY <1>1, <2>1, <2>3 DEF Sandwich, tables
    <2>4. CASE SkipEvent \/ InsertTrace \/ PassFrame \/ AddFrame \/ ShowGraph \/ LeaveSandwich
      BY <1>1, <2>1, <2>4 DEF SkipEvent, InsertTrace, PassFrame, AddFrame, ShowGraph,
                              LeaveSandwich, tables
    <2>5. CASE DropGraph
      BY <1>4, <2>1, <2>5 DEF DropGraph
    <2>6. CASE TablesChange
      BY <1>3, <2>1, <2>6
    <2>7. QED
      BY <1>7, <2>2, <2>3, <2>4, <2>5, <2>6 DEF FlameNext
  <1>8. ASSUME TopNext, UNCHANGED vars PROVE TablesOK'
    <2>1. events' = events
      BY <1>8 DEF vars
    <2>2. ASSUME NEW q \in Ranges, NEW s \in Filters, AskTop(q, s) PROVE TablesOK'
      BY <1>2, <2>1, <2>2 DEF AskTop
    <2>3. CASE Threads
      BY <1>1, <2>1, <2>3 DEF Threads, SendEvent, LookupTrace, SendFrame, SymbolizeFrame,
                              SendLocation, Count, ShowTop, tables
    <2>4. CASE DropTop
      BY <1>4, <2>1, <2>4 DEF DropTop
    <2>5. CASE TablesChange
      BY <1>3, <2>1, <2>5
    <2>6. QED
      BY <1>8, <2>2, <2>3, <2>4, <2>5 DEF TopNext
  <1>9. ASSUME FreqNext, UNCHANGED vars PROVE TablesOK'
    <2>1. events' = events
      BY <1>9 DEF vars
    <2>2. chain' = chain
      BY <1>9 DEF FreqNext, AskFreq, FoldEvent, DropFreq, Flushed, tables
    <2>3. QED
      BY <1>1, <2>1, <2>2
  <1>10. CASE UNCHANGED <<vars, views>>
    BY <1>1, <1>10 DEF vars, views, tables
  <1>11. QED
    BY <1>5, <1>6, <1>7, <1>8, <1>9, <1>10 DEF ViewsNext, TablesNext

(* Every step of the views keeps the invariant of the threads.              *)
LEMMA TopStep == TopInv /\ TablesOK /\ [ViewsNext]_<<vars, views, apart>> => TopInv'
  <1> SUFFICES ASSUME TopInv, TablesOK, [ViewsNext]_<<vars, views, apart>> PROVE TopInv'
    OBVIOUS
  <1>1. ASSUME UNCHANGED topFuncs PROVE TopInv'
    <2>1. UNCHANGED <<tpc, filter, unread, eventChan, frames, frameChan, cached, newTrace, locs,
                      locChan, seen, zelf, withChildren, counted>>
      BY <1>1 DEF topFuncs, pipe, counts
    <2>2. TopTypes'
      BY <2>1 DEF TopTypes, TopInv
    <2>3. EventsOnce' /\ FramesMet'
      BY <2>1 DEF EventsOnce, FramesMet, TopInv
    <2>4. Resting'
      BY <2>1 DEF Resting, Finished, NothingYet, TopInv
    <2>5. PipeInv'
      BY <2>1, PipeKept DEF TopInv
    <2>6. QED
      BY <2>2, <2>3, <2>4, <2>5 DEF TopInv
  <1>2. CASE UNCHANGED topFuncs
    BY <1>1, <1>2
  <1>3. CASE TopNext
    <2>1. ASSUME NEW q \in Ranges, NEW s \in Filters, AskTop(q, s) PROVE TopInv'
      BY <2>1, AskStep
    <2>2. CASE Threads
      BY <2>2, SendEventStep, LookupStep, SendFrameStep, SymbolizeStep, SendLocationStep,
         CountStep, ShowStep DEF Threads
    <2>3. CASE DropTop
      BY <2>3, DropTopStep
    <2>4. QED
      BY <1>1, <1>3, <2>1, <2>2, <2>3 DEF TopNext
  <1>4. QED
    BY <1>2, <1>3 DEF ViewsNext, TablesNext, views

(* The invariant of the threads holds, whatever the other views do.          *)
LEMMA TopInvariant == ViewsSpec => [](TopInv /\ TablesOK)
  <1>1. ViewsInit => TopInv /\ TablesOK
    BY TopStart, ProfileAssumption DEF ViewsInit, Init, ProfileInit, TablesOK, AnyChain, ChainOf
  <1>2. TopInv /\ TablesOK /\ [ViewsNext]_<<vars, views, apart>> => (TopInv /\ TablesOK)'
    BY TablesStep, TopStep
  <1>3. QED
    BY <1>1, <1>2, PTL DEF ViewsSpec

(* However the four threads interleave, at whatever moment symbols and      *)
(* flushes come in and whatever the sizes of the channels, the table that   *)
(* query_top_funcs returns counts an event once for each matching function  *)
(* of its stack, and once as self.                                          *)
THEOREM TopAlwaysExact == ViewsSpec => []TopExact
  <1>1. TopInv => TopExact
    BY TopShown
  <1>2. QED
    BY <1>1, TopInvariant, PTL

(* What is proved of the parts alone holds of all of them together: no view   *)
(* touches the table of events, and a behaviour of the rings or of the queue  *)
(* is one of its own.                                                        *)
THEOREM PartsImplemented == ViewsSpec => Spec /\ LogsSpec /\ DropsSpec
  <1>1. ViewsInit => Init /\ LogsInit /\ DropsInit
    BY DEF ViewsInit
  <1>2. [ViewsNext]_<<vars, views, apart>> => [Next]_vars /\ [LogsNext]_logs /\ [DropsNext]_dropped
    <2> SUFFICES ASSUME [ViewsNext]_<<vars, views, apart>>
                 PROVE  [Next]_vars /\ [LogsNext]_logs /\ [DropsNext]_dropped
      OBVIOUS
    <2>1. CASE UNCHANGED <<vars, views, apart>>
      BY <2>1 DEF apart
    <2>2. CASE TablesNext /\ UNCHANGED apart
      <3>1. Next \/ UNCHANGED vars
        BY <2>2 DEF TablesNext, Next
      <3>2. UNCHANGED logs /\ UNCHANGED dropped
        BY <2>2 DEF apart
      <3>3. QED
        BY <3>1, <3>2
    <2>3. CASE SearchNext /\ UNCHANGED <<vars, views, logs, dropped, part>>
      BY <2>3
    <2>4. CASE LogsNext /\ UNCHANGED <<vars, views, search, dropped, part>>
      BY <2>4
    <2>5. CASE DropsNext /\ UNCHANGED <<vars, views, search, logs, part>>
      BY <2>5
    <2>6. QED
      BY <2>1, <2>2, <2>3, <2>4, <2>5 DEF ViewsNext
  <1>3. QED
    BY <1>1, <1>2, PTL DEF ViewsSpec, Spec, LogsSpec, DropsSpec

-----------------------------------------------------------------------------
(* Sequences of numbers.                                                   *)

(* The smaller of two numbers.                                              *)
LEMMA MinOfTwo ==
    ASSUME NEW a \in Nat, NEW b \in Nat
    PROVE  Min({a, b}) = IF a <= b THEN a ELSE b
  <1>1. \E x \in {a, b} : \A y \in {a, b} : x <= y
    OBVIOUS
  <1>2. Min({a, b}) \in {a, b} /\ \A y \in {a, b} : Min({a, b}) <= y
    BY <1>1 DEF Min
  <1>3. QED
    BY <1>2

(* What a push to a full queue leaves. *)
LEMMA TailOfAppend ==
    ASSUME NEW s \in Seq(Nat), NEW e \in Nat
    PROVE  /\ Tail(Append(s, e)) \in Seq(Nat)
           /\ Len(Tail(Append(s, e))) = Len(s)
           /\ \A i \in 1 .. Len(s) :
                 Tail(Append(s, e))[i] = IF i = Len(s) THEN e ELSE s[i + 1]
  <1>1. /\ Append(s, e) \in Seq(Nat)
        /\ Append(s, e) # <<>>
        /\ Len(Append(s, e)) = Len(s) + 1
        /\ \A i \in 1 .. Len(s) : Append(s, e)[i] = s[i]
        /\ Append(s, e)[Len(s) + 1] = e
    BY AppendProperties
  <1>2. QED
    BY <1>1, HeadTailProperties, LenProperties

-----------------------------------------------------------------------------
(* The rings.                                                              *)

(* The ring of requests is the end of all that was pushed, the ring of      *)
(* messages that of all that was written; a request is counted, then on its *)
(* way, then pushed, and never twice.                                       *)
RingInv ==
    /\ ring \in Seq(Nat)
    /\ pushed \in Seq(Nat)
    /\ room = RingCapacity
    /\ Len(ring) = IF Len(pushed) < RingCapacity THEN Len(pushed)
                   ELSE RingCapacity - 1
    /\ \A i \in 1 .. Len(ring), j \in 1 .. Len(pushed) :
          Len(ring) - i = Len(pushed) - j => ring[i] = pushed[j]
    /\ \A i, j \in 1 .. Len(pushed) : pushed[i] = pushed[j] => i = j

CountedInv ==
    /\ processed \in Nat
    /\ arriving \subseteq 1 .. processed
    /\ \A i \in 1 .. Len(pushed) : pushed[i] \in (1 .. processed) \ arriving

RequestsInv == RingInv /\ CountedInv

MessagesInv ==
    /\ written \in Nat
    /\ messages \in Seq(Nat)
    /\ Len(messages) = IF written <= LogCapacity THEN written ELSE LogCapacity + 1
    /\ \A i \in 1 .. Len(messages) : messages[i] = written - Len(messages) + i

(* The rings begin empty.                                                   *)
LEMMA LogsStart == LogsInit => RequestsInv /\ MessagesInv
  <1> SUFFICES ASSUME LogsInit PROVE RequestsInv /\ MessagesInv
    OBVIOUS
  <1> USE LogsAssumption DEF LogsInit
  <1>1. RequestsInv
    BY DEF RequestsInv, RingInv, CountedInv
  <1>2. MessagesInv
    BY DEF MessagesInv
  <1>3. QED
    BY <1>1, <1>2

(* Counting, arriving and pushing a request keep the invariant.             *)
LEMMA RequestsStep == RequestsInv /\ [LogsNext]_logs => RequestsInv'
  <1> SUFFICES ASSUME RequestsInv, [LogsNext]_logs PROVE RequestsInv'
    OBVIOUS
  <1> USE LogsAssumption
  <1>1. ASSUME NEW kept \in BOOLEAN, CountRequest(kept)
        PROVE  RequestsInv'
    <2>1. /\ processed' = processed + 1
          /\ ring' = ring /\ room' = room /\ pushed' = pushed
      BY <1>1 DEF CountRequest
    <2>2. arriving' \subseteq arriving \cup {processed'}
      BY <1>1 DEF CountRequest
    <2>3. arriving' \subseteq 1 .. processed'
      BY <2>1, <2>2 DEF RequestsInv, RingInv, CountedInv
    <2>4. \A i \in 1 .. Len(pushed) : pushed[i] \in (1 .. processed') \ arriving'
      BY <2>1, <2>2 DEF RequestsInv, RingInv, CountedInv
    <2>5. RingInv'
      BY <2>1 DEF RequestsInv, RingInv
    <2>6. CountedInv'
      BY <2>1, <2>3, <2>4 DEF RequestsInv, CountedInv
    <2>7. QED
      BY <2>5, <2>6 DEF RequestsInv
  <1>2. ASSUME NEW n \in arriving, PushRequest(n)
        PROVE  RequestsInv'
    <2>1. /\ processed \in Nat /\ n \in 1 .. processed
          /\ ring \in Seq(Nat) /\ pushed \in Seq(Nat) /\ n \in Nat
          /\ Len(ring) \in Nat /\ Len(pushed) \in Nat
      BY DEF RequestsInv, RingInv, CountedInv
    <2>2. room' = room
      <3>1. Len(ring) # room
        BY <2>1 DEF RequestsInv, RingInv, CountedInv
      <3>2. QED
        BY <1>2, <3>1 DEF PushRequest, Grown
    <2>3. /\ Append(pushed, n) \in Seq(Nat)
          /\ Len(Append(pushed, n)) = Len(pushed) + 1
          /\ \A i \in 1 .. Len(pushed) : Append(pushed, n)[i] = pushed[i]
          /\ Append(pushed, n)[Len(pushed) + 1] = n
      BY <2>1, AppendProperties
    <2>4. /\ Append(ring, n) \in Seq(Nat)
          /\ Len(Append(ring, n)) = Len(ring) + 1
          /\ \A i \in 1 .. Len(ring) : Append(ring, n)[i] = ring[i]
          /\ Append(ring, n)[Len(ring) + 1] = n
      BY <2>1, AppendProperties
    <2>5. pushed' = Append(pushed, n) /\ processed' = processed /\ arriving' = arriving \ {n}
      BY <1>2 DEF PushRequest
    <2>6. /\ room = RingCapacity /\ RingCapacity \in Nat \ {0}
          /\ Len(ring) = IF Len(pushed) < RingCapacity THEN Len(pushed)
                         ELSE RingCapacity - 1
          /\ \A i \in 1 .. Len(ring), j \in 1 .. Len(pushed) :
                Len(ring) - i = Len(pushed) - j => ring[i] = pushed[j]
      BY LogsAssumption DEF RequestsInv, RingInv
    <2>7. ring' = IF Len(ring) + 1 = RingCapacity THEN Tail(Append(ring, n))
                   ELSE Append(ring, n)
      BY <1>2, <2>2, <2>4, <2>6 DEF PushRequest
    <2>8. /\ ring' \in Seq(Nat)
          /\ Len(ring') = IF Len(pushed') < RingCapacity THEN Len(pushed')
                          ELSE RingCapacity - 1
          /\ \A i \in 1 .. Len(ring'), j \in 1 .. Len(pushed') :
                Len(ring') - i = Len(pushed') - j => ring'[i] = pushed'[j]
      <3>1. CASE Len(ring) + 1 = RingCapacity
        <4>1. ring' = Tail(Append(ring, n))
          BY <2>7, <3>1
        <4>2. /\ ring' \in Seq(Nat)
              /\ Len(ring') = Len(ring)
              /\ \A i \in 1 .. Len(ring) :
                    ring'[i] = IF i = Len(ring) THEN n ELSE ring[i + 1]
          <5>1. /\ Tail(Append(ring, n)) \in Seq(Nat)
                /\ Len(Tail(Append(ring, n))) = Len(ring)
                /\ \A i \in 1 .. Len(ring) :
                      Tail(Append(ring, n))[i] = IF i = Len(ring) THEN n ELSE ring[i + 1]
            BY <2>1, TailOfAppend
          <5>2. QED
            BY <4>1, <5>1
        <4>3. Len(ring) <= Len(pushed) /\ Len(pushed) + 1 >= RingCapacity
          BY <2>1, <2>6, <3>1
        <4>4. ASSUME NEW i \in 1 .. Len(ring), NEW j \in 1 .. Len(pushed) + 1,
                     Len(ring) - i = Len(pushed) + 1 - j
              PROVE  ring'[i] = pushed'[j]
          <5>1. CASE i = Len(ring)
            <6>1. ring'[i] = n
              BY <4>2, <5>1
            <6>2. j = Len(pushed) + 1
              BY <2>1, <4>4, <5>1
            <6>3. QED
              BY <2>3, <2>5, <6>1, <6>2
          <5>2. CASE i # Len(ring)
            <6>1. /\ i + 1 \in 1 .. Len(ring) /\ j \in 1 .. Len(pushed)
                  /\ Len(ring) - (i + 1) = Len(pushed) - j
              BY <2>1, <4>4, <5>2
            <6>2. ring[i + 1] = pushed[j]
              BY <2>6, <6>1
            <6>3. ring'[i] = ring[i + 1]
              BY <4>2, <5>2
            <6>4. pushed'[j] = pushed[j]
              BY <2>3, <2>5, <6>1
            <6>5. QED
              BY <6>2, <6>3, <6>4
          <5>3. QED
            BY <5>1, <5>2
        <4>5. Len(ring') = Len(ring) /\ Len(pushed') = Len(pushed) + 1
          BY <2>3, <2>5, <4>2
        <4>6. QED
          BY <2>1, <3>1, <4>2, <4>3, <4>4, <4>5
      <3>2. CASE Len(ring) + 1 # RingCapacity
        <4>1. ring' = Append(ring, n)
          BY <2>7, <3>2
        <4>2. Len(ring) = Len(pushed) /\ Len(pushed) + 1 < RingCapacity
          BY <2>1, <2>6, <3>2
        <4>3. ASSUME NEW i \in 1 .. Len(ring)
              PROVE  ring[i] = pushed[i]
          BY <2>6, <4>2
        <4>4. ASSUME NEW i \in 1 .. Len(ring) + 1
              PROVE  ring'[i] = pushed'[i]
          <5>1. CASE i \in 1 .. Len(ring)
            <6>1. ring'[i] = ring[i] /\ i \in 1 .. Len(pushed)
              BY <2>4, <4>1, <4>2, <5>1
            <6>2. QED
              BY <2>3, <2>5, <4>3, <5>1, <6>1
          <5>2. CASE i = Len(ring) + 1
            BY <2>3, <2>4, <2>5, <4>1, <4>2, <5>2
          <5>3. QED
            BY <2>1, <5>1, <5>2
        <4>5. Len(ring') = Len(ring) + 1 /\ Len(pushed') = Len(pushed) + 1
          BY <2>3, <2>4, <2>5, <4>1
        <4>6. QED
          <5>1. ASSUME NEW i \in 1 .. Len(ring'), NEW j \in 1 .. Len(pushed'),
                       Len(ring') - i = Len(pushed') - j
                PROVE  ring'[i] = pushed'[j]
            <6>1. j = i /\ i \in 1 .. Len(ring) + 1
              BY <2>1, <4>2, <4>5, <5>1
            <6>2. QED
              BY <4>4, <6>1
          <5>2. ring' \in Seq(Nat)
            BY <2>4, <4>1
          <5>3. Len(ring') = IF Len(pushed') < RingCapacity THEN Len(pushed')
                             ELSE RingCapacity - 1
            BY <2>1, <4>2, <4>5
          <5>4. QED
            BY <5>1, <5>2, <5>3
      <3>3. QED
        BY <3>1, <3>2
    <2>9. \A i \in 1 .. Len(pushed') : pushed'[i] \in (1 .. processed') \ arriving'
      BY <2>1, <2>3, <2>5 DEF RequestsInv, RingInv, CountedInv
    <2>10. \A i, j \in 1 .. Len(pushed') : pushed'[i] = pushed'[j] => i = j
      <3>1. \A i \in 1 .. Len(pushed) : pushed[i] # n
        BY DEF RequestsInv, RingInv, CountedInv
      <3>2. QED
        BY <2>1, <2>3, <2>5, <3>1 DEF RequestsInv, RingInv, CountedInv
    <2>11. arriving' \subseteq 1 .. processed'
      BY <2>5 DEF RequestsInv, RingInv, CountedInv
    <2>12. QED
      BY <2>1, <2>2, <2>3, <2>5, <2>8, <2>9, <2>10, <2>11 DEF RequestsInv, RingInv, CountedInv
  <1>3. CASE UNCHANGED <<processed, arriving, ring, room, pushed>>
    BY <1>3 DEF RequestsInv, RingInv, CountedInv
  <1>4. QED
    BY <1>1, <1>2, <1>3
       DEF LogsNext, PickRequest, WriteMessage, DrawLogs, logs

(* So does writing a message.                                               *)
LEMMA MessagesStep == MessagesInv /\ [LogsNext]_logs => MessagesInv'
  <1> SUFFICES ASSUME MessagesInv, [LogsNext]_logs PROVE MessagesInv'
    OBVIOUS
  <1> USE LogsAssumption
  <1>1. CASE WriteMessage
    <2>1. /\ written \in Nat /\ written' = written + 1
          /\ messages \in Seq(Nat) /\ Len(messages) \in Nat
      BY <1>1 DEF WriteMessage, MessagesInv
    <2>2. CASE Len(messages) > LogCapacity
      <3>1. messages # <<>>
        BY <2>1, <2>2
      <3>2. messages' = Append(Tail(messages), written')
        BY <1>1, <2>2 DEF WriteMessage
      <3>3. /\ Tail(messages) \in Seq(Nat)
            /\ Len(Tail(messages)) = Len(messages) - 1
            /\ \A i \in 1 .. Len(Tail(messages)) : Tail(messages)[i] = messages[i + 1]
        BY <2>1, <3>1, HeadTailProperties
      <3>4. /\ messages' \in Seq(Nat)
            /\ Len(messages') = Len(messages)
            /\ \A i \in 1 .. Len(messages) - 1 : messages'[i] = messages[i + 1]
            /\ messages'[Len(messages)] = written'
        BY <2>1, <3>2, <3>3, AppendProperties
      <3>5. Len(messages) = LogCapacity + 1 /\ written > LogCapacity
        BY <2>1, <2>2 DEF MessagesInv
      <3>6. ASSUME NEW i \in 1 .. Len(messages)
            PROVE  messages'[i] = written' - Len(messages) + i
        <4>1. CASE i = Len(messages)
          BY <2>1, <3>4, <4>1
        <4>2. CASE i # Len(messages)
          <5>1. i + 1 \in 1 .. Len(messages) /\ i \in 1 .. Len(messages) - 1
            BY <2>1, <4>2
          <5>2. messages[i + 1] = written - Len(messages) + (i + 1)
            BY <5>1 DEF MessagesInv
          <5>3. QED
            BY <2>1, <3>4, <5>1, <5>2
        <4>3. QED
          BY <4>1, <4>2
      <3>7. QED
        BY <2>1, <3>4, <3>5, <3>6 DEF MessagesInv
    <2>3. CASE ~(Len(messages) > LogCapacity)
      <3>1. messages' = Append(messages, written')
        BY <1>1, <2>3 DEF WriteMessage
      <3>2. /\ messages' \in Seq(Nat)
            /\ Len(messages') = Len(messages) + 1
            /\ \A i \in 1 .. Len(messages) : messages'[i] = messages[i]
            /\ messages'[Len(messages) + 1] = written'
        BY <2>1, <3>1, AppendProperties
      <3>3. Len(messages) = written /\ written <= LogCapacity
        BY <2>1, <2>3 DEF MessagesInv
      <3>4. \A i \in 1 .. Len(messages') : messages'[i] = written' - Len(messages') + i
        BY <2>1, <3>2, <3>3 DEF MessagesInv
      <3>5. QED
        BY <2>1, <3>2, <3>3, <3>4 DEF MessagesInv
    <2>4. QED
      BY <2>2, <2>3
  <1>2. CASE UNCHANGED <<messages, written>>
    BY <1>2 DEF MessagesInv
  <1>3. QED
    BY <1>1, <1>2
       DEF LogsNext, CountRequest, PushRequest, PickRequest, DrawLogs, logs

(* The lists of the tabs, which turn the rings round. *)
LEMMA ListsAreNewest ==
    ASSUME RequestsInv, MessagesInv
    PROVE  RingsKeepNewest
  <1> USE LogsAssumption
  <1>1. /\ Len(ring) \in Nat /\ Len(pushed) \in Nat /\ Len(messages) \in Nat
        /\ DOMAIN pushed = 1 .. Len(pushed)
        /\ processed \in Nat /\ written \in Nat
        /\ messages \in Seq(Nat)
    BY DEF RequestsInv, RingInv, CountedInv, MessagesInv
  <1>2. RequestList = Newest(pushed, RingCapacity - 1)
    <2>1. Min({RingCapacity - 1, Len(pushed)}) = Len(ring)
      <3>1. RingCapacity - 1 \in Nat
        OBVIOUS
      <3>2. Min({RingCapacity - 1, Len(pushed)})
               = IF RingCapacity - 1 <= Len(pushed) THEN RingCapacity - 1 ELSE Len(pushed)
        BY <1>1, <3>1, MinOfTwo
      <3>3. QED
        BY <1>1, <3>2 DEF RequestsInv, RingInv, CountedInv
    <2>2. ASSUME NEW i \in 1 .. Len(ring)
          PROVE  ring[(Len(ring) - i) + 1] = pushed[Len(pushed) + 1 - i]
      <3>1. /\ (Len(ring) - i) + 1 \in 1 .. Len(ring)
            /\ Len(pushed) + 1 - i \in 1 .. Len(pushed)
            /\ Len(ring) - ((Len(ring) - i) + 1) = Len(pushed) - (Len(pushed) + 1 - i)
        BY <1>1 DEF RequestsInv, RingInv, CountedInv
      <3>2. QED
        BY <3>1 DEF RequestsInv, RingInv, CountedInv
    <2>3. QED
      BY <2>1, <2>2 DEF RequestList, Reverse, Newest
  <1>3. room = RingCapacity
    BY DEF RequestsInv, RingInv, CountedInv
  <1>4. IsInjective(pushed)
    BY <1>1 DEF RequestsInv, RingInv, CountedInv, IsInjective
  <1>5. Range(pushed) \cup arriving \subseteq 1 .. processed
    <2>1. \A i \in DOMAIN pushed : pushed[i] \in 1 .. processed
      BY <1>1 DEF RequestsInv, CountedInv
    <2>2. Range(pushed) \subseteq 1 .. processed
      BY <2>1 DEF Range
    <2>3. QED
      BY <2>2 DEF RequestsInv, CountedInv
  <1>6. LogTail = Newest([i \in 1 .. written |-> i], Min({TailLimit, LogCapacity + 1}))
    <2> DEFINE newest == Reverse(messages)
               shown == Min({TailLimit, Len(messages)})
               all == [i \in 1 .. written |-> i]
               limit == Min({TailLimit, LogCapacity + 1})
    <2>1. Len(messages) = Min({written, LogCapacity + 1})
      BY <1>1, MinOfTwo DEF MessagesInv
    <2>2. /\ shown \in Nat /\ shown <= Len(messages) /\ limit \in Nat
          /\ shown = Min({limit, written})
      <3>1. TailLimit \in Nat /\ LogCapacity + 1 \in Nat /\ written \in Nat
        BY <1>1, LogsAssumption
      <3>2. Len(messages) \in Nat
        BY <1>1
      <3>3. /\ shown = IF TailLimit <= Len(messages) THEN TailLimit ELSE Len(messages)
            /\ limit = IF TailLimit <= LogCapacity + 1 THEN TailLimit
                       ELSE LogCapacity + 1
        BY <3>1, <3>2, MinOfTwo
      <3>4. Len(messages) = IF written <= LogCapacity + 1 THEN written
                            ELSE LogCapacity + 1
        BY <2>1, <3>1, MinOfTwo
      <3>5. limit \in Nat
        BY <3>1, <3>3
      <3>6. Min({limit, written}) = IF limit <= written THEN limit ELSE written
        BY <3>1, <3>5, MinOfTwo
      <3> HIDE DEF shown, limit
      <3>7. QED
        BY <3>1, <3>2, <3>3, <3>4, <3>6
    <2>3. all \in Seq(Nat) /\ Len(all) = written
      <3>1. all \in [1 .. written -> Nat]
        BY <1>1
      <3>2. QED
        BY <1>1, <3>1
    <2>4. /\ newest = [i \in 1 .. Len(messages) |-> written + 1 - i]
          /\ Len(newest) = Len(messages)
      <3>1. ASSUME NEW i \in 1 .. Len(messages)
            PROVE  messages[(Len(messages) - i) + 1] = written + 1 - i
        <4>1. Len(messages) \in Nat /\ written \in Nat
          BY <1>1
        <4>2. Len(messages) - i + 1 \in 1 .. Len(messages)
          BY <4>1
        <4>3. \A k \in 1 .. Len(messages) :
                 messages[k] = written - Len(messages) + k
          BY <1>1 DEF MessagesInv
        <4>4. messages[(Len(messages) - i) + 1]
                = written - Len(messages) + (Len(messages) - i + 1)
          BY <4>2, <4>3
        <4>5. QED
          BY <4>1, <4>4
      <3>2. newest = [i \in 1 .. Len(messages) |-> written + 1 - i]
        BY <3>1 DEF Reverse
      <3>3. QED
        BY <1>1, <3>2
    <2>5. SubSeq(newest, 1, shown) = [i \in 1 .. shown |-> written + 1 - i]
      <3> HIDE DEF newest, shown
      <3>1. \A i \in 1 .. shown : newest[i] = written + 1 - i
        BY <1>1, <2>2, <2>4
      <3>2. newest \in Seq(Nat)
        <4>1. Len(messages) <= written
          BY <1>1 DEF MessagesInv
        <4>2. \A i \in 1 .. Len(messages) : written + 1 - i \in Nat
          BY <1>1, <4>1
        <4>3. newest \in [1 .. Len(messages) -> Nat]
          BY <2>4, <4>2
        <4>4. QED
          BY <1>1, <4>3
      <3>3. SubSeq(newest, 1, shown) = [i \in 1 .. shown |-> newest[i]]
        <4>1. shown \in 0 .. Len(newest)
          BY <1>1, <2>2, <2>4
        <4>2. QED
          BY <3>2, <4>1, SubSeqRestrict DEF Restrict
      <3>4. QED
        BY <3>1, <3>3
    <2>6. Newest(all, limit) = [i \in 1 .. shown |-> written + 1 - i]
      <3>1. shown <= written
        <4> HIDE DEF shown
        <4>1. Len(messages) <= written /\ Len(messages) \in Nat /\ written \in Nat
          BY <1>1 DEF MessagesInv
        <4>2. QED
          BY <2>2, <4>1
      <3>2. \A i \in 1 .. shown : all[Len(all) + 1 - i] = written + 1 - i
        <4>1. \A k \in 1 .. written : all[k] = k
          OBVIOUS
        <4> HIDE DEF all, shown
        <4>2. \A i \in 1 .. shown : written + 1 - i \in 1 .. written
          BY <1>1, <2>2, <3>1
        <4>3. \A i \in 1 .. shown : all[written + 1 - i] = written + 1 - i
          BY <4>1, <4>2
        <4>4. QED
          BY <2>3, <4>3
      <3>3. QED
        BY <2>2, <2>3, <3>2 DEF Newest
    <2>7. LogTail = SubSeq(newest, 1, shown)
      BY <2>4 DEF LogTail
    <2>8. QED
      BY <2>5, <2>6, <2>7
  <1>7. Len(messages) <= LogCapacity + 1
    BY <1>1 DEF MessagesInv
  <1>8. QED
    BY <1>2, <1>3, <1>4, <1>5, <1>6, <1>7 DEF RingsKeepNewest

(* The tabs list the newest requests and messages, in order and without a    *)
(* gap, and the rings never outgrow their capacity, for every capacity and   *)
(* limit and however the handlers that count and push interleave.            *)
THEOREM RingsNewest == LogsSpec => []RingsKeepNewest
  <1>1. LogsInit => RequestsInv /\ MessagesInv
    BY LogsStart
  <1>2. RequestsInv /\ MessagesInv /\ [LogsNext]_logs => (RequestsInv /\ MessagesInv)'
    BY RequestsStep, MessagesStep
  <1>3. RequestsInv /\ MessagesInv => RingsKeepNewest
    BY ListsAreNewest
  <1>4. QED
    BY <1>1, <1>2, <1>3, PTL DEF LogsSpec

-----------------------------------------------------------------------------
(* The dropped files.                                                      *)

(* Each file is in the queue or taken, in one place; the queue is in the     *)
(* order of the drops; an ingestion that is there is the last one taken.     *)
PlacesInv ==
    /\ numDropped \in 0 .. MaxDrops
    /\ ingestQueue \in Seq(Nat)
    /\ spawned \in Seq(Nat)
    /\ \A i \in 1 .. Len(ingestQueue) : ingestQueue[i] \in 1 .. numDropped
    /\ \A i \in 1 .. Len(spawned) : spawned[i] \in 1 .. numDropped
    /\ \A i, j \in 1 .. Len(ingestQueue) :
          i < j => ingestQueue[i] < ingestQueue[j]
    /\ \A i, j \in 1 .. Len(spawned) : spawned[i] = spawned[j] => i = j
    /\ \A i \in 1 .. Len(ingestQueue), j \in 1 .. Len(spawned) :
          ingestQueue[i] # spawned[j]
    /\ \A f \in 1 .. numDropped :
          \/ \E i \in 1 .. Len(ingestQueue) : ingestQueue[i] = f
          \/ \E i \in 1 .. Len(spawned) : spawned[i] = f

TaskInv ==
    /\ ingestTask # NoTask =>
          spawned # <<>> /\ ingestTask = spawned[Len(spawned)]
    /\ taskDone \in BOOLEAN
    /\ taskDone => ingestTask # NoTask
    /\ ingestQueue # <<>> => ingestTask # NoTask
    /\ joined = Range(spawned) \ {ingestTask}

(* A frame leaves the queue as it was but for the files dropped in it. *)
LEMMA QueuedFiles ==
    ASSUME PlacesInv, NEW n \in Nat
    PROVE  /\ Queued(n) \in Seq(Nat)
           /\ Len(Queued(n)) = Len(ingestQueue) + n
           /\ \A i \in 1 .. Len(ingestQueue) : Queued(n)[i] = ingestQueue[i]
           /\ \A i \in Len(ingestQueue) + 1 .. Len(ingestQueue) + n :
                 Queued(n)[i] = numDropped + (i - Len(ingestQueue))
  <1> DEFINE new == [k \in 1 .. n |-> numDropped + k]
  <1>1. numDropped \in Nat /\ Len(ingestQueue) \in Nat /\ ingestQueue \in Seq(Nat)
    BY DropAssumption DEF PlacesInv
  <1>2. new \in Seq(Nat) /\ Len(new) = n
    <2>1. new \in [1 .. n -> Nat]
      BY <1>1
    <2>2. QED
      BY <2>1
  <1>3. \A k \in 1 .. n : new[k] = numDropped + k
    OBVIOUS
  <1>4. Queued(n) = ingestQueue \o new
    BY DEF Queued
  <1> HIDE DEF new
  <1>5. /\ ingestQueue \o new \in Seq(Nat)
        /\ Len(ingestQueue \o new) = Len(ingestQueue) + n
        /\ \A i \in 1 .. Len(ingestQueue) + n :
              (ingestQueue \o new)[i] = IF i <= Len(ingestQueue) THEN ingestQueue[i]
                                        ELSE new[i - Len(ingestQueue)]
    BY <1>1, <1>2, ConcatProperties
  <1>6. QED
    BY <1>1, <1>3, <1>4, <1>5

(* The queue with the new files is still in order and apart from what was     *)
(* taken, and with it holds all that was dropped.                             *)
LEMMA QueuedInOrder ==
    ASSUME PlacesInv, NEW n \in Nat
    PROVE  LET q == Queued(n)
           IN  /\ \A i \in 1 .. Len(q) : q[i] \in 1 .. numDropped + n
               /\ \A i, j \in 1 .. Len(q) : i < j => q[i] < q[j]
               /\ \A i \in 1 .. Len(q), j \in 1 .. Len(spawned) : q[i] # spawned[j]
               /\ \A f \in 1 .. numDropped + n :
                     \/ \E i \in 1 .. Len(q) : q[i] = f
                     \/ \E i \in 1 .. Len(spawned) : spawned[i] = f
  <1> DEFINE q == Queued(n)
             m == Len(ingestQueue)
  <1>1. /\ numDropped \in Nat /\ m \in Nat
        /\ Len(q) = m + n
        /\ \A i \in 1 .. m : q[i] = ingestQueue[i] /\ q[i] \in 1 .. numDropped
        /\ \A i \in m + 1 .. m + n : q[i] = numDropped + (i - m)
    <2>1. numDropped \in Nat /\ m \in Nat
      BY DropAssumption DEF PlacesInv
    <2>2. \A i \in 1 .. m : ingestQueue[i] \in 1 .. numDropped
      BY DEF PlacesInv
    <2>3. /\ Len(q) = m + n
          /\ \A i \in 1 .. m : q[i] = ingestQueue[i]
          /\ \A i \in m + 1 .. m + n : q[i] = numDropped + (i - m)
      BY QueuedFiles
    <2> HIDE DEF q, m
    <2>4. QED
      BY <2>1, <2>2, <2>3
  <1>2. \A i, j \in 1 .. m : i < j => q[i] < q[j]
    BY <1>1 DEF PlacesInv
  <1>3. /\ \A i \in 1 .. m, j \in 1 .. Len(spawned) : q[i] # spawned[j]
        /\ \A j \in 1 .. Len(spawned) : spawned[j] \in 1 .. numDropped
    BY <1>1 DEF PlacesInv
  <1>4. \A f \in 1 .. numDropped :
           \/ \E i \in 1 .. m : q[i] = f
           \/ \E i \in 1 .. Len(spawned) : spawned[i] = f
    BY <1>1 DEF PlacesInv
  <1> HIDE DEF q, m
  <1>5. \A i \in 1 .. Len(q) : q[i] \in 1 .. numDropped + n
    BY <1>1
  <1>6. \A i, j \in 1 .. Len(q) : i < j => q[i] < q[j]
    BY <1>1, <1>2
  <1>7. \A i \in 1 .. Len(q), j \in 1 .. Len(spawned) : q[i] # spawned[j]
    BY <1>1, <1>3
  <1>8. ASSUME NEW f \in 1 .. numDropped + n
        PROVE  \/ \E i \in 1 .. Len(q) : q[i] = f
               \/ \E i \in 1 .. Len(spawned) : spawned[i] = f
    <2>1. CASE f <= numDropped
      BY <1>1, <1>4, <2>1
    <2>2. CASE f > numDropped
      <3>1. m + (f - numDropped) \in m + 1 .. m + n
        BY <1>1, <2>2
      <3>2. q[m + (f - numDropped)] = f
        BY <1>1, <3>1
      <3>3. QED
        BY <1>1, <3>1, <3>2
    <2>3. QED
      BY <1>1, <2>1, <2>2
  <1>9. QED
    BY <1>5, <1>6, <1>7, <1>8 DEF q

(* No file, no task.                                                        *)
LEMMA DropsStart == DropsInit => PlacesInv /\ TaskInv
  <1> SUFFICES ASSUME DropsInit
               PROVE  PlacesInv /\ TaskInv
    OBVIOUS
  <1>1. numDropped = 0 /\ MaxDrops \in Nat /\ ingestQueue = <<>> /\ spawned = <<>>
    BY DropAssumption DEF DropsInit
  <1>2. Len(ingestQueue) = 0 /\ Len(spawned) = 0 /\ DOMAIN spawned = {}
    BY <1>1
  <1>3. PlacesInv
    BY <1>1, <1>2 DEF PlacesInv
  <1>4. Range(spawned) = {}
    BY <1>2 DEF Range
  <1>5. TaskInv
    BY <1>1, <1>4 DEF DropsInit, TaskInv
  <1>6. QED
    BY <1>3, <1>5

(* Every step of the window and of the tasks keeps each file in one place.  *)
LEMMA DropsStep == PlacesInv /\ TaskInv /\ [DropsNext]_dropped => (PlacesInv /\ TaskInv)'
  <1> SUFFICES ASSUME PlacesInv, TaskInv, [DropsNext]_dropped
               PROVE  (PlacesInv /\ TaskInv)'
    OBVIOUS
  <1>1. ASSUME NEW n \in 0 .. MaxDrops, DrawTab(n)
        PROVE  (PlacesInv /\ TaskInv)'
    <2> DEFINE q == Queued(n)
    <2>1. /\ n \in Nat /\ numDropped \in Nat
          /\ numDropped' = numDropped + n /\ numDropped' \in 0 .. MaxDrops
          /\ spawned \in Seq(Nat) /\ Len(spawned) \in Nat
      BY <1>1, DropAssumption DEF DrawTab, PlacesInv
    <2>2. q \in Seq(Nat) /\ Len(q) \in Nat
      BY <2>1, QueuedFiles
    <2>3. /\ \A i \in 1 .. Len(q) : q[i] \in 1 .. numDropped'
          /\ \A i, j \in 1 .. Len(q) : i < j => q[i] < q[j]
          /\ \A i \in 1 .. Len(q), j \in 1 .. Len(spawned) : q[i] # spawned[j]
          /\ \A f \in 1 .. numDropped' :
                \/ \E i \in 1 .. Len(q) : q[i] = f
                \/ \E i \in 1 .. Len(spawned) : spawned[i] = f
          /\ \A i \in 1 .. Len(spawned) : spawned[i] \in 1 .. numDropped'
      <3>1. numDropped + n = numDropped' /\ numDropped <= numDropped'
        BY <2>1
      <3>2. \A i \in 1 .. Len(spawned) : spawned[i] \in 1 .. numDropped
        BY DEF PlacesInv
      <3>3. /\ \A i \in 1 .. Len(q) : q[i] \in 1 .. numDropped + n
            /\ \A i, j \in 1 .. Len(q) : i < j => q[i] < q[j]
            /\ \A i \in 1 .. Len(q), j \in 1 .. Len(spawned) : q[i] # spawned[j]
            /\ \A f \in 1 .. numDropped + n :
                  \/ \E i \in 1 .. Len(q) : q[i] = f
                  \/ \E i \in 1 .. Len(spawned) : spawned[i] = f
        BY <2>1, QueuedInOrder
      <3> HIDE DEF q
      <3>4. \A i \in 1 .. Len(spawned) : spawned[i] \in 1 .. numDropped'
        BY <2>1, <3>1, <3>2
      <3>5. QED
        BY <3>1, <3>3, <3>4
    <2>4. joined' = Range(spawned) \ {StillActive}
      <3>1. joined = Range(spawned) \ {ingestTask}
        BY DEF TaskInv
      <3>2. ASSUME taskDone
            PROVE  ingestTask \in Range(spawned) /\ NoTask \notin Range(spawned)
        <4>1. spawned # <<>> /\ ingestTask = spawned[Len(spawned)]
          BY <3>2 DEF TaskInv
        <4>2. DOMAIN spawned = 1 .. Len(spawned) /\ Len(spawned) \in DOMAIN spawned
          BY <2>1, <4>1
        <4>3. \A i \in 1 .. Len(spawned) : spawned[i] # NoTask
          BY <2>1, <2>3, DropAssumption
        <4>4. QED
          BY <4>1, <4>2, <4>3 DEF Range
      <3>3. CASE taskDone
        <4>1. joined' = joined \cup {ingestTask} /\ StillActive = NoTask
          BY <1>1, <3>3 DEF DrawTab, StillActive
        <4>2. QED
          BY <3>1, <3>2, <3>3, <4>1
      <3>4. CASE ~taskDone
        <4>1. joined' = joined /\ StillActive = ingestTask
          BY <1>1, <3>4 DEF DrawTab, StillActive
        <4>2. QED
          BY <3>1, <4>1
      <3>5. QED
        BY <3>3, <3>4
    <2>5. CASE StillActive = NoTask /\ q # <<>>
      <3> DEFINE e == q[Len(q)]
      <3>1. /\ ingestTask' = e /\ ingestQueue' = SubSeq(q, 1, Len(q) - 1)
            /\ spawned' = Append(spawned, e) /\ taskDone' = FALSE
        BY <1>1, <2>5 DEF DrawTab, Popped, Last, Front
      <3> HIDE DEF q
      <3>2. Len(q) \in 1 .. Len(q) /\ e \in 1 .. numDropped' /\ e \in Nat
        BY <2>2, <2>3, <2>5
      <3>3. /\ ingestQueue' \in Seq(Nat)
            /\ Len(ingestQueue') = Len(q) - 1
            /\ \A i \in 1 .. Len(q) - 1 : ingestQueue'[i] = q[i]
        <4>1. Len(q) - 1 \in 0 .. Len(q)
          BY <2>2, <3>2
        <4>2. ingestQueue' = [i \in 1 .. Len(q) - 1 |-> q[i]]
          BY <2>2, <3>1, <4>1, SubSeqRestrict DEF Restrict
        <4>3. \A i \in 1 .. Len(q) - 1 : q[i] \in Nat
          BY <2>2
        <4>4. ingestQueue' \in [1 .. Len(q) - 1 -> Nat]
          BY <4>2, <4>3
        <4>5. Len(q) - 1 \in Nat
          BY <4>1, <2>2
        <4>6. ingestQueue' \in Seq(Nat)
          BY <4>4, <4>5
        <4>7. Len(ingestQueue') = Len(q) - 1
          BY <4>4, <4>5
        <4>8. QED
          BY <4>2, <4>6, <4>7
      <3>4. /\ spawned' \in Seq(Nat)
            /\ Len(spawned') = Len(spawned) + 1
            /\ \A i \in 1 .. Len(spawned) : spawned'[i] = spawned[i]
            /\ spawned'[Len(spawned) + 1] = e
        BY <2>1, <3>1, <3>2, AppendProperties
      <3> HIDE DEF e
      <3>8. \A i \in 1 .. Len(spawned') :
               \/ i \in 1 .. Len(spawned) /\ spawned'[i] = spawned[i]
               \/ i = Len(spawned) + 1 /\ spawned'[i] = e
        <4>1. \A i \in 1 .. Len(spawned) + 1 :
                 i \in 1 .. Len(spawned) \/ i = Len(spawned) + 1
          BY <2>1
        <4>2. QED
          BY <3>4, <4>1
      <3>9. \A i \in 1 .. Len(ingestQueue') :
               i \in 1 .. Len(q) /\ i < Len(q) /\ ingestQueue'[i] = q[i]
        <4>1. \A i \in 1 .. Len(q) - 1 : i \in 1 .. Len(q) /\ i < Len(q)
          BY <2>2
        <4>2. QED
          BY <3>3, <4>1
      <3>5. PlacesInv'
        <4>1. \A i \in 1 .. Len(ingestQueue') : ingestQueue'[i] \in 1 .. numDropped'
          BY <2>3, <3>9
        <4>2. \A i \in 1 .. Len(spawned') : spawned'[i] \in 1 .. numDropped'
          BY <2>3, <3>2, <3>8
        <4>3. \A i, j \in 1 .. Len(ingestQueue') :
                 i < j => ingestQueue'[i] < ingestQueue'[j]
          BY <2>3, <3>9
        <4>4. \A i, j \in 1 .. Len(spawned') : spawned'[i] = spawned'[j] => i = j
          <5>1. \A i \in 1 .. Len(spawned) : spawned[i] # e
            BY <2>3, <3>2 DEF e
          <5>2. \A i, j \in 1 .. Len(spawned) : spawned[i] = spawned[j] => i = j
            BY DEF PlacesInv
          <5>3. QED
            BY <3>8, <5>1, <5>2
        <4>5. \A i \in 1 .. Len(ingestQueue'), j \in 1 .. Len(spawned') :
                 ingestQueue'[i] # spawned'[j]
          <5>1. \A i \in 1 .. Len(q) : i < Len(q) => q[i] < e
            BY <2>3, <3>2 DEF e
          <5>2. \A i \in 1 .. Len(q) : q[i] \in Nat
            BY <2>2
          <5>3. \A i \in 1 .. Len(q) : i < Len(q) => q[i] # e
            BY <3>2, <5>1, <5>2
          <5>4. QED
            BY <2>3, <3>8, <3>9, <5>3
        <4>6. ASSUME NEW f \in 1 .. numDropped'
              PROVE  \/ \E i \in 1 .. Len(ingestQueue') : ingestQueue'[i] = f
                     \/ \E i \in 1 .. Len(spawned') : spawned'[i] = f
          <5>1. CASE \E i \in 1 .. Len(spawned) : spawned[i] = f
            <6>1. PICK i \in 1 .. Len(spawned) : spawned[i] = f
              BY <5>1
            <6>2. i \in 1 .. Len(spawned') /\ spawned'[i] = f
              BY <2>1, <3>4, <6>1
            <6>3. QED
              BY <6>2
          <5>2. CASE \E i \in 1 .. Len(q) : q[i] = f
            <6>1. PICK i \in 1 .. Len(q) : q[i] = f
              BY <5>2
            <6>2. CASE i = Len(q)
              <7>1. Len(spawned) + 1 \in 1 .. Len(spawned')
                BY <2>1, <3>4
              <7>2. QED
                BY <3>4, <6>1, <6>2, <7>1 DEF e
            <6>3. CASE i # Len(q)
              <7>1. i \in 1 .. Len(q) - 1
                BY <2>2, <6>3
              <7>2. QED
                BY <3>3, <6>1, <7>1
            <6>4. QED
              BY <6>2, <6>3
          <5>3. QED
            BY <2>3, <5>1, <5>2
        <4>7. QED
          BY <2>1, <3>3, <3>4, <4>1, <4>2, <4>3, <4>4, <4>5, <4>6 DEF PlacesInv
      <3>6. TaskInv'
        <4>1. spawned' # <<>> /\ ingestTask' = spawned'[Len(spawned')]
          <5>1. Len(spawned') # 0
            BY <2>1, <3>4
          <5>2. spawned' # <<>>
            BY <5>1
          <5>3. QED
            BY <3>1, <3>4, <5>2
        <4>2. e # NoTask
          BY <2>1, <3>2, DropAssumption
        <4>7. NoTask \notin 1 .. numDropped'
          BY <2>1, DropAssumption
        <4>3. e \notin Range(spawned) /\ NoTask \notin Range(spawned)
          <5>1. DOMAIN spawned = 1 .. Len(spawned)
            BY <2>1
          <5>2. \A i \in 1 .. Len(spawned) : spawned[i] # e /\ spawned[i] # NoTask
            BY <2>3, <3>2, <4>7 DEF e
          <5>3. QED
            BY <5>1, <5>2 DEF Range
        <4>4. Range(spawned') = Range(spawned) \cup {e}
          <5>1. DOMAIN spawned' = 1 .. Len(spawned) + 1 /\ DOMAIN spawned = 1 .. Len(spawned)
            BY <2>1, <3>4
          <5>2. 1 .. Len(spawned) + 1 = 1 .. Len(spawned) \cup {Len(spawned) + 1}
            BY <2>1
          <5>3. QED
            BY <3>4, <5>1, <5>2 DEF Range
        <4>5. joined' = Range(spawned') \ {ingestTask'}
          BY <2>4, <2>5, <3>1, <4>3, <4>4
        <4>6. QED
          BY <3>1, <4>1, <4>2, <4>5 DEF TaskInv
      <3>7. QED
        BY <3>5, <3>6
    <2>6. CASE ~(StillActive = NoTask /\ q # <<>>)
      <3>1. /\ ingestTask' = StillActive /\ ingestQueue' = q
            /\ spawned' = spawned /\ taskDone' = FALSE
        BY <1>1, <2>6 DEF DrawTab
      <3> HIDE DEF q
      <3>2. PlacesInv'
        BY <2>1, <2>2, <2>3, <3>1 DEF PlacesInv
      <3>3. TaskInv'
        BY <2>4, <2>6, <3>1 DEF TaskInv, StillActive
      <3>4. QED
        BY <3>2, <3>3
    <2>7. QED
      BY <2>5, <2>6
  <1>2. CASE TaskEnds
    BY <1>2 DEF TaskEnds, PlacesInv, TaskInv
  <1>3. CASE UNCHANGED dropped
    BY <1>3 DEF dropped, PlacesInv, TaskInv
  <1>4. QED
    BY <1>1, <1>2, <1>3 DEF DropsNext

(* The invariant says what DropsKept asks for.                              *)
LEMMA QueueIsKept ==
    ASSUME PlacesInv, TaskInv
    PROVE  DropsKept
  <1> DEFINE q == ingestQueue
             s == q \o spawned
  <1>1. /\ q \in Seq(Nat) /\ spawned \in Seq(Nat) /\ numDropped \in Nat
        /\ Len(q) \in Nat /\ Len(spawned) \in Nat
        /\ DOMAIN q = 1 .. Len(q)
    BY DropAssumption DEF PlacesInv
  <1>2. /\ s \in Seq(Nat)
        /\ Len(s) = Len(q) + Len(spawned)
        /\ \A i \in 1 .. Len(q) + Len(spawned) :
              s[i] = IF i <= Len(q) THEN q[i] ELSE spawned[i - Len(q)]
    BY <1>1, ConcatProperties
  <1>3. DOMAIN s = 1 .. Len(q) + Len(spawned)
    BY <1>2
  <1>4. /\ \A i \in 1 .. Len(q) : s[i] = q[i]
        /\ \A i \in 1 .. Len(spawned) : s[Len(q) + i] = spawned[i]
    <2>1. \A i \in 1 .. Len(q) : i \in 1 .. Len(q) + Len(spawned) /\ i <= Len(q)
      BY <1>1
    <2>2. \A i \in 1 .. Len(spawned) :
             /\ Len(q) + i \in 1 .. Len(q) + Len(spawned)
             /\ ~(Len(q) + i <= Len(q)) /\ Len(q) + i - Len(q) = i
      BY <1>1
    <2>3. QED
      BY <1>2, <2>1, <2>2
  <1>5. \A i \in DOMAIN s : \/ i \in 1 .. Len(q)
                            \/ \E j \in 1 .. Len(spawned) : i = Len(q) + j
    <2>1. ASSUME NEW i \in 1 .. Len(q) + Len(spawned), ~(i \in 1 .. Len(q))
          PROVE  i - Len(q) \in 1 .. Len(spawned) /\ i = Len(q) + (i - Len(q))
      BY <1>1, <2>1
    <2>2. QED
      BY <1>3, <2>1
  <1> HIDE DEF s
  <1>6. IsInjective(s)
    <2>1. \A i, j \in 1 .. Len(q) : q[i] = q[j] => i = j
      <3>1. \A i, j \in 1 .. Len(q) : i < j => q[i] < q[j]
        BY DEF PlacesInv
      <3>2. \A i \in 1 .. Len(q) : q[i] \in Nat
        BY <1>1
      <3> HIDE DEF q
      <3>3. ASSUME NEW i \in 1 .. Len(q), NEW j \in 1 .. Len(q), q[i] = q[j]
            PROVE  i = j
        BY <1>1, <3>1, <3>2, <3>3
      <3>4. QED
        BY <3>3
    <2>2. QED
      <3>1. \A i, j \in 1 .. Len(spawned) : spawned[i] = spawned[j] => i = j
        BY DEF PlacesInv
      <3>2. \A i \in 1 .. Len(q), j \in 1 .. Len(spawned) : q[i] # spawned[j]
        BY DEF PlacesInv
      <3>3. ASSUME NEW a \in DOMAIN s, NEW b \in DOMAIN s, s[a] = s[b]
            PROVE  a = b
        <4>1. CASE a \in 1 .. Len(q) /\ b \in 1 .. Len(q)
          BY <1>4, <2>1, <3>3, <4>1
        <4>2. ASSUME NEW i \in 1 .. Len(spawned), a = Len(q) + i
              PROVE  a = b
          <5>1. s[a] = spawned[i]
            BY <1>4, <4>2
          <5>2. b \notin 1 .. Len(q)
            BY <1>4, <3>2, <3>3, <5>1
          <5>3. PICK j \in 1 .. Len(spawned) : b = Len(q) + j
            BY <1>5, <5>2
          <5>4. s[b] = spawned[j]
            BY <1>4, <5>3
          <5>5. i = j
            BY <3>1, <3>3, <5>1, <5>4
          <5>6. QED
            BY <4>2, <5>3, <5>5
        <4>3. ASSUME a \in 1 .. Len(q), NEW j \in 1 .. Len(spawned), b = Len(q) + j
              PROVE  a = b
          <5>1. s[b] = spawned[j] /\ s[a] = q[a]
            BY <1>4, <4>3
          <5>2. QED
            BY <3>2, <3>3, <4>3, <5>1
        <4>4. QED
          BY <1>5, <4>1, <4>2, <4>3
      <3>4. QED
        BY <3>3 DEF IsInjective
  <1>7. Range(s) = 1 .. numDropped
    <2>1. \A i \in DOMAIN s : s[i] \in 1 .. numDropped
      <3>1. /\ \A i \in 1 .. Len(q) : q[i] \in 1 .. numDropped
            /\ \A i \in 1 .. Len(spawned) : spawned[i] \in 1 .. numDropped
        BY DEF PlacesInv
      <3>2. QED
        BY <1>4, <1>5, <3>1
    <2>2. ASSUME NEW f \in 1 .. numDropped
          PROVE  \E i \in DOMAIN s : s[i] = f
      <3>1. CASE \E i \in 1 .. Len(q) : q[i] = f
        BY <1>1, <1>3, <1>4, <3>1
      <3>2. CASE \E i \in 1 .. Len(spawned) : spawned[i] = f
        <4>1. PICK i \in 1 .. Len(spawned) : spawned[i] = f
          BY <3>2
        <4>2. Len(q) + i \in DOMAIN s
          BY <1>1, <1>3
        <4>3. QED
          BY <1>4, <4>1, <4>2
      <3>3. QED
        BY <3>1, <3>2 DEF PlacesInv
    <2>3. QED
      BY <2>1, <2>2 DEF Range
  <1>8. \A i, j \in DOMAIN q : i < j => q[i] < q[j]
    BY <1>1 DEF PlacesInv
  <1>9. q # <<>> => ingestTask = Last(spawned)
    BY DEF TaskInv, Last
  <1>10. QED
    BY <1>6, <1>7, <1>8, <1>9 DEF DropsKept, TaskInv, s

(* Every dropped file is waiting, being ingested or ingested, each once and   *)
(* in the order the queue gives, and every ended ingestion is seen, for any   *)
(* number of files and however drops, frames and ends of ingestions fall.     *)
THEOREM DropsAlwaysKept == DropsSpec => []DropsKept
  <1>1. DropsInit => PlacesInv /\ TaskInv
    BY DropsStart
  <1>2. PlacesInv /\ TaskInv /\ [DropsNext]_dropped => (PlacesInv /\ TaskInv)'
    BY DropsStep
  <1>3. PlacesInv /\ TaskInv => DropsKept
    BY QueueIsKept
  <1>4. QED
    BY <1>1, <1>2, <1>3, PTL DEF DropsSpec

-----------------------------------------------------------------------------
(* Trace frequencies.                                                      *)

(* How often x is in bag B, and in sequence s. *)
CopiesOf(B, x) == IF x \in DOMAIN B THEN B[x] ELSE 0
Occurs(s, x) == Cardinality({i \in DOMAIN s : s[i] = x})

(* The members of a sequence occur in it as often as it is long. *)
LEMMA OccurrencesAddUp ==
    ASSUME NEW X, NEW s \in Seq(X), NEW D, IsFiniteSet(D), Range(s) \subseteq D
    PROVE  /\ \A x \in D : Occurs(s, x) \in Nat
           /\ \A x \in D : Occurs(s, x) > 0 <=> x \in Range(s)
           /\ Total(D, [x \in D |-> Occurs(s, x)]) = Len(s)
  <1> DEFINE I == DOMAIN s
             Spots(x) == {i \in I : s[i] = x}
             ones == [i \in I |-> 1]
  <1>1. IsFiniteSet(I) /\ Cardinality(I) = Len(s) /\ Len(s) \in Nat
    <2>1. I = 1 .. Len(s) /\ Len(s) \in Nat
      OBVIOUS
    <2>2. QED
      BY <2>1, FS_Interval
  <1>2. \A x : IsFiniteSet(Spots(x)) /\ Cardinality(Spots(x)) \in Nat
    BY <1>1, FS_Subset, FS_CardinalityType
  <1>3. \A x \in D : Occurs(s, x) \in Nat
    BY <1>2 DEF Occurs
  <1>4. ASSUME NEW x \in D PROVE Occurs(s, x) > 0 <=> x \in Range(s)
    <2>1. Spots(x) # {} <=> x \in Range(s)
      BY DEF Range
    <2>2. Cardinality(Spots(x)) = 0 <=> Spots(x) = {}
      BY <1>2, FS_EmptySet
    <2>3. Occurs(s, x) = Cardinality(Spots(x))
      BY DEF Occurs
    <2> HIDE DEF Spots
    <2>4. QED
      BY <1>2, <2>1, <2>2, <2>3
  <1>5. \A x \in D : Total(Spots(x), ones) = Occurs(s, x)
    <2> SUFFICES ASSUME NEW x \in D PROVE Total(Spots(x), ones) = Occurs(s, x)
      OBVIOUS
    <2>1. \A i \in Spots(x) : ones[i] = 1
      OBVIOUS
    <2>2. Total(Spots(x), ones) = 1 * Cardinality(Spots(x))
      <3> HIDE DEF Spots, ones
      <3>1. QED
        BY <1>2, <2>1, TotalEqual
    <2>3. Occurs(s, x) = Cardinality(Spots(x)) /\ Cardinality(Spots(x)) \in Nat
      BY <1>2 DEF Occurs
    <2> HIDE DEF Spots, ones
    <2>4. QED
      BY <2>2, <2>3
  <1>6. Total(D, [x \in D |-> Total(Spots(x), ones)]) = Total(I, ones)
    <2>1. \A i \in I : s[i] \in D /\ ones[i] \in Nat
      BY DEF Range
    <2> HIDE DEF I, ones
    <2>2. QED
      BY <1>1, <2>1, TotalByValue
  <1>7. Total(I, ones) = Len(s)
    <2>1. \A i \in I : ones[i] = 1
      OBVIOUS
    <2>2. Total(I, ones) = 1 * Cardinality(I)
      <3> HIDE DEF I, ones
      <3>1. QED
        BY <1>1, <2>1, TotalEqual
    <2>3. QED
      BY <1>1, <2>2
  <1>8. Total(D, [x \in D |-> Occurs(s, x)]) = Total(D, [x \in D |-> Total(Spots(x), ones)])
    <2> HIDE DEF Spots, ones
    <2>1. QED
      BY <1>5, TotalSame
  <1>9. QED
    BY <1>3, <1>4, <1>6, <1>7, <1>8

IsGroups(B) == IsFiniteSet(DOMAIN B) /\ B \in [DOMAIN B -> Nat \ {0}]

(* A bag that takes in a sequence.                                          *)
LEMMA MoreCopies ==
    ASSUME NEW B, IsGroups(B), NEW X, NEW s \in Seq(X), NEW C, C = B (+) Copies(s)
    PROVE  /\ IsGroups(C)
           /\ \A x : CopiesOf(C, x) = CopiesOf(B, x) + Occurs(s, x)
           /\ Total(DOMAIN C, C) = Total(DOMAIN B, B) + Len(s)
  <1> DEFINE D == DOMAIN B \cup Range(s)
             u == [x \in D |-> CopiesOf(B, x)]
             v == [x \in D |-> Occurs(s, x)]
  <1>1. IsFiniteSet(DOMAIN s) /\ IsFiniteSet(Range(s)) /\ Len(s) \in Nat
    <2>1. DOMAIN s = 1 .. Len(s) /\ Len(s) \in Nat
      OBVIOUS
    <2>2. IsFiniteSet(DOMAIN s)
      BY <2>1, FS_Interval
    <2>3. Range(s) = {s[i] : i \in DOMAIN s}
      BY DEF Range
    <2>4. IsFiniteSet(Range(s))
      <3>1. s \in [DOMAIN s -> Range(s)] /\ s \in Surjection(DOMAIN s, Range(s))
        BY <2>1, <2>3 DEF Surjection
      <3>2. QED
        BY <2>2, <3>1, FS_Surjection
    <2>5. QED
      BY <2>1, <2>2, <2>4
  <1>2. IsFiniteSet(D)
    BY <1>1, FS_Union DEF IsGroups
  <1>3. \A x : Occurs(s, x) \in Nat
    BY <1>1, FS_Subset, FS_CardinalityType DEF Occurs
  <1>4. \A x \in D : Occurs(s, x) > 0 <=> x \in Range(s)
    BY <1>2, OccurrencesAddUp
  <1>5. Total(D, v) = Len(s)
    BY <1>2, OccurrencesAddUp
  <1>6. \A x : x \notin Range(s) => Occurs(s, x) = 0
    <2> SUFFICES ASSUME NEW x, x \notin Range(s) PROVE Occurs(s, x) = 0
      OBVIOUS
    <2>1. {i \in DOMAIN s : s[i] = x} = {}
      BY DEF Range
    <2>2. QED
      BY <2>1, FS_EmptySet DEF Occurs
  <1>7. C = [x \in D |-> CopiesOf(B, x) + Occurs(s, x)]
    <2>1. DOMAIN Copies(s) = Range(s)
      BY DEF Copies
    <2>2. C = [x \in D |-> CopiesOf(B, x) + (IF x \in Range(s) THEN Copies(s)[x] ELSE 0)]
      BY <2>1 DEF (+), CopiesOf
    <2>3. \A x \in D : (IF x \in Range(s) THEN Copies(s)[x] ELSE 0) = Occurs(s, x)
      BY <1>6 DEF Copies, Occurs
    <2>4. QED
      BY <2>2, <2>3
  <1>8. \A x : CopiesOf(B, x) \in Nat /\ (x \in DOMAIN B => CopiesOf(B, x) > 0)
    BY DEF CopiesOf, IsGroups
  <1>9. \A x \in D : u[x] \in Nat /\ v[x] \in Nat /\ C[x] = u[x] + v[x]
    BY <1>3, <1>7, <1>8
  <1>10. DOMAIN C = D
    BY <1>7
  <1>11. IsGroups(C)
    <2>1. \A x \in D : C[x] \in Nat \ {0}
      <3> SUFFICES ASSUME NEW x \in D PROVE C[x] \in Nat \ {0}
        OBVIOUS
      <3>1. C[x] = CopiesOf(B, x) + Occurs(s, x)
        BY <1>7
      <3>2. CopiesOf(B, x) > 0 \/ Occurs(s, x) > 0
        BY <1>4, <1>8
      <3>3. QED
        BY <1>3, <1>8, <3>1, <3>2
    <2>2. C \in [D -> Nat \ {0}]
      BY <1>7, <2>1
    <2>3. QED
      BY <1>2, <1>10, <2>2 DEF IsGroups
  <1>12. \A x : CopiesOf(C, x) = CopiesOf(B, x) + Occurs(s, x)
    <2> SUFFICES ASSUME NEW x PROVE CopiesOf(C, x) = CopiesOf(B, x) + Occurs(s, x)
      OBVIOUS
    <2>1. CASE x \in D
      BY <1>7, <1>10, <2>1 DEF CopiesOf
    <2>2. CASE x \notin D
      <3>1. CopiesOf(C, x) = 0 /\ CopiesOf(B, x) = 0 /\ Occurs(s, x) = 0
        BY <1>6, <1>10, <2>2 DEF CopiesOf
      <3>2. QED
        BY <3>1
    <2>3. QED
      BY <2>1, <2>2
  <1>13. Total(D, C) = Total(D, u) + Total(D, v)
    <2> HIDE DEF D, u, v
    <2>1. QED
      BY <1>2, <1>9, TotalSum
  <1>14. Total(D, u) = Total(DOMAIN B, u)
    <2>1. \A x \in D \ DOMAIN B : u[x] = 0
      BY DEF CopiesOf
    <2>2. \A x \in D : u[x] \in Nat
      BY <1>9
    <2>3. DOMAIN B \subseteq D
      OBVIOUS
    <2> HIDE DEF D, u
    <2>4. QED
      BY <1>2, <2>1, <2>2, <2>3, TotalZero
  <1>15. Total(DOMAIN B, u) = Total(DOMAIN B, B)
    <2>1. \A x \in DOMAIN B : u[x] = B[x]
      BY DEF CopiesOf
    <2> HIDE DEF u
    <2>2. QED
      BY <2>1, TotalSame DEF IsGroups
  <1> HIDE DEF D, u, v
  <1>16. QED
    BY <1>5, <1>10, <1>11, <1>12, <1>13, <1>14, <1>15
(* The shares of the events in group g.                                     *)
SharesOf(g) == [k \in EventKeys |-> Share(k, g)]
CallsOf == [k \in EventKeys |-> Len(Sample[k].trace)]

(* The groups are those of the events that have been folded: ...            *)
FreqTypes ==
    /\ figure \in Figures \cup {"none"}
    /\ yet \subseteq EventKeys /\ matched \subseteq EventKeys /\ missed \subseteq EventKeys
    /\ matched \cap missed = {} /\ yet \cap (matched \cup missed) = {}
    /\ IsGroups(groups)
    /\ figure = "none" =>
          yet = {} /\ matched = {} /\ missed = {} /\ groups = EmptyBag

(* ... each as large as its share of them, and all together as large as     *)
(* what was added.                                                          *)
GroupsInv ==
    figure # "none" =>
       /\ \A g : ~IsLost(g) => CopiesOf(groups, g) = Total(matched, SharesOf(g))
       /\ figure = "no leaf" => CopiesOf(groups, Lost) = Cardinality(missed)
       /\ Total(DOMAIN groups, groups) =
             CASE figure = "trace" -> Cardinality(matched)
               [] figure = "no leaf" -> Cardinality(matched \cup missed)
               [] figure = "frame" -> Total(matched, CallsOf)

FreqInv == FreqTypes /\ GroupsInv

(* There are finitely many events.                                          *)
LEMMA FiniteKeys == ASSUME NEW S \in SUBSET EventKeys PROVE IsFiniteSet(S)
  BY FS_Subset, EventQueriesAssumption

(* A trace, without its leaf, too, is a sequence of frames.                 *)
LEMMA TraceIs ==
    ASSUME NEW k \in EventKeys, NEW t, t = Sample[k].trace
    PROVE  /\ t \in Seq(Frames) /\ WithoutLeaf(t) \in Seq(Frames)
           /\ t # Lost /\ WithoutLeaf(t) # Lost
  <1>1. t \in Seq(Frames)
    BY ProfileAssumption DEF Traces
  <1>2. WithoutLeaf(t) \in Seq(Frames)
    BY <1>1 DEF WithoutLeaf
  <1>3. Lost \notin Seq(Frames)
    <2> SUFFICES ASSUME Lost \in Seq(Frames) PROVE FALSE
      OBVIOUS
    <2>1. Lost[1] \in Frames /\ Lost[1] = NoFunc
      BY DEF Lost
    <2>2. QED
      BY <2>1, ProfileAssumption
  <1>4. QED
    BY <1>1, <1>2, <1>3

(* A sequence of one occurs once in itself, ...                             *)
LEMMA OneOccurs ==
    ASSUME NEW t, NEW g PROVE Occurs(<<t>>, g) = IF t = g THEN 1 ELSE 0
  <1>1. CASE t = g
    <2>1. {i \in DOMAIN <<t>> : <<t>>[i] = g} = {1}
      BY <1>1
    <2>2. QED
      BY <1>1, <2>1, FS_Singleton DEF Occurs
  <1>2. CASE t # g
    <2>1. {i \in DOMAIN <<t>> : <<t>>[i] = g} = {}
      BY <1>2
    <2>2. QED
      BY <1>2, <2>1, FS_EmptySet DEF Occurs
  <1>3. QED
    BY <1>1, <1>2

(* ... and nothing occurs in none.                                          *)
LEMMA NoneOccurs == ASSUME NEW g PROVE Occurs(<<>>, g) = 0
  <1>1. {i \in DOMAIN <<>> : <<>>[i] = g} = {}
    OBVIOUS
  <1>2. QED
    BY <1>1, FS_EmptySet DEF Occurs

(* An event adds its share to each group.                                   *)
LEMMA SharesAdded ==
    ASSUME NEW k \in EventKeys, NEW t, t = Sample[k].trace, figure \in Figures
    PROVE  /\ \E X : AddsTo(t, TRUE) \in Seq(X)
           /\ \A g : Share(k, g) \in Nat /\ Occurs(AddsTo(t, TRUE), g) = Share(k, g)
           /\ Len(AddsTo(t, TRUE)) = IF figure = "frame" THEN Len(t) ELSE 1
           /\ figure = "no leaf" => Share(k, Lost) = 0
           /\ Len(t) \in Nat
  <1>1. /\ t \in Seq(Frames) /\ WithoutLeaf(t) \in Seq(Frames)
        /\ t # Lost /\ WithoutLeaf(t) # Lost
    BY TraceIs
  <1>2. DOMAIN t = 1 .. Len(t) /\ Len(t) \in Nat
    BY <1>1
  <1>3. \A g : Occurs(t, g) \in Nat
    <2>1. IsFiniteSet(DOMAIN t)
      BY <1>2, FS_Interval
    <2>2. \A g : {i \in DOMAIN t : t[i] = g} \in SUBSET DOMAIN t
      OBVIOUS
    <2>3. \A g : IsFiniteSet({i \in DOMAIN t : t[i] = g})
      BY <2>1, <2>2, FS_Subset
    <2>4. QED
      BY <2>3, FS_CardinalityType DEF Occurs
  <1>4. CASE figure \in {"trace", "no leaf"}
    <2> DEFINE u == IF figure = "trace" THEN t ELSE WithoutLeaf(t)
    <2>1. AddsTo(t, TRUE) = <<u>>
      BY <1>4 DEF AddsTo
    <2>2. \A g : Share(k, g) = IF u = g THEN 1 ELSE 0
      BY <1>4 DEF Share, WithoutLeaf
    <2>3. u # Lost
      BY <1>1
    <2> HIDE DEF u
    <2>4. <<u>> \in Seq({u}) /\ Len(<<u>>) = 1
      OBVIOUS
    <2>5. \A g : Occurs(<<u>>, g) = IF u = g THEN 1 ELSE 0
      BY OneOccurs
    <2>6. \E X : AddsTo(t, TRUE) \in Seq(X)
      BY <2>1, <2>4
    <2>7. ASSUME NEW g
          PROVE  Share(k, g) \in Nat /\ Occurs(AddsTo(t, TRUE), g) = Share(k, g)
      <3>1. Share(k, g) = IF u = g THEN 1 ELSE 0
        BY <2>2
      <3>2. Occurs(AddsTo(t, TRUE), g) = IF u = g THEN 1 ELSE 0
        BY <2>1, <2>5
      <3>3. Share(k, g) \in {0, 1}
        BY <3>1
      <3>4. Share(k, g) = Occurs(AddsTo(t, TRUE), g)
        BY <3>1, <3>2, Zenon
      <3>5. \A x \in {0, 1} : x \in Nat
        OBVIOUS
      <3>6. QED
        BY <3>3, <3>4, <3>5, Zenon
    <2>8. Len(AddsTo(t, TRUE)) = 1 /\ figure # "frame"
      BY <1>4, <2>1, <2>4
    <2>9. Share(k, Lost) = 0
      BY <2>2, <2>3
    <2>10. QED
      BY <1>2, <2>6, <2>7, <2>8, <2>9
  <1>5. CASE figure = "frame"
    <2>1. AddsTo(t, TRUE) = t
      BY <1>5 DEF AddsTo
    <2>2. \A g : Share(k, g) = Occurs(t, g)
      BY <1>5 DEF Share, Occurs
    <2>3. \E X : AddsTo(t, TRUE) \in Seq(X)
      BY <1>1, <2>1
    <2>4. \A g : Share(k, g) \in Nat /\ Occurs(AddsTo(t, TRUE), g) = Share(k, g)
      BY <1>3, <2>1, <2>2
    <2>5. QED
      BY <1>2, <1>5, <2>1, <2>3, <2>4
  <1>6. QED
    BY <1>4, <1>5 DEF Figures

(* An event more that was matched.                                          *)
LEMMA OneMatched ==
    ASSUME FreqTypes, figure \in Figures, NEW k \in yet
    PROVE  /\ \A g : Total(matched \cup {k}, SharesOf(g)) = Share(k, g) + Total(matched, SharesOf(g))
           /\ \A g : Total(matched, SharesOf(g)) \in Nat
           /\ Total(matched \cup {k}, CallsOf) = Len(Sample[k].trace) + Total(matched, CallsOf)
           /\ Total(matched, CallsOf) \in Nat
           /\ Cardinality(matched \cup {k}) = Cardinality(matched) + 1
           /\ Cardinality(matched) \in Nat
  <1>1. /\ k \in EventKeys /\ k \notin matched /\ matched \subseteq EventKeys
        /\ matched \cup {k} \subseteq EventKeys
    BY DEF FreqTypes
  <1>2. IsFiniteSet(matched)
    BY <1>1, FiniteKeys
  <1>3. \A j \in EventKeys : CallsOf[j] \in Nat /\ CallsOf[j] = Len(Sample[j].trace)
    BY SharesAdded DEF CallsOf
  <1>4. \A g : \A j \in EventKeys : SharesOf(g)[j] \in Nat /\ SharesOf(g)[j] = Share(j, g)
    BY SharesAdded DEF SharesOf
  <1>5. Total(matched \cup {k}, CallsOf) = CallsOf[k] + Total(matched, CallsOf)
    BY <1>1, <1>2, <1>3, TotalWith
  <1>6. Total(matched, CallsOf) \in Nat
    BY <1>1, <1>2, <1>3, TotalNat
  <1>7. ASSUME NEW g
        PROVE  /\ Total(matched \cup {k}, SharesOf(g)) = SharesOf(g)[k] + Total(matched, SharesOf(g))
               /\ Total(matched, SharesOf(g)) \in Nat
    <2>1. \A j \in matched \cup {k} : SharesOf(g)[j] \in Nat
      BY <1>1, <1>4
    <2>2. Total(matched \cup {k}, SharesOf(g)) = SharesOf(g)[k] + Total(matched, SharesOf(g))
      BY <1>1, <1>2, <2>1, TotalWith
    <2>3. Total(matched, SharesOf(g)) \in Nat
      BY <1>2, <2>1, TotalNat
    <2>4. QED
      BY <2>2, <2>3
  <1>8. Cardinality(matched \cup {k}) = Cardinality(matched) + 1 /\ Cardinality(matched) \in Nat
    BY <1>1, <1>2, FS_AddElement, FS_CardinalityType
  <1>9. QED
    BY <1>1, <1>3, <1>4, <1>5, <1>6, <1>7, <1>8
(* A figure is asked for: no event, no group. *)
LEMMA FreqEmpty ==
    ASSUME NEW fig \in Figures, figure' = fig, groups' = EmptyBag, matched' = {}, missed' = {},
           yet' \subseteq EventKeys
    PROVE  FreqInv'
  <1>1. DOMAIN groups' = {} /\ IsGroups(groups')
    BY FS_EmptySet DEF EmptyBag, SetToBag, IsGroups
  <1>2. FreqTypes'
    BY <1>1 DEF FreqTypes, Figures
  <1>3. \A g : CopiesOf(groups', g) = 0
    BY <1>1 DEF CopiesOf
  <1>4. Cardinality({}) = 0 /\ {} \cup {} = {}
    BY FS_EmptySet
  <1>5. Total(DOMAIN groups', groups') = 0 /\ Total({}, CallsOf) = 0
    BY <1>1, TotalNone
  <1>6. \A g : Total(matched', SharesOf(g)') = 0
    BY TotalNone
  <1>7. GroupsInv'
    BY <1>3, <1>4, <1>5, <1>6 DEF GroupsInv, Figures
  <1>8. QED
    BY <1>2, <1>7 DEF FreqInv

(* An event is folded: it is matched, missed or left out by the filter.     *)
LEMMA FoldStep == ASSUME FreqInv, FoldEvent PROVE FreqInv'
  <1> DEFINE k == First(yet)
             t == Sample[k].trace
             found == t \in stored \/ (figure = "trace" /\ BagIn(t, groups))
             s == AddsTo(t, found)
  <1>1. k \in yet /\ k \in EventKeys
    BY FirstIsKey DEF FoldEvent, FreqInv, FreqTypes
  <1>2. /\ groups' = groups (+) Copies(s)
        /\ matched' = IF found THEN matched \cup {k} ELSE matched
        /\ missed' = IF found THEN missed ELSE missed \cup {k}
        /\ yet' = yet \ {k} /\ figure' = figure
    BY DEF FoldEvent
  <1>3. figure \in Figures
    BY <1>1 DEF FreqInv, FreqTypes
  <1>4. /\ IsGroups(groups)
        /\ \A g : ~IsLost(g) => CopiesOf(groups, g) = Total(matched, SharesOf(g))
        /\ figure = "no leaf" => CopiesOf(groups, Lost) = Cardinality(missed)
        /\ Total(DOMAIN groups, groups) =
             CASE figure = "trace" -> Cardinality(matched)
               [] figure = "no leaf" -> Cardinality(matched \cup missed)
               [] figure = "frame" -> Total(matched, CallsOf)
    BY <1>3 DEF FreqInv, FreqTypes, GroupsInv, Figures
  <1>5. /\ \E X : AddsTo(t, TRUE) \in Seq(X)
        /\ \A g : Share(k, g) \in Nat /\ Occurs(AddsTo(t, TRUE), g) = Share(k, g)
        /\ Len(AddsTo(t, TRUE)) = IF figure = "frame" THEN Len(t) ELSE 1
        /\ figure = "no leaf" => Share(k, Lost) = 0
        /\ Len(t) \in Nat
    BY <1>1, <1>3, SharesAdded
  <1>6. /\ \A g : Total(matched \cup {k}, SharesOf(g)) = Share(k, g) + Total(matched, SharesOf(g))
        /\ \A g : Total(matched, SharesOf(g)) \in Nat
        /\ Total(matched \cup {k}, CallsOf) = Len(t) + Total(matched, CallsOf)
        /\ Total(matched, CallsOf) \in Nat
        /\ Cardinality(matched \cup {k}) = Cardinality(matched) + 1
        /\ Cardinality(matched) \in Nat
    BY <1>1, <1>3, OneMatched DEF FreqInv
  <1>7. /\ Cardinality(missed \cup {k}) = Cardinality(missed) + 1
        /\ Cardinality(missed) \in Nat
        /\ Cardinality((matched \cup missed) \cup {k}) = Cardinality(matched \cup missed) + 1
        /\ Cardinality(matched \cup missed) \in Nat
    <2>1. /\ k \notin missed /\ k \notin matched \cup missed
          /\ missed \subseteq EventKeys /\ matched \cup missed \subseteq EventKeys
      BY <1>1 DEF FreqInv, FreqTypes
    <2>2. IsFiniteSet(missed) /\ IsFiniteSet(matched \cup missed)
      BY <2>1, FiniteKeys
    <2>3. QED
      BY <2>1, <2>2, FS_AddElement, FS_CardinalityType
  <1>8. \A g : SharesOf(g)' = SharesOf(g)
    BY <1>2 DEF SharesOf, Share
  <1>9. CallsOf' = CallsOf
    BY DEF CallsOf
  <1>10. /\ yet' \subseteq EventKeys /\ matched' \subseteq EventKeys /\ missed' \subseteq EventKeys
         /\ matched' \cap missed' = {} /\ yet' \cap (matched' \cup missed') = {}
         /\ figure' \in Figures
    BY <1>1, <1>2, <1>3 DEF FreqInv, FreqTypes
  <1>11. ASSUME NEW X, s \in Seq(X)
         PROVE  /\ IsGroups(groups')
                /\ \A x : CopiesOf(groups', x) = CopiesOf(groups, x) + Occurs(s, x)
                /\ Total(DOMAIN groups', groups') = Total(DOMAIN groups, groups) + Len(s)
    <2> DEFINE C == groups'
    <2>1. C = groups (+) Copies(s)
      BY <1>2
    <2> HIDE DEF s, C
    <2>2. /\ IsGroups(C)
          /\ \A x : CopiesOf(C, x) = CopiesOf(groups, x) + Occurs(s, x)
          /\ Total(DOMAIN C, C) = Total(DOMAIN groups, groups) + Len(s)
      <3>1. IsGroups(groups)
        BY <1>4
      <3>2. QED
        BY <1>11, <2>1, <3>1, MoreCopies
    <2>3. QED
      BY <2>2 DEF C
  <1> HIDE DEF k, t, s
  <1>12. CASE found
    <2>1. s = AddsTo(t, TRUE)
      BY <1>12 DEF s
    <2>2. /\ IsGroups(groups')
          /\ \A x : CopiesOf(groups', x) = CopiesOf(groups, x) + Share(k, x)
          /\ Total(DOMAIN groups', groups') =
                Total(DOMAIN groups, groups) + IF figure = "frame" THEN Len(t) ELSE 1
      BY <1>5, <1>11, <2>1
    <2>3. matched' = matched \cup {k} /\ missed' = missed
      BY <1>2, <1>12
    <2>4. ASSUME NEW g, ~IsLost(g) PROVE CopiesOf(groups', g) = Total(matched', SharesOf(g)')
      <3>1. CopiesOf(groups', g) = CopiesOf(groups, g) + Share(k, g)
        BY <2>2
      <3>2. CopiesOf(groups, g) = Total(matched, SharesOf(g))
        BY <1>4, <2>4
      <3>3. Total(matched', SharesOf(g)') = Share(k, g) + Total(matched, SharesOf(g))
        BY <1>6, <1>8, <2>3
      <3>4. Share(k, g) \in Nat /\ Total(matched, SharesOf(g)) \in Nat
        BY <1>5, <1>6
      <3>5. QED
        BY <3>1, <3>2, <3>3, <3>4
    <2>5. ASSUME figure = "no leaf" PROVE CopiesOf(groups', Lost) = Cardinality(missed')
      <3>1. CopiesOf(groups', Lost) = CopiesOf(groups, Lost) + Share(k, Lost)
        BY <2>2
      <3>2. CopiesOf(groups, Lost) = Cardinality(missed) /\ Share(k, Lost) = 0
        BY <1>4, <1>5, <2>5
      <3>3. QED
        BY <1>7, <2>3, <3>1, <3>2
    <2>6. Total(DOMAIN groups', groups') =
             CASE figure = "trace" -> Cardinality(matched')
               [] figure = "no leaf" -> Cardinality(matched' \cup missed')
               [] figure = "frame" -> Total(matched', CallsOf)
      <3>1. CASE figure = "trace"
        BY <1>4, <1>6, <2>2, <2>3, <3>1
      <3>2. CASE figure = "no leaf"
        <4>1. matched' \cup missed' = (matched \cup missed) \cup {k}
          BY <2>3
        <4>2. QED
          BY <1>4, <1>7, <2>2, <3>2, <4>1
      <3>3. CASE figure = "frame"
        BY <1>4, <1>5, <1>6, <2>2, <2>3, <3>3
      <3>4. QED
        BY <1>3, <3>1, <3>2, <3>3 DEF Figures
    <2>7. FreqTypes'
      BY <1>10, <2>2 DEF FreqTypes, Figures
    <2>8. GroupsInv'
      BY <1>2, <1>9, <2>4, <2>5, <2>6 DEF GroupsInv, IsLost
    <2>9. QED
      BY <2>7, <2>8 DEF FreqInv
  <1>13. CASE ~found
    <2>1. s = IF figure = "no leaf" THEN <<Lost>> ELSE <<>>
      <3>1. found = FALSE
        BY <1>13
      <3> HIDE DEF found
      <3>2. s = AddsTo(t, FALSE)
        BY <3>1 DEF s
      <3>3. QED
        BY <1>3, <3>2 DEF AddsTo, Figures
    <2>2. /\ s \in Seq({Lost}) /\ Len(s) = IF figure = "no leaf" THEN 1 ELSE 0
      <3>1. \A x : <<x>> \in Seq({x}) /\ Len(<<x>>) = 1
        OBVIOUS
      <3>2. \A X : <<>> \in Seq(X) /\ Len(<<>>) = 0
        OBVIOUS
      <3>3. CASE figure = "no leaf"
        BY <2>1, <3>1, <3>3
      <3>4. CASE figure # "no leaf"
        BY <2>1, <3>2, <3>4
      <3>5. QED
        BY <3>3, <3>4
    <2>3. \A g : Occurs(s, g) = IF figure = "no leaf" /\ g = Lost THEN 1 ELSE 0
      BY <2>1, OneOccurs, NoneOccurs
    <2>4. /\ IsGroups(groups')
          /\ \A x : CopiesOf(groups', x) = CopiesOf(groups, x) + Occurs(s, x)
          /\ Total(DOMAIN groups', groups') = Total(DOMAIN groups, groups) + Len(s)
      BY <1>11, <2>2
    <2>5. matched' = matched /\ missed' = missed \cup {k}
      BY <1>2, <1>13
    <2>6. ASSUME NEW g, ~IsLost(g) PROVE CopiesOf(groups', g) = Total(matched', SharesOf(g)')
      <3>1. CopiesOf(groups', g) = CopiesOf(groups, g) + 0
        <4>1. Occurs(s, g) = 0
          BY <2>3, <2>6 DEF IsLost
        <4>2. QED
          BY <2>4, <4>1
      <3>2. CopiesOf(groups, g) = Total(matched, SharesOf(g))
        BY <1>4, <2>6
      <3>3. QED
        BY <1>6, <1>8, <2>5, <3>1, <3>2
    <2>7. ASSUME figure = "no leaf" PROVE CopiesOf(groups', Lost) = Cardinality(missed')
      <3>1. CopiesOf(groups', Lost) = CopiesOf(groups, Lost) + 1
        BY <2>3, <2>4, <2>7
      <3>2. CopiesOf(groups, Lost) = Cardinality(missed)
        BY <1>4, <2>7
      <3>3. QED
        BY <1>7, <2>5, <3>1, <3>2
    <2>8. Total(DOMAIN groups', groups') =
             CASE figure = "trace" -> Cardinality(matched')
               [] figure = "no leaf" -> Cardinality(matched' \cup missed')
               [] figure = "frame" -> Total(matched', CallsOf)
      <3>1. CASE figure = "trace"
        BY <1>4, <1>6, <2>2, <2>4, <2>5, <3>1
      <3>2. CASE figure = "no leaf"
        <4>1. matched' \cup missed' = (matched \cup missed) \cup {k}
          BY <2>5
        <4>2. QED
          BY <1>4, <1>7, <2>2, <2>4, <3>2, <4>1
      <3>3. CASE figure = "frame"
        BY <1>4, <1>6, <2>2, <2>4, <2>5, <3>3
      <3>4. QED
        BY <1>3, <3>1, <3>2, <3>3 DEF Figures
    <2>9. FreqTypes'
      BY <1>10, <2>4 DEF FreqTypes, Figures
    <2>10. GroupsInv'
      BY <1>2, <1>9, <2>6, <2>7, <2>8 DEF GroupsInv, IsLost
    <2>11. QED
      BY <2>9, <2>10 DEF FreqInv
  <1>14. QED
    BY <1>12, <1>13
(* Every step of the views keeps it. *)
LEMMA FreqStep == FreqInv /\ TablesOK /\ [ViewsNext]_<<vars, views, apart>> => FreqInv'
  <1> SUFFICES ASSUME FreqInv, TablesOK, [ViewsNext]_<<vars, views, apart>> PROVE FreqInv'
    OBVIOUS
  <1>1. ASSUME UNCHANGED freq PROVE FreqInv'
    <2>1. UNCHANGED <<figure, yet, groups, matched, missed>>
      BY <1>1 DEF freq
    <2>2. FreqTypes'
      BY <2>1 DEF FreqTypes, FreqInv
    <2>3. \A g : SharesOf(g)' = SharesOf(g)
      BY <2>1 DEF SharesOf, Share
    <2>4. GroupsInv'
      BY <2>1, <2>3 DEF GroupsInv, FreqInv, CallsOf, IsLost
    <2>5. QED
      BY <2>2, <2>4 DEF FreqInv
  <1>2. ASSUME NEW q \in Ranges, NEW v \in Values, AskFreq(q, v) PROVE FreqInv'
    <2>1. groups = EmptyBag /\ matched = {} /\ missed = {}
      BY <1>2 DEF AskFreq, FreqInv, FreqTypes
    <2>2. yet' \subseteq EventKeys
      BY <1>2 DEF AskFreq, TimeRange, TablesOK
    <2>3. v[1] \in Figures
      BY DEF Values
    <2>4. QED
      BY <1>2, <2>1, <2>2, <2>3, FreqEmpty DEF AskFreq
  <1>3. ASSUME DropFreq PROVE FreqInv'
    <2>1. /\ figure' = "none" /\ groups' = EmptyBag /\ matched' = {} /\ missed' = {}
          /\ yet' = {}
      BY <1>3 DEF DropFreq, FreqDone
    <2>2. IsGroups(groups')
      BY <2>1, FS_EmptySet DEF EmptyBag, SetToBag, IsGroups
    <2>3. FreqTypes'
      BY <2>1, <2>2 DEF FreqTypes
    <2>4. GroupsInv'
      BY <2>1 DEF GroupsInv
    <2>5. QED
      BY <2>3, <2>4 DEF FreqInv
  <1>4. CASE FreqNext
    BY <1>1, <1>2, <1>3, <1>4, FoldStep DEF FreqNext
  <1>5. CASE UNCHANGED freq
    BY <1>1, <1>5
  <1>6. QED
    BY <1>4, <1>5 DEF ViewsNext, TablesNext, views

(* The groups there are are those that are met, each as large as it is met.  *)
LEMMA GroupsAreMet ==
    ASSUME FreqInv, figure \in Figures
    PROVE  /\ DOMAIN groups = GroupsMet
           /\ \A g \in GroupsMet : groups[g] = Size(g)
  <1>1. /\ matched \subseteq EventKeys /\ missed \subseteq EventKeys
        /\ IsFiniteSet(matched) /\ IsFiniteSet(missed)
        /\ IsGroups(groups)
    BY FiniteKeys DEF FreqInv, FreqTypes
  <1>2. \A g : CopiesOf(groups, g) = Size(g)
    <2>1. \A g : ~IsLost(g) => CopiesOf(groups, g) = Total(matched, SharesOf(g))
      BY DEF FreqInv, GroupsInv, Figures
    <2>2. \A g : IsLost(g) => CopiesOf(groups, g) = Cardinality(missed)
      BY DEF FreqInv, GroupsInv, Figures, IsLost
    <2>3. QED
      BY <2>1, <2>2 DEF Size, SharesOf
  <1>3. \A g : g \in DOMAIN groups <=> CopiesOf(groups, g) # 0
    BY <1>1 DEF CopiesOf, IsGroups
  <1>4. ASSUME NEW k \in EventKeys, NEW g
        PROVE  /\ Share(k, g) \in Nat
               /\ g \in InEvent(k) <=> Share(k, g) # 0
    <2> DEFINE t == Sample[k].trace
               In == {i \in DOMAIN t : t[i] = g}
    <2>1. Share(k, g) \in Nat
      BY SharesAdded
    <2>2. CASE figure = "trace"
      BY <2>2 DEF Share, InEvent
    <2>3. CASE figure = "no leaf"
      <3>1. /\ InEvent(k) = {SubSeq(t, 2, Len(t))}
            /\ Share(k, g) = IF SubSeq(t, 2, Len(t)) = g THEN 1 ELSE 0
        BY <2>3 DEF Share, InEvent
      <3>2. QED
        BY <2>1, <3>1
    <2>4. CASE figure = "frame"
      <3>1. IsFiniteSet(In)
        <4>1. t \in Seq(Frames)
          BY TraceIs
        <4>2. DOMAIN t = 1 .. Len(t) /\ Len(t) \in Nat
          BY <4>1
        <4>3. IsFiniteSet(DOMAIN t) /\ In \subseteq DOMAIN t
          BY <4>2, FS_Interval
        <4>4. QED
          BY <4>3, FS_Subset
      <3>2. Share(k, g) = Cardinality(In) /\ InEvent(k) = Range(t)
        BY <2>4 DEF Share, InEvent
      <3>3. Cardinality(In) = 0 <=> In = {}
        BY <3>1, FS_EmptySet
      <3>4. g \in Range(t) <=> In # {}
        BY DEF Range
      <3>5. QED
        BY <2>1, <3>2, <3>3, <3>4
    <2>5. QED
      BY <2>1, <2>2, <2>3, <2>4 DEF Figures
  <1>5. ASSUME NEW g
        PROVE  Total(matched, SharesOf(g)) # 0 <=> \E k \in matched : g \in InEvent(k)
    <2> DEFINE w == SharesOf(g)
    <2>1. \A k \in matched : w[k] \in Nat /\ (g \in InEvent(k) <=> w[k] # 0)
      BY <1>1, <1>4 DEF SharesOf
    <2> HIDE DEF w
    <2>2. ASSUME NEW k \in matched, w[k] # 0 PROVE Total(matched, w) # 0
      <3>1. Total(matched, w) = w[k] + Total(matched \ {k}, w)
        BY <1>1, <2>1, TotalWithout
      <3>2. IsFiniteSet(matched \ {k})
        BY <1>1, FS_Subset
      <3>3. Total(matched \ {k}, w) \in Nat
        BY <2>1, <3>2, TotalNat
      <3>4. QED
        BY <2>1, <2>2, <3>1, <3>3
    <2>3. ASSUME \A k \in matched : w[k] = 0 PROVE Total(matched, w) = 0
      <3>1. Total(matched, w) = Total({}, w)
        BY <1>1, <2>1, <2>3, TotalZero
      <3>2. QED
        BY <3>1, TotalNone
    <2>4. QED
      BY <2>1, <2>2, <2>3 DEF w
  <1>6. ASSUME NEW k \in matched, NEW g, IsLost(g) PROVE g \notin InEvent(k)
    <2>1. Share(k, g) = 0
      BY <1>1, <1>6, SharesAdded DEF IsLost
    <2>2. QED
      BY <1>1, <1>4, <2>1
  <1>7. Cardinality(missed) # 0 <=> missed # {}
    BY <1>1, FS_EmptySet
  <1>8. ASSUME NEW g PROVE g \in GroupsMet <=> Size(g) # 0
    <2> DEFINE some == \E k \in matched : g \in InEvent(k)
    <2>1. g \in GroupsMet <=> some \/ (IsLost(g) /\ missed # {})
      <3> DEFINE A == UNION {InEvent(k) : k \in matched}
                 B == {h \in {Lost} : IsLost(h) /\ missed # {}}
      <3>1. IsLost(g) => g = Lost
        BY DEF IsLost
      <3>2. g \in A <=> some
        OBVIOUS
      <3>3. g \in B <=> IsLost(g) /\ missed # {}
        BY <3>1
      <3>4. GroupsMet = A \cup B
        BY DEF GroupsMet
      <3> HIDE DEF A, B, some
      <3>5. QED
        BY <3>2, <3>3, <3>4, Zenon
    <2>2. CASE IsLost(g)
      <3>1. Size(g) = Cardinality(missed)
        BY <2>2 DEF Size
      <3>2. ~some
        BY <1>6, <2>2
      <3> HIDE DEF some
      <3>3. QED
        BY <1>7, <2>1, <2>2, <3>1, <3>2, Zenon
    <2>3. CASE ~IsLost(g)
      <3>1. Size(g) = Total(matched, SharesOf(g))
        BY <2>3 DEF Size, SharesOf
      <3>2. Total(matched, SharesOf(g)) # 0 <=> some
        BY <1>5
      <3> HIDE DEF some
      <3>3. QED
        BY <2>1, <2>3, <3>1, <3>2, Zenon
    <2>4. QED
      BY <2>2, <2>3
  <1>9. DOMAIN groups = GroupsMet
    BY <1>2, <1>3, <1>8
  <1>10. QED
    BY <1>2, <1>9 DEF CopiesOf

(* The invariant says what FreqExact asks for.                              *)
LEMMA FreqShown == ASSUME FreqInv PROVE FreqExact
  <1> SUFFICES ASSUME FreqDone PROVE FreqExact
    BY DEF FreqExact
  <1>1. figure \in Figures
    BY DEF FreqDone, FreqInv, FreqTypes
  <1>2. DOMAIN groups = GroupsMet /\ \A g \in GroupsMet : groups[g] = Size(g)
    BY <1>1, GroupsAreMet
  <1>3. Total(DOMAIN groups, groups) = Sizes
    BY <1>1 DEF FreqInv, GroupsInv, FreqDone, Sizes, CallsOf
  <1>4. Rate = <<Sizes, Cardinality(GroupsMet)>>
    BY <1>2, <1>3 DEF Rate
  <1>5. Bars = [n \in {Size(g) : g \in GroupsMet} |->
                  Cardinality({g \in GroupsMet : Size(g) = n})]
    <2>1. {groups[g] : g \in DOMAIN groups} = {Size(g) : g \in GroupsMet}
      BY <1>2
    <2>2. \A n : {g \in DOMAIN groups : groups[g] = n} = {g \in GroupsMet : Size(g) = n}
      BY <1>2
    <2>3. QED
      BY <2>1, <2>2 DEF Bars
  <1>6. QED
    BY <1>4, <1>5 DEF FreqExact

(* Although traces disappear while the events are folded, a deduplication   *)
(* rate is the average of how often its groups were met, and a histogram    *)
(* counts the groups of each size.                                          *)
THEOREM FreqAlwaysExact == ViewsSpec => []FreqExact
  <1>1. ViewsInit => FreqInv
    <2> SUFFICES ASSUME ViewsInit PROVE FreqInv
      OBVIOUS
    <2>1. /\ figure = "none" /\ yet = {} /\ groups = EmptyBag /\ matched = {} /\ missed = {}
      BY DEF ViewsInit, FreqInit
    <2>2. IsGroups(groups)
      BY <2>1, FS_EmptySet DEF EmptyBag, SetToBag, IsGroups
    <2>3. QED
      BY <2>1, <2>2 DEF FreqInv, FreqTypes, GroupsInv
  <1>2. ViewsInit => TablesOK
    BY ProfileAssumption DEF ViewsInit, Init, ProfileInit, TablesOK, AnyChain, ChainOf
  <1>3. QED
    BY <1>1, <1>2, TablesStep, FreqStep, FreqShown, PTL DEF ViewsSpec

-----------------------------------------------------------------------------
(* Search.  What a node of a tree has from its parent, which comes before it. *)

FromParent(f, n, up, base, below) ==
    \A i \in 1 .. n : f[i] = IF up[i] = 0 THEN base[i] ELSE below[<<i, f[up[i]]>>]

(* There is such a function: of the lengths for which there is none there would*)
(* be a least one.                                                          *)
LEMMA FromParentExists ==
    ASSUME NEW n \in Nat, NEW V, NEW up \in [1 .. n -> Nat], \A i \in 1 .. n : up[i] < i,
           NEW base \in [1 .. n -> V], NEW below \in [(1 .. n) \X V -> V]
    PROVE  \E f \in [1 .. n -> V] : FromParent(f, n, up, base, below)
  <1> DEFINE Fits(f, m) ==
                \A i \in 1 .. m : f[i] = IF up[i] = 0 THEN base[i] ELSE below[<<i, f[up[i]]>>]
             F == {m \in 0 .. n : \A f \in [1 .. n -> V] : ~Fits(f, m)}
  <1>1. Fits(base, 0)
    OBVIOUS
  <1>2. ASSUME F # {} PROVE FALSE
    <2>1. F \in SUBSET Nat
      OBVIOUS
    <2>2. PICK m \in F : \A k \in F : m <= k
      <3> HIDE DEF F
      <3>1. QED
        BY <1>2, <2>1, LeastNatural
    <2>3. m \in 0 .. n /\ \A f \in [1 .. n -> V] : ~Fits(f, m)
      OBVIOUS
    <2>4. m # 0
      <3> HIDE DEF Fits
      <3>1. QED
        BY <1>1, <2>3
    <2>5. m \in 1 .. n /\ m - 1 \in 0 .. n /\ m - 1 \notin F
      <3> HIDE DEF F
      <3>1. QED
        BY <2>2, <2>3, <2>4
    <2>6. PICK f \in [1 .. n -> V] : Fits(f, m - 1)
      <3> HIDE DEF Fits
      <3>1. QED
        BY <2>5
    <2> DEFINE x == IF up[m] = 0 THEN base[m] ELSE below[<<m, f[up[m]]>>]
               g == [f EXCEPT ![m] = x]
    <2>7. x \in V
      <3>1. CASE up[m] = 0
        BY <2>5, <3>1
      <3>2. CASE up[m] # 0
        <4>1. up[m] \in 1 .. n
          BY <2>5, <3>2
        <4>2. <<m, f[up[m]]>> \in (1 .. n) \X V
          BY <2>5, <4>1
        <4>3. QED
          BY <3>2, <4>2
      <3>3. QED
        BY <3>1, <3>2
    <2> HIDE DEF x
    <2>8. g \in [1 .. n -> V] /\ g[m] = x /\ \A i \in 1 .. m - 1 : g[i] = f[i]
      BY <2>5, <2>7
    <2> HIDE DEF g
    <2>9. ASSUME NEW i \in 1 .. m
          PROVE  g[i] = IF up[i] = 0 THEN base[i] ELSE below[<<i, g[up[i]]>>]
      <3>1. up[i] # 0 => up[i] \in 1 .. m - 1 /\ g[up[i]] = f[up[i]]
        <4>1. i \in 1 .. n /\ up[i] \in Nat /\ up[i] < i /\ i <= m
          BY <2>5
        <4>2. up[i] # 0 => up[i] \in 1 .. m - 1
          BY <2>5, <4>1
        <4>3. QED
          BY <2>8, <4>2
      <3>2. CASE i = m
        BY <2>8, <3>1, <3>2 DEF x
      <3>3. CASE i # m
        <4>1. i \in 1 .. m - 1
          BY <2>5, <3>3
        <4>2. f[i] = IF up[i] = 0 THEN base[i] ELSE below[<<i, f[up[i]]>>]
          BY <2>6, <4>1
        <4>3. QED
          BY <2>8, <3>1, <4>1, <4>2
      <3>4. QED
        BY <3>2, <3>3
    <2>10. Fits(g, m)
      BY <2>9
    <2> HIDE DEF Fits
    <2>11. QED
      BY <2>3, <2>8, <2>10
  <1>3. \E f \in [1 .. n -> V] : Fits(f, n)
    <2> HIDE DEF Fits
    <2>1. F = {}
      BY <1>2
    <2>2. n \in 0 .. n
      OBVIOUS
    <2>3. QED
      BY <2>1, <2>2
  <1>4. QED
    BY <1>3 DEF FromParent

(* What a node gets is in V if what it gets for a parent in V is.           *)
LEMMA FromParentTyped ==
    ASSUME NEW n \in Nat, NEW V, NEW up \in [1 .. n -> Nat], \A i \in 1 .. n : up[i] < i,
           NEW f, \A i \in 1 .. n : (up[i] = 0 \/ f[up[i]] \in V) => f[i] \in V
    PROVE  \A i \in 1 .. n : f[i] \in V
  <1> DEFINE F == {i \in 1 .. n : f[i] \notin V}
  <1> SUFFICES ASSUME F # {} PROVE FALSE
    OBVIOUS
  <1>1. F \in SUBSET Nat
    OBVIOUS
  <1>2. PICK i \in F : \A j \in F : i <= j
    <2> HIDE DEF F
    <2>1. QED
      BY <1>1, LeastNatural
  <1>3. i \in 1 .. n /\ f[i] \notin V /\ up[i] \in Nat /\ up[i] < i
    OBVIOUS
  <1>4. up[i] \notin F
    <2> HIDE DEF F
    <2>1. QED
      BY <1>2, <1>3
  <1>5. up[i] = 0 \/ f[up[i]] \in V
    BY <1>3, <1>4
  <1>6. QED
    BY <1>3, <1>5

-----------------------------------------------------------------------------
(* A set of naturals in ascending order.                                   *)

Rank(S, i) == Cardinality({j \in S : j <= i})

(* Every place in the order is taken, ...                                   *)
LEMMA RanksFill ==
    ASSUME NEW S \in SUBSET Nat, IsFiniteSet(S)
    PROVE  \A n \in 1 .. Cardinality(S) : \E i \in S : Rank(S, i) = n
  <1> DEFINE Upto(i) == {j \in S : j <= i}
             rank == [i \in S |-> Rank(S, i)]
             N == 1 .. Cardinality(S)
  <1>1. \A i : IsFiniteSet(Upto(i)) /\ Upto(i) \in SUBSET S /\ Cardinality(Upto(i)) \in Nat
    BY FS_Subset, FS_CardinalityType
  <1>2. Cardinality(S) \in Nat
    BY FS_CardinalityType
  <1>3. ASSUME NEW i \in S PROVE Rank(S, i) \in N
    <2>1. i \in Upto(i)
      OBVIOUS
    <2>2. Cardinality(Upto(i)) # 0
      <3> HIDE DEF Upto
      <3>1. QED
        BY <1>1, <2>1, FS_EmptySet
    <2>3. Cardinality(Upto(i)) <= Cardinality(S)
      <3> HIDE DEF Upto
      <3>1. QED
        BY <1>1, FS_Subset
    <2>4. Rank(S, i) = Cardinality(Upto(i))
      BY DEF Rank
    <2> HIDE DEF Upto
    <2>5. QED
      BY <1>1, <1>2, <2>2, <2>3, <2>4
  <1>4. ASSUME NEW i \in S, NEW j \in S, i < j PROVE Rank(S, i) # Rank(S, j)
    <2>1. Upto(i) \in SUBSET Upto(j) /\ Upto(i) # Upto(j)
      <3>1. \A m \in Upto(i) : m \in Upto(j)
        BY <1>4
      <3>2. j \in Upto(j) /\ j \notin Upto(i)
        BY <1>4
      <3> HIDE DEF Upto
      <3>3. QED
        BY <3>1, <3>2
    <2>2. Rank(S, i) = Cardinality(Upto(i)) /\ Rank(S, j) = Cardinality(Upto(j))
      BY DEF Rank
    <2> HIDE DEF Upto
    <2>3. QED
      BY <1>1, <2>1, <2>2, FS_Subset
  <1>5. rank \in Injection(S, N)
    <2>1. rank \in [S -> N]
      BY <1>3
    <2>2. \A i, j \in S : rank[i] = rank[j] => i = j
      <3> SUFFICES ASSUME NEW i \in S, NEW j \in S, rank[i] = rank[j], i # j PROVE FALSE
        OBVIOUS
      <3>1. i < j \/ j < i
        OBVIOUS
      <3>2. QED
        BY <1>4, <3>1
    <2> HIDE DEF rank, N
    <2>3. QED
      BY <2>1, <2>2 DEF Injection, IsInjective
  <1>6. IsFiniteSet(N) /\ Cardinality(N) = Cardinality(S)
    BY <1>2, FS_Interval
  <1>7. rank \in Surjection(S, N)
    <2> HIDE DEF rank, N
    <2>1. QED
      BY <1>5, <1>6, FS_Injection
  <1>8. \A n \in N : \E i \in S : rank[i] = n
    <2> HIDE DEF rank, N
    <2>1. QED
      BY <1>7 DEF Surjection
  <1>9. QED
    BY <1>8

(* ... so a place in the sequence holds a member.                           *)
LEMMA InOrderMembers ==
    ASSUME NEW S \in SUBSET Nat, IsFiniteSet(S), NEW n \in DOMAIN InOrder(S)
    PROVE  InOrder(S)[n] \in S
  <1>1. n \in 1 .. Cardinality(S)
    BY DEF InOrder
  <1>2. \E i \in S : Cardinality({j \in S : j <= i}) = n
    BY <1>1, RanksFill DEF Rank
  <1>3. InOrder(S)[n] = CHOOSE i \in S : Cardinality({j \in S : j <= i}) = n
    BY <1>1 DEF InOrder
  <1>4. QED
    BY <1>2, <1>3
-----------------------------------------------------------------------------
(* Where the nodes of a tree are.                                          *)

(* What is said of trees, in the form in which it is used.                  *)
LEMMA TreeParts ==
    ASSUME NEW v, IsTree(v)
    PROVE  /\ Len(v.nodes) \in Nat /\ DOMAIN v.nodes = 1 .. Len(v.nodes)
           /\ IsFiniteSet(DOMAIN v.nodes)
           /\ \A i \in DOMAIN v.nodes :
                 /\ v.nodes[i].up \in 0 .. i - 1
                 /\ v.nodes[i].weight \in Nat \ {0}
                 /\ v.nodes[i].weight <= v.total
                 /\ v.total \in Nat \ {0}
                 /\ v.nodes[i].up # 0 => v.nodes[i].up \in DOMAIN v.nodes
  <1>1. Len(v.nodes) \in Nat /\ DOMAIN v.nodes = 1 .. Len(v.nodes)
    BY DEF IsTree
  <1>2. \A i \in DOMAIN v.nodes :
           v.nodes[i].up \in 0 .. i - 1 /\ v.nodes[i].weight \in 1 .. v.total /\ v.total \in Nat
    BY DEF IsTree
  <1>3. IsFiniteSet(DOMAIN v.nodes)
    BY <1>1, FS_Interval
  <1>4. ASSUME NEW i \in DOMAIN v.nodes
        PROVE  /\ v.nodes[i].weight \in Nat \ {0}
               /\ v.nodes[i].weight <= v.total
               /\ v.total \in Nat \ {0}
               /\ v.nodes[i].up # 0 => v.nodes[i].up \in DOMAIN v.nodes
    BY <1>1, <1>2
  <1>5. QED
    BY <1>1, <1>2, <1>3, <1>4

(* The width of a node, and of its siblings to the left.                    *)
WidthOf(v, z) == [j \in DOMAIN v.nodes |-> NodeWidth(v, j, z)]
LeftOf(v, i) == {j \in 1 .. i - 1 : v.nodes[j].up = v.nodes[i].up}
Below(v, i) == {j \in DOMAIN v.nodes : v.nodes[j].up = i}

(* Widths are naturals, and siblings finitely many.                         *)
LEMMA Widths ==
    ASSUME NEW v, IsTree(v), NEW z \in Nat \ {0}
    PROVE  /\ \A i \in DOMAIN v.nodes :
                 /\ WidthOf(v, z)[i] = NodeWidth(v, i, z) /\ NodeWidth(v, i, z) \in Nat
                 /\ LeftOf(v, i) \subseteq DOMAIN v.nodes /\ IsFiniteSet(LeftOf(v, i))
                 /\ Total(LeftOf(v, i), WidthOf(v, z)) \in Nat
  <1> SUFFICES ASSUME NEW i \in DOMAIN v.nodes
               PROVE  /\ WidthOf(v, z)[i] = NodeWidth(v, i, z) /\ NodeWidth(v, i, z) \in Nat
                      /\ LeftOf(v, i) \subseteq DOMAIN v.nodes /\ IsFiniteSet(LeftOf(v, i))
                      /\ Total(LeftOf(v, i), WidthOf(v, z)) \in Nat
    OBVIOUS
  <1>1. \A j \in DOMAIN v.nodes : NodeWidth(v, j, z) \in Nat
    <2> SUFFICES ASSUME NEW j \in DOMAIN v.nodes PROVE NodeWidth(v, j, z) \in Nat
      OBVIOUS
    <2> DEFINE a == v.nodes[j].weight * Unit * z
    <2>1. a \in Nat /\ v.total \in Nat \ {0}
      BY TreeParts, SearchAssumption
    <2> HIDE DEF a
    <2>2. a \div v.total \in Nat
      BY <2>1, Quotient
    <2>3. QED
      BY <2>2 DEF NodeWidth, a
  <1>2. \A j \in DOMAIN v.nodes : WidthOf(v, z)[j] = NodeWidth(v, j, z)
    BY DEF WidthOf
  <1>3. LeftOf(v, i) \subseteq DOMAIN v.nodes
    BY TreeParts DEF LeftOf
  <1>4. IsFiniteSet(LeftOf(v, i))
    BY <1>3, TreeParts, FS_Subset
  <1>5. \A j \in LeftOf(v, i) : WidthOf(v, z)[j] \in Nat
    BY <1>1, <1>2, <1>3
  <1>6. Total(LeftOf(v, i), WidthOf(v, z)) \in Nat
    BY <1>4, <1>5, TotalNat
  <1>7. QED
    BY <1>1, <1>2, <1>3, <1>4, <1>6

(* The recursions of Edges, RootOf and Drawn are defined.                   *)
LEMMA EdgesAre ==
    ASSUME NEW v, IsTree(v), NEW z \in Nat \ {0}
    PROVE  \A i \in DOMAIN v.nodes :
              /\ Edges(v, z)[i] \in Nat
              /\ Edges(v, z)[i] = (IF v.nodes[i].up = 0 THEN 0 ELSE Edges(v, z)[v.nodes[i].up])
                                     + Total(LeftOf(v, i), WidthOf(v, z))
  <1> DEFINE n == Len(v.nodes)
             D == DOMAIN v.nodes
             B(i) == Total(LeftOf(v, i), WidthOf(v, z))
             up == [i \in D |-> v.nodes[i].up]
             Eq(f) == f = [i \in D |-> (IF v.nodes[i].up = 0 THEN 0 ELSE f[v.nodes[i].up]) + B(i)]
             base == [i \in 1 .. n |-> B(i)]
             below == [x \in (1 .. n) \X Nat |-> x[2] + B(x[1])]
             e == CHOOSE g : Eq(g)
  <1>1. n \in Nat /\ D = 1 .. n
    BY TreeParts
  <1>2. \A i \in D : up[i] = v.nodes[i].up
    OBVIOUS
  <1>3. \A i \in D : B(i) \in Nat /\ up[i] \in Nat /\ up[i] < i
    <2>1. \A i \in D : B(i) \in Nat
      BY Widths
    <2>2. \A i \in D : v.nodes[i].up \in 0 .. i - 1 /\ i \in Nat
      BY <1>1, TreeParts
    <2> HIDE DEF B
    <2>3. QED
      BY <2>1, <2>2
  <1>4. up \in [1 .. n -> Nat] /\ \A i \in 1 .. n : up[i] < i
    BY <1>1, <1>3
  <1>5. Edges(v, z) = e
    BY DEF Edges, LeftOf, WidthOf
  <1> HIDE DEF n, D, B, up
  <1>6. base \in [1 .. n -> Nat] /\ below \in [(1 .. n) \X Nat -> Nat]
    BY <1>1, <1>3
  <1>7. \A i \in 1 .. n, x \in Nat : base[i] = B(i) /\ below[<<i, x>>] = x + B(i)
    OBVIOUS
  <1> HIDE DEF base, below
  <1>8. PICK f \in [1 .. n -> Nat] :
             \A i \in 1 .. n : f[i] = IF up[i] = 0 THEN base[i] ELSE below[<<i, f[up[i]]>>]
    <2> DEFINE V == Nat
    <2>1. n \in Nat /\ up \in [1 .. n -> Nat] /\ (\A i \in 1 .. n : up[i] < i)
      BY <1>1, <1>4
    <2>2. V = Nat /\ base \in [1 .. n -> V] /\ below \in [(1 .. n) \X V -> V]
      BY <1>6
    <2> HIDE DEF V
    <2>3. \E g \in [1 .. n -> V] : FromParent(g, n, up, base, below)
      <3>1. n \in Nat
        BY <2>1
      <3>2. up \in [1 .. n -> Nat]
        BY <2>1
      <3>3. base \in [1 .. n -> V]
        BY <2>2
      <3>4. below \in [(1 .. n) \X V -> V]
        BY <2>2
      <3>5. \A i \in 1 .. n : up[i] < i
        BY <2>1
      <3>6. QED
        BY <3>1, <3>2, <3>3, <3>4, <3>5, FromParentExists, Zenon
    <2>4. QED
      BY <2>2, <2>3 DEF FromParent
  <1>9. Eq(f)
    <2>1. ASSUME NEW i \in D
          PROVE  f[i] = (IF v.nodes[i].up = 0 THEN 0 ELSE f[v.nodes[i].up]) + B(i)
      <3>1. CASE up[i] = 0
        <4>1. f[i] = base[i] /\ base[i] = B(i) /\ B(i) \in Nat
          BY <1>1, <1>3, <1>7, <1>8, <3>1
        <4>2. v.nodes[i].up = 0
          BY <1>2, <3>1
        <4>3. QED
          BY <4>1, <4>2
      <3>2. CASE up[i] # 0
        <4>1. up[i] \in 1 .. n
          BY <1>1, <1>3, <3>2
        <4>2. f[up[i]] \in Nat
          BY <4>1
        <4>3. QED
          BY <1>1, <1>2, <1>7, <1>8, <3>2, <4>2
      <3>3. QED
        BY <3>1, <3>2
    <2>2. f = [i \in D |-> f[i]]
      BY <1>1
    <2>3. QED
      BY <2>1, <2>2
  <1>10. Eq(e)
    <2> HIDE DEF Eq
    <2>1. QED
      BY <1>9
  <1> HIDE DEF e
  <1>11. \A i \in D : e[i] = (IF up[i] = 0 THEN 0 ELSE e[up[i]]) + B(i)
    BY <1>2, <1>10
  <1>12. \A i \in 1 .. n : (up[i] = 0 \/ e[up[i]] \in Nat) => e[i] \in Nat
    BY <1>1, <1>3, <1>11
  <1>13. \A i \in 1 .. n : e[i] \in Nat
    <2> HIDE DEF Eq
    <2>1. QED
      BY <1>1, <1>4, <1>12, FromParentTyped
  <1>14. QED
    BY <1>1, <1>2, <1>5, <1>11, <1>13 DEF D, B

(* A child lies within its parent, and is no wider.                         *)
LEMMA ChildWithin ==
    ASSUME NEW v, IsTree(v), NEW z \in Nat \ {0}, NEW i \in DOMAIN v.nodes,
           NEW p \in DOMAIN v.nodes, p = v.nodes[i].up
    PROVE  /\ NodeWidth(v, i, z) <= NodeWidth(v, p, z)
           /\ Edges(v, z)[p] <= Edges(v, z)[i]
           /\ Edges(v, z)[i] + NodeWidth(v, i, z) <= Edges(v, z)[p] + NodeWidth(v, p, z)
  <1> DEFINE D == DOMAIN v.nodes
             weights == [j \in D |-> v.nodes[j].weight]
             W == WidthOf(v, z)
             B == Below(v, p)
             L == LeftOf(v, i)
             c == Unit * z
             x == Edges(v, z)
  <1>1. IsFiniteSet(D) /\ B \subseteq D /\ IsFiniteSet(B) /\ L \subseteq D /\ IsFiniteSet(L)
    BY TreeParts, Widths, FS_Subset DEF Below
  <1>2. \A j \in D : W[j] = NodeWidth(v, j, z) /\ W[j] \in Nat
    BY Widths
  <1>3. v.total \in Nat \ {0} /\ c \in Nat
    BY TreeParts, SearchAssumption
  <1>4. \A j \in D : weights[j] \in Nat /\ W[j] = (weights[j] * c) \div v.total
    <2> SUFFICES ASSUME NEW j \in D PROVE weights[j] \in Nat /\ W[j] = (weights[j] * c) \div v.total
      OBVIOUS
    <2>1. v.nodes[j].weight \in Nat /\ weights[j] = v.nodes[j].weight
      BY TreeParts
    <2>2. v.nodes[j].weight * Unit * z = v.nodes[j].weight * c
      <3> DEFINE a == v.nodes[j].weight
      <3>1. a \in Nat /\ Unit \in Nat /\ z \in Nat
        BY <2>1, SearchAssumption
      <3> HIDE DEF a
      <3>2. a * Unit * z = a * (Unit * z)
        BY <3>1
      <3>3. QED
        BY <3>2 DEF a
    <2>3. W[j] = (v.nodes[j].weight * c) \div v.total
      <3> HIDE DEF c, W
      <3>1. QED
        BY <1>2, <2>2 DEF NodeWidth
    <2> HIDE DEF W, c, weights
    <2>4. QED
      BY <2>1, <2>3
  <1>5. Total(B, weights) <= weights[p]
    BY DEF IsTree, Below
  <1>6. i \in B /\ i \notin L /\ L \cup {i} \subseteq B /\ p # 0 /\ p \in Nat
    <2>1. D = 1 .. Len(v.nodes) /\ Len(v.nodes) \in Nat
      BY TreeParts
    <2>2. QED
      BY <2>1 DEF Below, LeftOf
  <1>7. x[i] = x[p] + Total(L, W) /\ x[p] \in Nat
    <2> HIDE DEF x, L, W
    <2>1. x[i] = (IF v.nodes[i].up = 0 THEN 0 ELSE x[v.nodes[i].up]) + Total(L, W)
      BY EdgesAre DEF x, L, W
    <2>2. QED
      BY <1>6, <2>1, EdgesAre DEF x
  <1> HIDE DEF D, weights, W, B, L, c, x
  <1>8. Total(B, weights) \in Nat /\ Total(B, W) \in Nat /\ Total(L, W) \in Nat
    BY <1>1, <1>2, <1>4, TotalNat
  <1>9. Total(B, W) <= (Total(B, weights) * c) \div v.total
    BY <1>1, <1>3, <1>4, TotalQuotients
  <1>10. Total(B, W) <= W[p]
    <2> DEFINE a == Total(B, weights) * c
               b == weights[p] * c
    <2>1. weights[p] \in Nat
      BY <1>4 DEF D
    <2>2. a \in Nat /\ b \in Nat /\ a <= b
      BY <1>3, <1>5, <1>8, <2>1, ProductGrows
    <2>3. W[p] = b \div v.total
      BY <1>4 DEF D
    <2> HIDE DEF a, b
    <2>4. a \div v.total <= b \div v.total /\ a \div v.total \in Nat /\ b \div v.total \in Nat
      BY <1>3, <2>2, QuotientGrows, Quotient
    <2>5. QED
      BY <1>8, <1>9, <2>3, <2>4 DEF a
  <1>11. Total(L \cup {i}, W) = W[i] + Total(L, W)
    <2>1. \A j \in L \cup {i} : W[j] \in Nat
      BY <1>1, <1>2 DEF D
    <2>2. QED
      BY <1>1, <1>6, <2>1, TotalWith
  <1>12. Total(L \cup {i}, W) <= Total(B, W)
    BY <1>1, <1>2, <1>6, TotalPart
  <1>13. W[i] \in Nat /\ W[p] \in Nat
         /\ W[i] = NodeWidth(v, i, z) /\ W[p] = NodeWidth(v, p, z)
    BY <1>2 DEF D
  <1>14. W[i] <= W[p] /\ x[p] <= x[i] /\ x[i] + W[i] <= x[p] + W[p]
    BY <1>7, <1>8, <1>10, <1>11, <1>12, <1>13
  <1>15. QED
    BY <1>13, <1>14 DEF x

(* Wide enough, and inside the window.                                      *)
Visible(v, i, z, o) ==
    /\ NodeWidth(v, i, z) >= MinWidth
    /\ Edges(v, z)[i] < o + 10 * Unit
    /\ Edges(v, z)[i] + NodeWidth(v, i, z) > o

(* What hides a node hides what is below it anyway.                         *)
LEMMA DrawnAre ==
    ASSUME NEW v, IsTree(v), NEW z \in Nat \ {0}, NEW o \in Int
    PROVE  Drawn(v, z, o) = {i \in DOMAIN v.nodes : Visible(v, i, z, o)}
  <1> DEFINE D == DOMAIN v.nodes
             Vis(i) == Visible(v, i, z, o)
             Up(i) == v.nodes[i].up
             Eq(f) == f = [i \in D |-> (Up(i) = 0 \/ f[Up(i)]) /\ Vis(i)]
             e == CHOOSE g : Eq(g)
             shown == [i \in D |-> Vis(i)]
  <1>1. Len(v.nodes) \in Nat /\ D = 1 .. Len(v.nodes)
        /\ \A i \in D : Up(i) \in 0 .. i - 1 /\ (Up(i) # 0 => Up(i) \in D)
    BY TreeParts
  <1>2. ASSUME NEW i \in D, Up(i) # 0, Vis(i) PROVE Vis(Up(i))
    <2> DEFINE p == Up(i)
    <2>1. p \in D /\ p = v.nodes[i].up
      BY <1>1, <1>2
    <2> HIDE DEF p
    <2>2. /\ NodeWidth(v, i, z) <= NodeWidth(v, p, z)
          /\ Edges(v, z)[p] <= Edges(v, z)[i]
          /\ Edges(v, z)[i] + NodeWidth(v, i, z) <= Edges(v, z)[p] + NodeWidth(v, p, z)
      BY <2>1, ChildWithin
    <2>3. NodeWidth(v, i, z) \in Nat /\ NodeWidth(v, p, z) \in Nat
          /\ Edges(v, z)[i] \in Nat /\ Edges(v, z)[p] \in Nat
      BY <2>1, Widths, EdgesAre
    <2>4. Visible(v, i, z, o)
      BY <1>2
    <2>5. Visible(v, p, z, o)
      BY <2>2, <2>3, <2>4, SearchAssumption DEF Visible
    <2>6. QED
      BY <2>5 DEF p
  <1>0. \A i \in D : Vis(i) \in BOOLEAN
    BY DEF Visible
  <1>3. Drawn(v, z, o) = {i \in D : e[i]}
    BY DEF Drawn, Visible
  <1> HIDE DEF D, Vis, Up
  <1>4. Eq(shown)
    <2>1. \A i \in D : Vis(i) = ((Up(i) = 0 \/ shown[Up(i)]) /\ Vis(i))
      <3> SUFFICES ASSUME NEW i \in D PROVE Vis(i) = ((Up(i) = 0 \/ shown[Up(i)]) /\ Vis(i))
        OBVIOUS
      <3>1. Up(i) # 0 => shown[Up(i)] = Vis(Up(i))
        BY <1>1
      <3>2. QED
        BY <1>0, <1>2, <3>1, Zenon
    <2>2. QED
      BY <2>1
  <1>5. Eq(e)
    <2> HIDE DEF Eq
    <2>1. QED
      BY <1>4
  <1> HIDE DEF e
  <1>6. \A i \in D : e[i] = ((Up(i) = 0 \/ e[Up(i)]) /\ Vis(i))
    BY <1>5
  <1> DEFINE F == {i \in D : ~(e[i] <=> Vis(i))}
  <1>7. ASSUME F # {} PROVE FALSE
    <2>1. F \in SUBSET Nat
      BY <1>1
    <2>2. PICK i \in F : \A j \in F : i <= j
      <3> HIDE DEF F
      <3>1. QED
        BY <1>7, <2>1, LeastNatural
    <2>3. i \in D /\ ~(e[i] <=> Vis(i))
      OBVIOUS
    <2>4. Up(i) # 0 => Up(i) \in D /\ Up(i) \notin F
      <3>1. i \in Nat /\ Up(i) \in 0 .. i - 1 /\ (Up(i) # 0 => Up(i) \in D)
        BY <1>1, <2>3
      <3> HIDE DEF F
      <3>2. QED
        BY <2>2, <3>1
    <2>5. Up(i) # 0 => (e[Up(i)] <=> Vis(Up(i)))
      BY <2>4
    <2> HIDE DEF F
    <2>6. e[i] = ((Up(i) = 0 \/ e[Up(i)]) /\ Vis(i))
      BY <1>6, <2>3
    <2>7. QED
      BY <1>2, <2>3, <2>5, <2>6
  <1>8. {i \in D : e[i]} = {i \in D : Vis(i)}
    BY <1>7
  <1>9. QED
    BY <1>3, <1>8 DEF D, Vis

(* Every node has a root in the tree.                                       *)
LEMMA RootsAre ==
    ASSUME NEW v, IsTree(v)
    PROVE  \A i \in DOMAIN v.nodes : RootOf(v)[i] \in DOMAIN v.nodes
  <1> DEFINE n == Len(v.nodes)
             D == DOMAIN v.nodes
             up == [i \in D |-> v.nodes[i].up]
             Eq(f) == f = [i \in D |-> IF v.nodes[i].up = 0 THEN i ELSE f[v.nodes[i].up]]
             base == [i \in 1 .. n |-> i]
             below == [x \in (1 .. n) \X (1 .. n) |-> x[2]]
             e == CHOOSE g : Eq(g)
  <1>1. n \in Nat /\ D = 1 .. n
    BY TreeParts
  <1>2. \A i \in D : up[i] = v.nodes[i].up
    OBVIOUS
  <1>3. \A i \in D : up[i] \in Nat /\ up[i] < i /\ (up[i] # 0 => up[i] \in D)
    <2>1. \A i \in D : v.nodes[i].up \in 0 .. i - 1 /\ i \in Nat
                       /\ (v.nodes[i].up # 0 => v.nodes[i].up \in D)
      BY <1>1, TreeParts
    <2>2. QED
      BY <2>1
  <1>4. up \in [1 .. n -> Nat] /\ (\A i \in 1 .. n : up[i] < i)
    BY <1>1, <1>3
  <1>5. RootOf(v) = e
    BY DEF RootOf
  <1> HIDE DEF n, D, up
  <1>6. base \in [1 .. n -> 1 .. n] /\ below \in [(1 .. n) \X (1 .. n) -> 1 .. n]
    OBVIOUS
  <1>7. \A i, x \in 1 .. n : base[i] = i /\ below[<<i, x>>] = x
    OBVIOUS
  <1> HIDE DEF base, below
  <1> DEFINE V == 1 .. n
  <1>8. PICK f \in [1 .. n -> V] : FromParent(f, n, up, base, below)
    <2>1. n \in Nat
      BY <1>1
    <2>2. up \in [1 .. n -> Nat]
      BY <1>4
    <2>3. \A i \in 1 .. n : up[i] < i
      BY <1>4
    <2>4. base \in [1 .. n -> V]
      BY <1>6
    <2>5. below \in [(1 .. n) \X V -> V]
      BY <1>6
    <2> HIDE DEF V
    <2>6. QED
      BY <2>1, <2>2, <2>3, <2>4, <2>5, FromParentExists, Zenon
  <1>9. Eq(f)
    <2>1. ASSUME NEW i \in D
          PROVE  f[i] = IF v.nodes[i].up = 0 THEN i ELSE f[v.nodes[i].up]
      <3>1. f[i] = IF up[i] = 0 THEN base[i] ELSE below[<<i, f[up[i]]>>]
        BY <1>1, <1>8 DEF FromParent
      <3>2. up[i] # 0 => f[up[i]] \in 1 .. n
        BY <1>1, <1>3
      <3>3. i \in 1 .. n
        BY <1>1
      <3>4. CASE up[i] = 0
        BY <1>2, <1>7, <3>1, <3>3, <3>4
      <3>5. CASE up[i] # 0
        <4>1. below[<<i, f[up[i]]>>] = f[up[i]]
          BY <1>7, <3>2, <3>3, <3>5
        <4>2. QED
          BY <1>2, <3>1, <3>5, <4>1
      <3>6. QED
        BY <3>4, <3>5
    <2>2. f = [i \in D |-> f[i]]
      BY <1>1
    <2>3. QED
      BY <2>1, <2>2
  <1>10. Eq(e)
    <2> HIDE DEF Eq
    <2>1. QED
      BY <1>9
  <1> HIDE DEF e
  <1>11. \A i \in 1 .. n : (up[i] = 0 \/ e[up[i]] \in V) => e[i] \in V
    BY <1>1, <1>2, <1>10
  <1>12. \A i \in 1 .. n : e[i] \in V
    <2> HIDE DEF Eq, V
    <2>1. QED
      BY <1>1, <1>4, <1>11, FromParentTyped
  <1>13. QED
    BY <1>1, <1>5, <1>12 DEF D

(* A matching frame has a weight, and a place in a root that has one.        *)
IsMatch(m) == m.x \in Nat /\ m.weight \in Nat \ {0} /\ m.of \in Nat \ {0}

(* The nodes that match and are drawn. *)
Wanted(v, z, o, f) == {i \in Drawn(v, z, o) : v.nodes[i].text \in TextsWith[f]}

(* They are the nodes that match and are visible.                           *)
LEMMA WantedAre ==
    ASSUME NEW v, IsTree(v), NEW z \in Nat \ {0}, NEW o \in Int, NEW f
    PROVE  /\ Wanted(v, z, o, f) = {i \in DOMAIN v.nodes : v.nodes[i].text \in TextsWith[f]
                                                            /\ Visible(v, i, z, o)}
           /\ \A n \in DOMAIN InOrder(Wanted(v, z, o, f)) :
                 InOrder(Wanted(v, z, o, f))[n] \in DOMAIN v.nodes
  <1> DEFINE H == Wanted(v, z, o, f)
  <1>1. H = {i \in DOMAIN v.nodes : v.nodes[i].text \in TextsWith[f] /\ Visible(v, i, z, o)}
    <2>1. H = {i \in Drawn(v, z, o) : v.nodes[i].text \in TextsWith[f]}
      BY DEF Wanted
    <2> HIDE DEF H
    <2>2. QED
      BY <2>1, DrawnAre
  <1>2. H \subseteq DOMAIN v.nodes
    BY <1>1
  <1>3. H \in SUBSET Nat /\ IsFiniteSet(H)
    <2>1. DOMAIN v.nodes \subseteq Nat /\ IsFiniteSet(DOMAIN v.nodes)
      BY TreeParts
    <2> HIDE DEF H
    <2>2. QED
      BY <1>2, <2>1, FS_Subset
  <1> HIDE DEF H
  <1>4. \A n \in DOMAIN InOrder(H) : InOrder(H)[n] \in H
    BY <1>3, InOrderMembers
  <1>5. QED
    BY <1>1, <1>2, <1>4 DEF H

(* What is found are matches.                                               *)
LEMMA FoundMatches ==
    ASSUME NEW v, IsTree(v), NEW z \in Nat \ {0}, NEW o \in Int, NEW f,
           NEW n \in DOMAIN Found(v, z, o, f)
    PROVE  IsMatch(Found(v, z, o, f)[n])
  <1> DEFINE order == InOrder(Wanted(v, z, o, f))
             i == order[n]
  <1>1. f # NoFilter
    BY DEF Found
  <1>2. Found(v, z, o, f) = [k \in DOMAIN order |-> Match(v, order[k], z)]
    BY <1>1 DEF Found, Wanted
  <1>3. n \in DOMAIN order /\ Found(v, z, o, f)[n] = Match(v, i, z)
    <2> HIDE DEF order
    <2>1. QED
      BY <1>2
  <1>4. i \in DOMAIN v.nodes
    BY <1>3, WantedAre
  <1> HIDE DEF order, i
  <1>5. v.nodes[i].weight \in Nat \ {0} /\ v.nodes[RootOf(v)[i]].weight \in Nat \ {0}
    BY <1>4, TreeParts, RootsAre
  <1>6. Edges(v, z)[i] \div z \in Nat
    <2>1. Edges(v, z)[i] \in Nat
      BY <1>4, EdgesAre
    <2>2. QED
      BY <2>1, Quotient
  <1>7. QED
    BY <1>3, <1>5, <1>6 DEF Match, IsMatch

-----------------------------------------------------------------------------
(* Where the window may be.                                                *)

(* The smaller and the larger of two numbers.                               *)
LEMMA OneOfTwo ==
    ASSUME NEW a \in Int, NEW b \in Int
    PROVE  Min({a, b}) \in {a, b} /\ Max({a, b}) \in {a, b}
  <1>1. \E x \in {a, b} : \A y \in {a, b} : x <= y
    <2>1. CASE a <= b
      BY <2>1
    <2>2. CASE b <= a
      BY <2>2
    <2>3. QED
      BY <2>1, <2>2
  <1>2. \E x \in {a, b} : \A y \in {a, b} : x >= y
    <2>1. CASE a >= b
      BY <2>1
    <2>2. CASE b >= a
      BY <2>2
    <2>3. QED
      BY <2>1, <2>2
  <1>3. Min({a, b}) \in {a, b}
    BY <1>1 DEF Min
  <1>4. Max({a, b}) \in {a, b}
    BY <1>2 DEF Max
  <1>5. QED
    BY <1>3, <1>4

(* A position stays one when it is clamped.                                 *)
LEMMA ClampType ==
    ASSUME NEW o \in Int, NEW z \in Nat PROVE Clamp(o, z) \in Int
  <1> DEFINE a == Unit * (z - 10)
             b == Min({o, a})
  <1>1. a \in Int
    BY SearchAssumption
  <1> HIDE DEF a
  <1>2. b \in Int
    BY <1>1, OneOfTwo
  <1> HIDE DEF b
  <1>3. Max({0, b}) \in Int
    BY <1>2, OneOfTwo
  <1>4. QED
    BY <1>3 DEF Clamp, a, b

(* A zoom is positive.                                                      *)
LEMMA ReadableType ==
    ASSUME NEW m, IsMatch(m) PROVE Readable(m) \in Nat \ {0}
  <1> DEFINE w == m.weight
             a == 3 * m.of
             q == a \div w
  <1>1. w \in Nat \ {0} /\ a \in Nat
    BY DEF IsMatch
  <1>2. CASE 10 * w < a
    <2>1. 1 * w <= a
      <3> HIDE DEF w, a
      <3>1. QED
        BY <1>1, <1>2
    <2> HIDE DEF w, a
    <2>2. 1 <= q /\ q \in Nat
      BY <1>1, <2>1, QuotientAtLeast, Quotient
    <2> HIDE DEF q
    <2>3. Min({q, 200}) \in Nat \ {0}
      <3>1. Min({q, 200}) \in {q, 200}
        BY <2>2, OneOfTwo
      <3>2. QED
        BY <2>2, <3>1
    <2>4. Readable(m) = Min({q, 200})
      BY <1>2 DEF Readable, q, a, w
    <2>5. QED
      BY <2>3, <2>4
  <1>3. CASE ~(10 * w < a)
    BY <1>3 DEF Readable
  <1>4. QED
    BY <1>2, <1>3

(* The window is brought to a position.                                     *)
LEMMA CentreType ==
    ASSUME NEW m, IsMatch(m), NEW z \in Nat \ {0} PROVE Centre(m, z) \in Int
  <1> DEFINE a == m.weight * Unit * z
             d == 2 * m.of
             q == a \div d
             o == m.x * z + q - 5 * Unit
  <1>1. a \in Nat /\ d \in Nat \ {0}
    BY SearchAssumption DEF IsMatch
  <1> HIDE DEF a, d
  <1>2. q \in Nat
    BY <1>1, Quotient
  <1> HIDE DEF q
  <1>3. o \in Int
    BY <1>2, SearchAssumption DEF IsMatch
  <1> HIDE DEF o
  <1>4. Clamp(o, z) \in Int
    BY <1>3, ClampType
  <1>5. QED
    BY <1>4 DEF Centre, o, q, d, a

-----------------------------------------------------------------------------
(* The invariant: what is drawn is a tree, and the matches are those that   *)
(* were drawn when the filter was edited.                                  *)

SearchInv ==
    /\ tree = Empty \/ tree \in Trees
    /\ sandwiched = NoSandwich \/ IsTree(sandwiched)
    /\ zoom \in Nat \ {0} /\ origin \in Int
    /\ IsTree(searched.view) /\ searched.zoom \in Nat \ {0} /\ searched.origin \in Int
    /\ matches = Found(searched.view, searched.zoom, searched.origin, flameFilter)

(* The default tree is one.                                                 *)
LEMMA EmptyIsTree == IsTree(Empty)
  <1>1. Empty.nodes = <<>> /\ Empty.total = 0
    BY DEF Empty
  <1>2. <<>> \in Seq(Range(<<>>)) /\ DOMAIN <<>> = {}
    OBVIOUS
  <1>3. QED
    BY <1>1, <1>2 DEF IsTree

(* What is drawn is a tree.                                                 *)
LEMMA TreesAre == ASSUME SearchInv PROVE IsTree(tree) /\ IsTree(Shown)
  BY EmptyIsTree, SearchAssumption DEF SearchInv, Shown

(* A frame ends: the matches are as they were or those drawn now.           *)
LEMMA DrawStep ==
    ASSUME SearchInv, zoom' \in Nat \ {0}, origin' \in Int, NEW f, Draw(f)
    PROVE  SearchInv'
  <1>1. CASE f = flameFilter
    BY <1>1 DEF Draw, SearchInv
  <1>2. CASE f # flameFilter
    <2>1. /\ flameFilter' = f /\ UNCHANGED <<tree, sandwiched>>
          /\ searched' = [view |-> Shown, zoom |-> zoom', origin |-> origin']
          /\ matches' = Found(Shown, zoom', origin', f)
      BY <1>2 DEF Draw
    <2>2. searched'.view = Shown /\ searched'.zoom = zoom' /\ searched'.origin = origin'
      BY <2>1
    <2>3. IsTree(Shown)
      BY TreesAre
    <2>4. QED
      BY <2>1, <2>2, <2>3 DEF SearchInv
  <1>3. QED
    BY <1>1, <1>2

(* A frame that is drawn is one of the tree's.                              *)
LEMMA DrawnInTree == ASSUME NEW v, NEW z, NEW o, NEW i \in Drawn(v, z, o) PROVE i \in DOMAIN v.nodes
  BY DEF Drawn

(* Every step of the views keeps the invariant.                             *)
LEMMA SearchStep == SearchInv /\ [ViewsNext]_<<vars, views, apart>> => SearchInv'
  <1> SUFFICES ASSUME SearchInv, [ViewsNext]_<<vars, views, apart>> PROVE SearchInv'
    OBVIOUS
  <1>1. ASSUME NEW f, Edit(f) PROVE SearchInv'
    <2>1. zoom' = zoom /\ origin' = origin /\ Draw(f)
      BY <1>1 DEF Edit, window
    <2>2. zoom' \in Nat \ {0} /\ origin' \in Int
      BY <2>1 DEF SearchInv
    <2>3. QED
      BY <2>1, <2>2, DrawStep
  <1>2. ASSUME NEW f, NEW back, Enter(f, back) PROVE SearchInv'
    <2>1. Focus(current' + 1) /\ Draw(f)
      BY <1>2 DEF Enter
    <2> DEFINE i == current' + 1
               m == matches[i]
    <2>2. CASE i \in DOMAIN matches
      <3>1. IsMatch(m)
        BY <2>2, FoundMatches DEF SearchInv
      <3>2. zoom' = Readable(m) /\ origin' = Centre(m, zoom')
        BY <2>1, <2>2 DEF Focus
      <3> HIDE DEF m
      <3>3. zoom' \in Nat \ {0}
        BY <3>1, <3>2, ReadableType
      <3>4. origin' \in Int
        BY <3>1, <3>2, <3>3, CentreType
      <3>5. QED
        BY <2>1, <3>3, <3>4, DrawStep
    <2>3. CASE i \notin DOMAIN matches
      <3>1. zoom' = zoom /\ origin' = origin
        BY <2>1, <2>3 DEF Focus, window
      <3>2. zoom' \in Nat \ {0} /\ origin' \in Int
        BY <3>1 DEF SearchInv
      <3>3. QED
        BY <2>1, <3>2, DrawStep
    <2>4. QED
      BY <2>2, <2>3
  <1>3. ASSUME NEW m \in Moves, Move(m.zoom, m.origin) PROVE SearchInv'
    <2>1. m.zoom \in Nat \ {0} /\ m.origin \in Int
      BY SearchAssumption
    <2>2. zoom' = m.zoom /\ origin' = Clamp(m.origin, m.zoom)
          /\ UNCHANGED <<tree, sandwiched, flameFilter, matches, searched>>
      BY <1>3 DEF Move
    <2>3. Clamp(m.origin, m.zoom) \in Int
      BY <2>1, ClampType
    <2>4. QED
      BY <2>1, <2>2, <2>3 DEF SearchInv
  <1>4. ASSUME NEW i \in Drawn(tree, zoom, origin), Click(i) PROVE SearchInv'
    <2> DEFINE w == tree.nodes[i].weight
               a == 10 * tree.total
    <2>1. i \in DOMAIN tree.nodes /\ IsTree(tree) /\ zoom \in Nat \ {0}
      BY DrawnInTree, TreesAre DEF SearchInv
    <2>2. w \in Nat \ {0} /\ a \in Nat /\ 1 * w <= a
      <3>1. w \in Nat \ {0} /\ tree.total \in Nat \ {0} /\ w <= tree.total
        BY <2>1, TreeParts
      <3> HIDE DEF w
      <3>2. QED
        BY <3>1
    <2>3. zoom' = a \div w /\ origin' = (Edges(tree, zoom)[i] \div zoom) * zoom'
          /\ UNCHANGED <<tree, sandwiched, flameFilter, matches, searched>>
      BY <1>4 DEF Click
    <2> HIDE DEF w, a
    <2>4. zoom' \in Nat \ {0}
      <3>1. 1 <= a \div w /\ a \div w \in Nat
        BY <2>2, QuotientAtLeast, Quotient
      <3>2. QED
        BY <2>3, <3>1
    <2>5. Edges(tree, zoom)[i] \div zoom \in Nat
      <3>1. Edges(tree, zoom)[i] \in Nat
        BY <2>1, EdgesAre
      <3>2. QED
        BY <2>1, <3>1, Quotient
    <2>6. origin' \in Int
      BY <2>3, <2>4, <2>5
    <2>7. QED
      BY <2>3, <2>4, <2>6 DEF SearchInv
  <1>5. ASSUME NEW i \in Drawn(tree, zoom, origin), CtrlClick(i) PROVE SearchInv'
    <2>1. i \in DOMAIN tree.nodes
      BY DrawnInTree
    <2>2. tree \in Trees
      BY <2>1 DEF SearchInv, Empty
    <2>3. IsTree(CalleesOf[tree][tree.nodes[i].id])
      BY <2>1, <2>2, SearchAssumption
    <2>4. QED
      BY <1>5, <2>3 DEF CtrlClick, ResetWindow, SearchInv
  <1>6. CASE DoubleClick
    BY <1>6 DEF DoubleClick, ResetWindow, SearchInv
  <1>7. ASSUME NEW t \in Trees, NewTree(t) PROVE SearchInv'
    BY <1>7 DEF NewTree, window, SearchInv
  <1>8. CASE UNCHANGED search
    BY <1>8 DEF search, window, SearchInv
  <1>9. CASE SearchNext
    BY <1>1, <1>2, <1>3, <1>4, <1>5, <1>6, <1>7, <1>9 DEF SearchNext
  <1>10. QED
    BY <1>8, <1>9 DEF ViewsNext, apart

(* The invariant says what SearchExact asks for.                            *)
LEMMA SearchShown == ASSUME SearchInv PROVE SearchExact
  <1> DEFINE v == searched.view
             z == searched.zoom
             o == searched.origin
             H == Wanted(v, z, o, flameFilter)
  <1>1. CASE flameFilter = NoFilter
    BY <1>1 DEF SearchInv, SearchExact, Found
  <1>2. CASE flameFilter # NoFilter
    <2>1. IsTree(v) /\ z \in Nat \ {0} /\ o \in Int
      BY DEF SearchInv
    <2>2. Sought = InOrder({i \in DOMAIN v.nodes : v.nodes[i].text \in TextsWith[flameFilter]
                                                   /\ Visible(v, i, z, o)})
      BY DEF Sought, Visible
    <2>3. matches = [n \in DOMAIN InOrder(H) |-> Match(v, InOrder(H)[n], z)]
      BY <1>2 DEF SearchInv, Found, Wanted
    <2> HIDE DEF v, z, o
    <2>4. Sought = InOrder(H)
      <3>1. H = {i \in DOMAIN v.nodes : v.nodes[i].text \in TextsWith[flameFilter]
                                          /\ Visible(v, i, z, o)}
        BY <2>1, WantedAre
      <3> HIDE DEF H
      <3>2. QED
        BY <2>2, <3>1
    <2> HIDE DEF H
    <2>5. DOMAIN matches = DOMAIN Sought
          /\ \A n \in DOMAIN matches : matches[n].id = v.nodes[Sought[n]].id
      BY <2>3, <2>4 DEF Match
    <2>6. QED
      BY <1>2, <2>5 DEF SearchExact, v
  <1>3. QED
    BY <1>1, <1>2

(* Whatever was zoomed, moved, clicked or replaced before, the matches are all*)
(* the nodes that match the filter and were wide enough and inside the window*)
(* when it was last edited, in preorder, whatever narrow or hidden node cut the*)
(* drawing short.                                                           *)
THEOREM SearchAlwaysExact == ViewsSpec => []SearchExact
  <1>1. ViewsInit => SearchInv
    BY EmptyIsTree DEF ViewsInit, SearchInit, SearchInv, Found
  <1>2. QED
    BY <1>1, SearchStep, SearchShown, PTL DEF ViewsSpec

-----------------------------------------------------------------------------
(* Flame graph: paths, and frames appended to them.                         *)

(* The steps of a path: the number of a comm, frames after it.               *)
Ids == Nat \cup Frames

(* Path p, and a frame below it with what is inlined in it: n nodes.         *)
Repeat(p, f, n) == p \o [j \in 1 .. n |-> f]

(* Path p leads through q. *)
Begins(q, p) == Len(q) <= Len(p) /\ \A i \in 1 .. Len(q) : q[i] = p[i]

(* What is in such a path. *)
Repeated(c, p, f, n) ==
    /\ Len(c) = Len(p) + n
    /\ \A i \in 1 .. Len(p) + n : c[i] = IF i <= Len(p) THEN p[i] ELSE f

(* The elements of such a path, ... *)
LEMMA RepeatIs ==
    ASSUME NEW S, NEW p \in Seq(S), NEW f \in S, NEW n \in Nat
    PROVE  /\ Repeat(p, f, n) \in Seq(S)
           /\ Len(p) \in Nat
           /\ Repeated(Repeat(p, f, n), p, f, n)
  <1> DEFINE c == [j \in 1 .. n |-> f]
  <1>1. c \in Seq(S) /\ Len(c) = n /\ \A j \in 1 .. n : c[j] = f
    OBVIOUS
  <1> HIDE DEF c
  <1>2. Len(p) \in Nat
    OBVIOUS
  <1>3. /\ p \o c \in Seq(S)
        /\ Len(p \o c) = Len(p) + n
        /\ \A i \in 1 .. Len(p) + n : (p \o c)[i] = IF i <= Len(p) THEN p[i] ELSE c[i - Len(p)]
    BY <1>1, ConcatProperties
  <1>4. \A i \in 1 .. Len(p) + n : ~(i <= Len(p)) => i - Len(p) \in 1 .. n
    BY <1>2
  <1>5. QED
    BY <1>1, <1>2, <1>3, <1>4 DEF Repeat, Repeated, c

(* ... which grows by one frame at a time ... *)
LEMMA RepeatGrows ==
    ASSUME NEW S, NEW p \in Seq(S), NEW f \in S, NEW n \in Nat
    PROVE  Repeat(p, f, n + 1) = Append(Repeat(p, f, n), f)
  <1> DEFINE c == Repeat(p, f, n)
             d == Repeat(p, f, n + 1)
             a == Append(c, f)
  <1>1. /\ c \in Seq(S) /\ d \in Seq(S) /\ Len(p) \in Nat
        /\ Len(c) = Len(p) + n /\ Len(d) = Len(p) + (n + 1)
        /\ \A i \in 1 .. Len(p) + n : c[i] = IF i <= Len(p) THEN p[i] ELSE f
        /\ \A i \in 1 .. Len(p) + (n + 1) : d[i] = IF i <= Len(p) THEN p[i] ELSE f
    <2>1. n + 1 \in Nat
      OBVIOUS
    <2>2. /\ c \in Seq(S) /\ Len(p) \in Nat /\ Len(c) = Len(p) + n
          /\ \A i \in 1 .. Len(p) + n : c[i] = IF i <= Len(p) THEN p[i] ELSE f
      <3>1. c \in Seq(S) /\ Len(p) \in Nat /\ Repeated(c, p, f, n)
        BY RepeatIs
      <3>2. QED
        BY <3>1 DEF Repeated
    <2>3. /\ d \in Seq(S) /\ Len(d) = Len(p) + (n + 1)
          /\ \A i \in 1 .. Len(p) + (n + 1) : d[i] = IF i <= Len(p) THEN p[i] ELSE f
      <3>1. d \in Seq(S) /\ Repeated(d, p, f, n + 1)
        BY <2>1, RepeatIs
      <3>2. QED
        BY <3>1 DEF Repeated
    <2>4. QED
      BY <2>2, <2>3
  <1> HIDE DEF c, d
  <1>2. /\ a \in Seq(S) /\ Len(a) = Len(c) + 1
        /\ \A i \in 1 .. Len(c) : a[i] = c[i]
        /\ a[Len(c) + 1] = f
    BY <1>1, AppendProperties
  <1> HIDE DEF a
  <1>3. \A i \in 1 .. Len(d) : d[i] = a[i]
    <2> SUFFICES ASSUME NEW i \in 1 .. Len(d) PROVE d[i] = a[i]
      OBVIOUS
    <2>1. CASE i <= Len(c)
      BY <1>1, <1>2, <2>1
    <2>2. CASE ~(i <= Len(c))
      <3>1. i = Len(c) + 1 /\ ~(i <= Len(p))
        BY <1>1, <2>2
      <3>2. QED
        BY <1>1, <1>2, <3>1
    <2>3. QED
      BY <2>1, <2>2
  <1>4. d = a
    BY <1>1, <1>2, <1>3, SeqEqual
  <1>5. QED
    BY <1>4 DEF a, c, d

(* ... from the path itself. *)
LEMMA RepeatOnce ==
    ASSUME NEW S, NEW p \in Seq(S), NEW f \in S
    PROVE  Repeat(p, f, 0) = p /\ Repeat(p, f, 1) = Append(p, f)
  <1>1. Repeat(p, f, 0) = p
    <2> DEFINE c == Repeat(p, f, 0)
    <2>1. /\ c \in Seq(S) /\ Len(p) \in Nat /\ Len(c) = Len(p) + 0
          /\ \A i \in 1 .. Len(p) + 0 : c[i] = IF i <= Len(p) THEN p[i] ELSE f
      BY RepeatIs DEF Repeated
    <2> HIDE DEF c
    <2>2. Len(c) = Len(p) /\ \A i \in 1 .. Len(p) : c[i] = p[i]
      BY <2>1
    <2>3. c = p
      BY <2>1, <2>2, SeqEqual
    <2>4. QED
      BY <2>3 DEF c
  <1>2. 0 \in Nat /\ 0 + 1 = 1
    OBVIOUS
  <1>3. Repeat(p, f, 0 + 1) = Append(Repeat(p, f, 0), f)
    BY <1>2, RepeatGrows
  <1>4. QED
    BY <1>1, <1>2, <1>3

(* Paths with the same elements are the same. *)
LEMMA BeginsEqual ==
    ASSUME NEW S, NEW q \in Seq(S), NEW p \in Seq(S), Begins(q, p), Len(q) >= Len(p)
    PROVE  q = p
  <1>1. Len(q) = Len(p)
    BY DEF Begins
  <1>2. QED
    BY <1>1, SeqEqual DEF Begins

(* A path leads through what it is made of. *)
LEMMA BeginsRepeat ==
    ASSUME NEW S, NEW p \in Seq(S), NEW f \in S, NEW n \in Nat, NEW q \in Seq(S)
    PROVE  Begins(q, Repeat(p, f, n)) <=> Begins(q, p) \/ \E i \in 1 .. n : q = Repeat(p, f, i)
  <1> DEFINE c == Repeat(p, f, n)
  <1>1. /\ c \in Seq(S) /\ Len(p) \in Nat /\ Len(c) = Len(p) + n /\ Len(q) \in Nat
        /\ \A i \in 1 .. Len(p) + n : c[i] = IF i <= Len(p) THEN p[i] ELSE f
    <2>1. Len(q) \in Nat
      OBVIOUS
    <2>2. c \in Seq(S) /\ Len(p) \in Nat /\ Repeated(c, p, f, n)
      BY RepeatIs
    <2>3. QED
      BY <2>1, <2>2 DEF Repeated
  <1> HIDE DEF c
  <1>2. ASSUME NEW i \in 1 .. n
        PROVE  /\ Repeat(p, f, i) \in Seq(S) /\ Len(Repeat(p, f, i)) = Len(p) + i
               /\ \A j \in 1 .. Len(p) + i : Repeat(p, f, i)[j] = c[j]
    <2>1. /\ Repeat(p, f, i) \in Seq(S) /\ Len(Repeat(p, f, i)) = Len(p) + i
          /\ \A j \in 1 .. Len(p) + i :
                Repeat(p, f, i)[j] = IF j <= Len(p) THEN p[j] ELSE f
      <3>1. i \in Nat
        OBVIOUS
      <3>2. Repeat(p, f, i) \in Seq(S) /\ Repeated(Repeat(p, f, i), p, f, i)
        BY <3>1, RepeatIs
      <3>3. QED
        BY <3>2 DEF Repeated
    <2>2. \A j \in 1 .. Len(p) + i : j \in 1 .. Len(p) + n
      BY <1>1
    <2>3. QED
      BY <1>1, <2>1, <2>2
  <1>3. ASSUME Begins(q, p) PROVE Begins(q, c)
    <2>1. \A j \in 1 .. Len(q) : q[j] = p[j] /\ j \in 1 .. Len(p) + n /\ j <= Len(p)
      BY <1>1, <1>3 DEF Begins
    <2>2. QED
      BY <1>1, <1>3, <2>1 DEF Begins
  <1>4. ASSUME NEW i \in 1 .. n, q = Repeat(p, f, i) PROVE Begins(q, c)
    <2>1. Len(q) = Len(p) + i /\ \A j \in 1 .. Len(p) + i : q[j] = c[j]
      BY <1>2, <1>4
    <2>2. Len(q) <= Len(c)
      BY <1>1, <2>1
    <2>3. QED
      BY <2>1, <2>2 DEF Begins
  <1>5. ASSUME Begins(q, c), ~Begins(q, p) PROVE \E i \in 1 .. n : q = Repeat(p, f, i)
    <2>1. Len(q) > Len(p)
      BY <1>1, <1>5 DEF Begins
    <2> DEFINE i == Len(q) - Len(p)
    <2>2. i \in 1 .. n /\ Len(q) = Len(p) + i
      BY <1>1, <1>5, <2>1 DEF Begins
    <2> HIDE DEF i
    <2>3. \A j \in 1 .. Len(q) : q[j] = Repeat(p, f, i)[j]
      BY <1>2, <1>5, <2>2 DEF Begins
    <2>4. q = Repeat(p, f, i)
      BY <1>2, <2>2, <2>3, SeqEqual
    <2>5. QED
      BY <2>2, <2>4
  <1>6. QED
    BY <1>3, <1>4, <1>5 DEF c

(* What comes before the last element of a path. *)
LEMMA FrontIs ==
    ASSUME NEW S, NEW p \in Seq(S), NEW f \in S
    PROVE  Front(Append(p, f)) = p
  <1> DEFINE a == Append(p, f)
             b == SubSeq(a, 1, Len(p))
  <1>1. /\ a \in Seq(S) /\ Len(a) = Len(p) + 1 /\ Len(p) \in Nat
        /\ \A i \in 1 .. Len(p) : a[i] = p[i]
    BY AppendProperties
  <1> HIDE DEF a
  <1>2. Front(a) = b
    BY <1>1 DEF Front
  <1>3. b \in Seq(S) /\ Len(b) = Len(p) /\ \A i \in 1 .. Len(p) : b[i] = a[i]
    <2>1. CASE Len(p) = 0
      BY <2>1, <1>1, SubSeqEmpty
    <2>2. CASE Len(p) # 0
      BY <2>2, <1>1
    <2>3. QED
      BY <2>1, <2>2
  <1> HIDE DEF b
  <1>4. b = p
    <2>1. \A i \in 1 .. Len(b) : b[i] = p[i]
      BY <1>1, <1>3
    <2>2. QED
      BY <1>3, <2>1, SeqEqual
  <1>5. QED
    BY <1>2, <1>4 DEF a

(* A path is what is before its last element, and that. *)
LEMMA FrontAndLast ==
    ASSUME NEW S, NEW p \in Seq(S), p # <<>>
    PROVE  Front(p) \in Seq(S) /\ Last(p) \in S /\ p = Append(Front(p), Last(p))
  <1>1. PICK q \in Seq(S), g \in S : p = Append(q, g)
    BY SequenceEmptyOrAppend
  <1>2. Front(p) = q
    BY <1>1, FrontIs
  <1>3. Last(p) = g
    BY <1>1, AppendProperties DEF Last
  <1>4. QED
    BY <1>1, <1>2, <1>3

(* What is before a path, and before that.                                  *)
LEMMA BeginsBefore ==
    ASSUME NEW S, NEW q \in Seq(S), NEW p \in Seq(S), NEW r \in Seq(S), Begins(p, r)
    PROVE  /\ Begins(q, p) => Begins(q, r)
           /\ Begins(q, r) /\ Len(q) = Len(p) => q = p
  <1>1. Len(q) \in Nat /\ Len(p) \in Nat /\ Len(r) \in Nat
    OBVIOUS
  <1>2. Begins(q, p) => Begins(q, r)
    BY <1>1 DEF Begins
  <1>3. ASSUME Begins(q, r), Len(q) = Len(p) PROVE q = p
    <2>1. \A i \in 1 .. Len(q) : q[i] = p[i]
      BY <1>1, <1>3 DEF Begins
    <2>2. QED
      BY <1>3, <2>1, SeqEqual
  <1>4. QED
    BY <1>2, <1>3

(* The paths: what the nodes of the tree are.                               *)
Paths == Seq(Ids)

(* A node knows how many inlined copies of its frame are below it.          *)
Skips == Nodes \subseteq Paths /\ skip \in [Nodes -> Nat]

(* Frame f leads from node p to q, down all of its copies there.            *)
Comes(p, f, q) ==
    /\ Append(p, f) \in Nodes
    /\ q = Repeat(p, f, skip[Append(p, f)] + 1)

(* A walk: its first d steps, by d of the frames c, from the path w[0].       *)
Walked(w, d, c) ==
    /\ w \in [Nat -> Paths] /\ c \in Seq(Frames) /\ d \in 0 .. Len(c)
    /\ \A i \in 1 .. d : Comes(w[i - 1], c[i], w[i])

(* Where a step comes to. *)
LEMMA ComesTo ==
    ASSUME Skips, NEW p \in Paths, NEW f \in Frames, NEW q, Comes(p, f, q)
    PROVE  /\ q \in Paths /\ Len(p) < Len(q) /\ Begins(p, q) /\ Begins(Append(p, f), q)
           /\ Append(p, f) \in Paths
  <1> DEFINE n == skip[Append(p, f)]
             a == Append(p, f)
  <1>1. f \in Ids /\ p \in Seq(Ids) /\ n \in Nat /\ n + 1 \in Nat /\ 1 \in 1 .. n + 1
    BY DEF Ids, Paths, Comes, Skips
  <1>2. q = Repeat(p, f, n + 1)
    BY DEF Comes
  <1> HIDE DEF n, a
  <1>3. q \in Seq(Ids) /\ Repeated(q, p, f, n + 1) /\ Len(p) \in Nat
    BY <1>1, <1>2, RepeatIs
  <1>4. /\ a \in Seq(Ids) /\ Len(a) = Len(p) + 1
        /\ \A i \in 1 .. Len(p) : a[i] = p[i]
        /\ a[Len(p) + 1] = f
    BY <1>1, AppendProperties DEF a
  <1>5. Len(p) < Len(q) /\ Begins(p, q)
    BY <1>1, <1>3 DEF Begins, Repeated
  <1>6. Begins(a, q)
    BY <1>1, <1>3, <1>4 DEF Begins, Repeated
  <1>7. QED
    BY <1>3, <1>4, <1>5, <1>6 DEF Paths, a

(* A walk only goes on, ... *)
LEMMA WalkedOn ==
    ASSUME Skips, NEW w, NEW d, NEW c, Walked(w, d, c), NEW a \in 0 .. d, NEW b \in a .. d
    PROVE  /\ w[a] \in Paths /\ w[b] \in Paths /\ a \in Nat /\ b \in Nat /\ d \in Nat
           /\ Begins(w[a], w[b])
  <1>1. /\ w \in [Nat -> Paths] /\ c \in Seq(Frames) /\ d \in 0 .. Len(c) /\ Len(c) \in Nat
        /\ \A i \in 1 .. d : Comes(w[i - 1], c[i], w[i])
    BY DEF Walked
  <1>2. ASSUME NEW i \in 1 .. d
        PROVE  /\ i \in Nat /\ i - 1 \in Nat /\ c[i] \in Frames /\ w[i - 1] \in Paths
               /\ Comes(w[i - 1], c[i], w[i])
    BY <1>1
  <1> DEFINE Bad == {i \in a .. d : ~Begins(w[a], w[i])}
  <1>3. Bad = {}
    <2> SUFFICES ASSUME Bad # {} PROVE FALSE
      OBVIOUS
    <2>1. Bad \in SUBSET Nat
      BY <1>1
    <2>2. PICK k \in Bad : \A m \in Bad : k <= m
      BY <2>1, LeastNatural
    <2>3. Begins(w[a], w[a])
      BY <1>1 DEF Begins, Paths
    <2>4. k \in a .. d /\ ~Begins(w[a], w[k]) /\ k # a
      BY <2>3
    <2>5. k - 1 \in a .. d /\ k - 1 \notin Bad /\ k \in 1 .. d
      BY <1>1, <2>2, <2>4
    <2>6. Begins(w[a], w[k - 1])
      BY <2>5
    <2>7. Comes(w[k - 1], c[k], w[k]) /\ c[k] \in Frames /\ w[k - 1] \in Paths /\ w[k] \in Paths
      BY <1>1, <1>2, <2>5
    <2>8. Begins(w[k - 1], w[k])
      BY <2>7, ComesTo
    <2>9. w[a] \in Paths
      BY <1>1
    <2>10. QED
      BY <2>4, <2>6, <2>7, <2>8, <2>9, BeginsBefore DEF Paths
  <1>4. \A i \in a .. d : Begins(w[a], w[i])
    BY <1>3
  <1>5. QED
    BY <1>1, <1>4

(* ... and by the frames it is of. *)
LEMMA WalkedDown ==
    ASSUME Skips, NEW w, NEW d, NEW c, Walked(w, d, c), NEW a \in 0 .. d, NEW b \in a .. d,
           a < b
    PROVE  /\ Len(w[a]) < Len(w[b]) /\ c[a + 1] \in Frames
           /\ Begins(Append(w[a], c[a + 1]), w[b])
           /\ Append(w[a], c[a + 1]) \in Paths
  <1>1. /\ w \in [Nat -> Paths] /\ c \in Seq(Frames) /\ d \in 0 .. Len(c) /\ Len(c) \in Nat
        /\ \A i \in 1 .. d : Comes(w[i - 1], c[i], w[i])
    BY DEF Walked
  <1> DEFINE e == a + 1
  <1>2. e \in 1 .. d /\ e - 1 = a /\ e \in 0 .. d /\ b \in e .. d
    BY <1>1
  <1>3. Comes(w[a], c[e], w[e]) /\ c[e] \in Frames /\ w[a] \in Paths
    BY <1>1, <1>2
  <1> HIDE DEF e
  <1>4. /\ Len(w[a]) < Len(w[e]) /\ Begins(Append(w[a], c[e]), w[e])
        /\ Append(w[a], c[e]) \in Paths
    BY <1>3, ComesTo
  <1>5. Begins(w[e], w[b]) /\ w[e] \in Paths /\ w[b] \in Paths
    BY <1>2, WalkedOn
  <1>6. Begins(Append(w[a], c[e]), w[b])
    BY <1>4, <1>5, BeginsBefore DEF Paths
  <1>7. Len(w[e]) <= Len(w[b]) /\ Len(w[a]) \in Nat /\ Len(w[e]) \in Nat /\ Len(w[b]) \in Nat
    BY <1>3, <1>5 DEF Begins, Paths
  <1>8. QED
    BY <1>3, <1>4, <1>6, <1>7 DEF e

(* Whether a walk goes on by frame f. *)
LEMMA NextFrame ==
    ASSUME Skips, NEW v, NEW e, NEW b, Walked(v, e, b), NEW j \in 0 .. e, NEW f \in Frames,
           Begins(Append(v[j], f), v[e])
    PROVE  j < e /\ j + 1 \in 1 .. e /\ b[j + 1] = f /\ Comes(v[j], f, v[j + 1])
  <1>1. e \in 0 .. e /\ j \in Nat /\ e \in Nat /\ e \in j .. e
    BY DEF Walked
  <1>2. v[j] \in Paths /\ v[e] \in Paths
    BY <1>1, WalkedOn
  <1> DEFINE a == Append(v[j], f)
  <1>3. a \in Paths /\ Len(a) = Len(v[j]) + 1 /\ Len(v[j]) \in Nat /\ a[Len(v[j]) + 1] = f
    <2>1. v[j] \in Seq(Ids) /\ f \in Ids
      BY <1>2 DEF Paths, Ids
    <2>2. QED
      BY <2>1, AppendProperties DEF Paths
  <1> HIDE DEF a
  <1>4. Len(a) <= Len(v[e]) /\ Begins(a, v[e])
    BY DEF a, Begins
  <1>5. j # e
    BY <1>3, <1>4
  <1>6. j < e /\ j + 1 \in 1 .. e /\ (j + 1) - 1 = j
    BY <1>1, <1>5
  <1> DEFINE g == b[j + 1]
  <1>7. g \in Frames /\ Begins(Append(v[j], g), v[e]) /\ Append(v[j], g) \in Paths
    BY <1>1, <1>6, WalkedDown
  <1> HIDE DEF g
  <1>8. /\ Len(Append(v[j], g)) = Len(v[j]) + 1
        /\ Append(v[j], g)[Len(v[j]) + 1] = g
    <2>1. v[j] \in Seq(Ids) /\ g \in Ids
      BY <1>2, <1>7 DEF Paths, Ids
    <2>2. QED
      BY <2>1, AppendProperties
  <1>9. a[Len(v[j]) + 1] = Append(v[j], g)[Len(v[j]) + 1]
    <2>1. Len(v[j]) + 1 \in 1 .. Len(a)
      BY <1>3
    <2>2. QED
      BY <1>3, <1>4, <1>7, <1>8, <2>1 DEF Begins
  <1>10. g = f
    BY <1>3, <1>8, <1>9
  <1>11. Comes(v[j], g, v[j + 1])
    BY <1>6 DEF Walked, g
  <1>12. QED
    BY <1>6, <1>10, <1>11 DEF g

(* Two walks from one path by the same frames come by the same paths.        *)
LEMMA WalksAgree ==
    ASSUME NEW w, NEW d, NEW c, Walked(w, d, c), NEW v, NEW e, NEW b, Walked(v, e, b),
           NEW i \in 0 .. d, i <= e, w[0] = v[0], \A j \in 1 .. i : b[j] = c[j]
    PROVE  \A j \in 0 .. i : v[j] = w[j]
  <1> DEFINE Bad == {j \in 0 .. i : v[j] # w[j]}
  <1>1. Bad = {}
    <2> SUFFICES ASSUME Bad # {} PROVE FALSE
      OBVIOUS
    <2>0. d \in Nat /\ e \in Nat /\ i \in Nat
      BY DEF Walked
    <2>1. Bad \in SUBSET Nat
      BY <2>0
    <2>2. PICK k \in Bad : \A m \in Bad : k <= m
      BY <2>1, LeastNatural
    <2>3. k \in 1 .. i /\ k - 1 \in 0 .. i /\ k - 1 \notin Bad /\ k \in 1 .. d /\ k \in 1 .. e
      BY <2>0, <2>2
    <2>4. v[k - 1] = w[k - 1] /\ b[k] = c[k]
      BY <2>3
    <2>5. Comes(w[k - 1], c[k], w[k]) /\ Comes(v[k - 1], b[k], v[k])
      BY <2>3 DEF Walked
    <2>6. v[k] = w[k]
      BY <2>4, <2>5 DEF Comes
    <2>7. QED
      BY <2>2, <2>6
  <1>2. QED
    BY <1>1

(* Two walks that meet have come the same way. *)
LEMMA WalksMeet ==
    ASSUME Skips, NEW w, NEW i, NEW c, Walked(w, i, c), NEW v, NEW e, NEW b, Walked(v, e, b),
           Len(v[0]) = Len(w[0]), NEW f \in Frames, Begins(Append(w[i], f), v[e])
    PROVE  /\ i < e /\ i + 1 \in 1 .. e /\ b[i + 1] = f /\ Comes(v[i], f, v[i + 1])
           /\ \A j \in 0 .. i : v[j] = w[j]
           /\ \A j \in 1 .. i : b[j] = c[j]
  <1>1. i \in Nat /\ e \in Nat /\ i \in 0 .. i /\ e \in 0 .. e /\ 0 \in 0 .. e
    BY DEF Walked
  <1>2. \A j \in 0 .. i : w[j] \in Paths
    BY <1>1 DEF Walked
  <1>3. w[i] \in Paths /\ v[e] \in Paths /\ v[0] \in Paths /\ w[0] \in Paths
    BY <1>1 DEF Walked
  <1> DEFINE a == Append(w[i], f)
  <1>4. a \in Paths /\ Begins(w[i], a)
    <2>1. w[i] \in Seq(Ids) /\ f \in Ids
      BY <1>3 DEF Paths, Ids
    <2>2. a \in Seq(Ids) /\ Len(a) = Len(w[i]) + 1 /\ \A j \in 1 .. Len(w[i]) : a[j] = w[i][j]
      BY <2>1, AppendProperties
    <2> HIDE DEF a
    <2>3. QED
      BY <2>1, <2>2 DEF Paths, Begins
  <1>5. Begins(a, v[e])
    OBVIOUS
  <1> HIDE DEF a
  <1>6. Begins(w[i], v[e])
    BY <1>3, <1>4, <1>5, BeginsBefore DEF Paths
  <1> DEFINE Good(j) == j <= e /\ v[j] = w[j] /\ (j # 0 => b[j] = c[j])
             Bad == {j \in 0 .. i : ~Good(j)}
  <1>7. Good(0)
    <2>1. i \in 0 .. i /\ 0 \in 0 .. i /\ e \in 0 .. e
      BY <1>1
    <2>2. Begins(w[0], w[i])
      BY <2>1, WalkedOn
    <2>3. Begins(v[0], v[e])
      BY <1>1, WalkedOn
    <2>4. Begins(w[0], v[e])
      BY <1>3, <1>6, <2>2, BeginsBefore DEF Paths
    <2>5. w[0] = v[0]
      BY <1>3, <2>3, <2>4, BeginsBefore DEF Paths
    <2>6. QED
      BY <1>1, <2>5
  <1>8. ASSUME NEW j \in 0 .. i, j # 0, Good(j - 1) PROVE Good(j)
    <2> DEFINE m == j - 1
    <2>1. m \in 0 .. i /\ m \in 0 .. e /\ i \in m .. i /\ m < i /\ m + 1 = j /\ v[m] = w[m]
      BY <1>1, <1>8
    <2> HIDE DEF m
    <2>2. /\ c[m + 1] \in Frames /\ Begins(Append(w[m], c[m + 1]), w[i])
          /\ Append(w[m], c[m + 1]) \in Paths
      BY <2>1, WalkedDown
    <2>3. Begins(Append(v[m], c[m + 1]), v[e])
      BY <1>3, <1>6, <2>1, <2>2, BeginsBefore DEF Paths
    <2>4. m < e /\ m + 1 \in 1 .. e /\ b[m + 1] = c[m + 1] /\ Comes(v[m], c[m + 1], v[m + 1])
      BY <2>1, <2>2, <2>3, NextFrame
    <2>5. Comes(w[m], c[m + 1], w[m + 1])
      <3>1. j \in 1 .. i /\ j - 1 = m
        BY <1>1, <1>8 DEF m
      <3>2. QED
        BY <2>1, <3>1 DEF Walked
    <2>6. v[m + 1] = w[m + 1]
      BY <2>1, <2>4, <2>5 DEF Comes
    <2>7. QED
      BY <1>1, <2>1, <2>4, <2>6
  <1> HIDE DEF Good
  <1>9. Bad = {}
    <2> SUFFICES ASSUME Bad # {} PROVE FALSE
      OBVIOUS
    <2>1. Bad \in SUBSET Nat
      BY <1>1
    <2>2. PICK k \in Bad : \A m \in Bad : k <= m
      BY <2>1, LeastNatural
    <2>3. k \in 0 .. i /\ k # 0 /\ k - 1 \in 0 .. i /\ k - 1 \notin Bad
      BY <1>1, <1>7, <2>2
    <2>4. QED
      BY <1>8, <2>2, <2>3
  <1>10. \A j \in 0 .. i : Good(j)
    BY <1>9
  <1>11. i \in 0 .. e /\ v[i] = w[i]
    BY <1>1, <1>10 DEF Good
  <1>12. i < e /\ i + 1 \in 1 .. e /\ b[i + 1] = f /\ Comes(v[i], f, v[i + 1])
    BY <1>5, <1>11, NextFrame DEF a
  <1>13. \A j \in 1 .. i : j \in 0 .. i /\ j # 0
    BY <1>1
  <1>14. QED
    BY <1>10, <1>12, <1>13 DEF Good

(* The beginning of a walk is one. *)
LEMMA WalkedSome ==
    ASSUME NEW w, NEW d, NEW c, Walked(w, d, c), NEW i \in 0 .. d
    PROVE  Walked(w, i, c)
  <1>1. i \in 0 .. Len(c) /\ \A j \in 1 .. i : j \in 1 .. d
    BY DEF Walked
  <1>2. QED
    BY <1>1 DEF Walked

(* The nodes of a frame and of what is inlined in it, when each of them but *)
(* the last has the next for its only child.                                *)
LEMMA ChainIs ==
    ASSUME Skips, NEW p \in Paths, NEW f \in Frames, NEW n, n = skip[Append(p, f)],
           Append(p, f) \in Nodes,
           \A i \in 1 .. n : Children(Repeat(p, f, i)) = {Repeat(p, f, i + 1)}
    PROVE  /\ n \in Nat
           /\ Chain(p, f) = [i \in 1 .. n + 1 |-> Repeat(p, f, i)]
           /\ Last(Chain(p, f)) = Repeat(p, f, n + 1)
           /\ Range(Chain(p, f)) = {Repeat(p, f, i) : i \in 1 .. n + 1}
  <1> DEFINE Def(g, i) == IF i = 0 THEN Append(p, f) ELSE FirstChild(g[i - 1])
             Eq(g) == g = [i \in 0 .. n |-> Def(g, i)]
             node == CHOOSE g : Eq(g)
             made == [i \in 0 .. n |-> Repeat(p, f, i + 1)]
  <1>1. n \in Nat /\ p \in Seq(Ids) /\ f \in Ids
    BY DEF Skips, Paths, Ids
  <1>2. Repeat(p, f, 1) = Append(p, f) /\ 0 + 1 = 1
    <2>1. Repeat(p, f, 1) = Append(p, f)
      BY <1>1, RepeatOnce
    <2>2. QED
      BY <2>1
  <1>3. Chain(p, f) = [i \in 1 .. n + 1 |-> node[i - 1]]
    <2> DEFINE m == skip[Append(p, f)]
               other == CHOOSE g : g = [i \in 0 .. m |-> Def(g, i)]
    <2>1. Chain(p, f) = [i \in 1 .. m + 1 |-> other[i - 1]]
      BY Zenon DEF Chain
    <2>2. m = n
      OBVIOUS
    <2> HIDE DEF m, Def
    <2>3. QED
      BY <2>1, <2>2
  <1>4. ASSUME NEW i \in 1 .. n PROVE FirstChild(Repeat(p, f, i)) = Repeat(p, f, i + 1)
    <2>1. Children(Repeat(p, f, i)) = {Repeat(p, f, i + 1)}
      OBVIOUS
    <2>2. QED
      BY <2>1 DEF FirstChild
  <1>5. \A i \in 0 .. n : made[i] = Def(made, i)
    <2> SUFFICES ASSUME NEW i \in 0 .. n PROVE made[i] = Def(made, i)
      OBVIOUS
    <2>1. made[i] = Repeat(p, f, i + 1)
      OBVIOUS
    <2>2. CASE i = 0
      BY <1>2, <2>1, <2>2
    <2>3. CASE i # 0
      <3>1. i \in 1 .. n /\ i - 1 \in 0 .. n /\ (i - 1) + 1 = i
        BY <1>1, <2>3
      <3>2. made[i - 1] = Repeat(p, f, i)
        BY <3>1
      <3>3. QED
        BY <1>4, <2>1, <2>3, <3>1, <3>2
    <2>4. QED
      BY <2>2, <2>3
  <1>6. made = [i \in 0 .. n |-> made[i]]
    OBVIOUS
  <1>7. Eq(made)
    <2> HIDE DEF Def, made
    <2>1. QED
      BY <1>5, <1>6
  <1>8. Eq(node)
    <2> HIDE DEF Eq
    <2>1. QED
      BY <1>7
  <1> HIDE DEF node
  <1>9. /\ 0 \in 0 .. n => node[0] = Append(p, f)
        /\ \A i \in 1 .. n : node[i] = FirstChild(node[i - 1])
    <2>1. \A i \in 0 .. n : node[i] = Def(node, i)
      BY <1>8
    <2>2. \A i \in 1 .. n : i \in 0 .. n /\ i # 0
      BY <1>1
    <2>3. QED
      BY <2>1, <2>2
  <1> DEFINE Bad == {i \in 0 .. n : node[i] # Repeat(p, f, i + 1)}
  <1>10. Bad = {}
    <2> SUFFICES ASSUME Bad # {} PROVE FALSE
      OBVIOUS
    <2>1. Bad \in SUBSET Nat
      BY <1>1
    <2>2. PICK k \in Bad : \A m \in Bad : k <= m
      BY <2>1, LeastNatural
    <2>3. k \in 0 .. n /\ node[k] # Repeat(p, f, k + 1)
      OBVIOUS
    <2>4. 0 \in 0 .. n
      BY <1>1
    <2>5. k # 0
      BY <1>2, <1>9, <2>3, <2>4
    <2>6. k \in 1 .. n /\ k - 1 \in 0 .. n /\ k - 1 \notin Bad /\ (k - 1) + 1 = k
      BY <1>1, <2>2, <2>3, <2>5
    <2>7. node[k - 1] = Repeat(p, f, k)
      BY <2>6
    <2>8. QED
      BY <1>4, <1>9, <2>3, <2>6, <2>7
  <1>11. \A i \in 1 .. n + 1 : node[i - 1] = Repeat(p, f, i)
    <2>1. \A i \in 1 .. n + 1 : i - 1 \in 0 .. n /\ (i - 1) + 1 = i
      BY <1>1
    <2>2. QED
      BY <1>10, <2>1
  <1> DEFINE chn == [i \in 1 .. n + 1 |-> Repeat(p, f, i)]
  <1>12. Chain(p, f) = chn
    BY <1>3, <1>11
  <1>13. DOMAIN chn = 1 .. n + 1 /\ Len(chn) = n + 1 /\ n + 1 \in 1 .. n + 1
    BY <1>1
  <1>14. Last(chn) = Repeat(p, f, n + 1)
    BY <1>13 DEF Last
  <1>15. Range(chn) = {Repeat(p, f, i) : i \in 1 .. n + 1}
    BY DEF Range
  <1>16. QED
    BY <1>1, <1>12, <1>14, <1>15

(* Where the frames of an event lead to, when its walk goes from node to node. *)
LEMMA PlaceIs ==
    ASSUME NEW k, NEW w, NEW d \in Nat, d = Len(Calls(k)),
           w[0] = <<CommId(Sample[k].comm)>>,
           \A i \in 1 .. d : w[i] = Last(Chain(w[i - 1], Calls(k)[i]))
    PROVE  \A i \in 0 .. d : Place(k)[i] = w[i]
  <1> DEFINE Def(g, i) == IF i = 0 THEN <<CommId(Sample[k].comm)>>
                          ELSE Last(Chain(g[i - 1], Calls(k)[i]))
             Eq(g) == g = [i \in 0 .. Len(Calls(k)) |-> Def(g, i)]
             place == CHOOSE g : Eq(g)
             made == [i \in 0 .. d |-> w[i]]
  <1>1. Place(k) = place
    BY Zenon DEF Place
  <1>2. \A i \in 0 .. d : made[i] = Def(made, i)
    <2> SUFFICES ASSUME NEW i \in 0 .. d PROVE made[i] = Def(made, i)
      OBVIOUS
    <2>1. CASE i = 0
      BY <2>1
    <2>2. CASE i # 0
      <3>1. i \in 1 .. d /\ i - 1 \in 0 .. d
        BY <2>2
      <3>2. made[i - 1] = w[i - 1] /\ made[i] = w[i]
        BY <3>1
      <3>3. QED
        BY <2>2, <3>1, <3>2
    <2>3. QED
      BY <2>1, <2>2
  <1>3. made = [i \in 0 .. d |-> made[i]]
    OBVIOUS
  <1>4. Eq(made)
    <2> HIDE DEF Def, made
    <2>1. QED
      BY <1>2, <1>3
  <1>5. Eq(place)
    <2> HIDE DEF Eq
    <2>1. QED
      BY <1>4
  <1> HIDE DEF place
  <1>6. /\ place[0] = w[0]
        /\ \A i \in 1 .. d : place[i] = Last(Chain(place[i - 1], Calls(k)[i]))
    <2>1. \A i \in 0 .. d : place[i] = Def(place, i)
      BY <1>5
    <2>2. 0 \in 0 .. d /\ \A i \in 1 .. d : i \in 0 .. d /\ i # 0
      OBVIOUS
    <2>3. QED
      BY <2>1, <2>2
  <1> DEFINE Bad == {i \in 0 .. d : place[i] # w[i]}
  <1>7. Bad = {}
    <2> SUFFICES ASSUME Bad # {} PROVE FALSE
      OBVIOUS
    <2>1. Bad \in SUBSET Nat
      OBVIOUS
    <2>2. PICK m \in Bad : \A j \in Bad : m <= j
      BY <2>1, LeastNatural
    <2>3. m \in 1 .. d /\ m - 1 \in 0 .. d /\ m - 1 \notin Bad
      BY <1>6, <2>2
    <2>4. place[m - 1] = w[m - 1]
      BY <2>3
    <2>5. QED
      BY <1>6, <2>2, <2>3, <2>4
  <1>8. QED
    BY <1>1, <1>7

(* The events that come by path q: the first done[k] frames of event k lead   *)
(* along the walk W[k].                                                      *)
Through(W, done, q) == {k \in taken : Begins(q, W[k][done[k]])}

(* Every walk begins at the node of its comm. *)
Rooted(W) ==
    \A k \in taken : \E n \in 0 .. Len(comms) - 1 :
       comms[n + 1] = Sample[k].comm /\ W[k][0] = <<n>>

(* The nodes are what the walks come by, and they count them.                *)
Weighs(W, done) ==
    /\ Nodes = {q \in Paths : q # <<>> /\ Through(W, done, q) # {}}
    /\ \A q \in Nodes : weight[q] = Cardinality(Through(W, done, q))

(* All events but the one that is being inserted have been walked to their   *)
(* end.                                                                      *)
Unfinished(W, done, cur) ==
    /\ cur \in taken
    /\ at = W[cur][done[cur]]
    /\ Len(Calls(cur)) = done[cur] + Len(rest)
    /\ \A i \in 1 .. Len(rest) : rest[i] = Calls(cur)[done[cur] + i]
    /\ \A k \in taken \ {cur} : done[k] = Len(Calls(k))

(* Every merged event has a walk: as far as its frames have been inserted.   *)
FlameWalks(W, done) ==
    /\ W \in [EventKeys -> [Nat -> Paths]] /\ done \in [EventKeys -> Nat]
    /\ \A k \in taken : Walked(W[k], done[k], Calls(k))
    /\ Rooted(W)
    /\ Weighs(W, done)
    /\ \/ rest = <<>> /\ \A k \in taken : done[k] = Len(Calls(k))
       \/ \E cur \in taken : Unfinished(W, done, cur)

(* What the fields of the tree are, besides.                                 *)
FlameTypes ==
    /\ left \subseteq EventKeys /\ taken \subseteq EventKeys /\ left \cap taken = {}
    /\ comms \in Seq(Comms)
    /\ \A m \in 1 .. Len(comms), n \in 1 .. Len(comms) : comms[m] = comms[n] => m = n
    /\ Skips
    /\ rest \in Seq(Frames)
    /\ fpc # "build" => left = {} /\ rest = <<>>
    /\ fpc = "idle" => taken = {} /\ comms = <<>> /\ weight = <<>> /\ skip = <<>>

(* The invariant.                                                           *)
FlameInv == FlameTypes /\ \E W, done : FlameWalks(W, done)

(* The frames of an event, from the root's side.                            *)
LEMMA CallsAre ==
    ASSUME NEW k \in EventKeys
    PROVE  /\ Calls(k) \in Seq(Frames) /\ Len(Calls(k)) \in Nat
           /\ Reverse(Sample[k].trace) = Calls(k)
  <1>1. Sample[k].trace \in Seq(Frames)
    BY ProfileAssumption DEF Traces
  <1>2. Reverse(Sample[k].trace) \in Seq(Frames)
    BY <1>1 DEF Reverse
  <1>3. QED
    BY <1>2 DEF Calls

(* What events have in common that come by one node.                        *)
LEMMA Shared ==
    ASSUME FlameTypes, NEW W, NEW done, FlameWalks(W, done),
           NEW k \in taken, NEW i \in 0 .. done[k], NEW f \in Frames,
           NEW j \in taken, Begins(Append(W[k][i], f), W[j][done[j]])
    PROVE  /\ i + 1 \in 1 .. done[j] /\ Calls(j)[i + 1] = f
           /\ Comes(W[k][i], f, W[j][i + 1])
           /\ Begins(W[j][i + 1], W[j][done[j]])
           /\ Sample[j].comm = Sample[k].comm
           /\ \A m \in 1 .. i : Calls(j)[m] = Calls(k)[m]
  <1>1. Skips
    BY DEF FlameTypes
  <1>2. Walked(W[k], done[k], Calls(k)) /\ Walked(W[j], done[j], Calls(j)) /\ Rooted(W)
    BY DEF FlameWalks
  <1>3. Walked(W[k], i, Calls(k))
    BY <1>2, WalkedSome
  <1>4. PICK n \in 0 .. Len(comms) - 1 : comms[n + 1] = Sample[k].comm /\ W[k][0] = <<n>>
    BY <1>2 DEF Rooted
  <1>5. PICK m \in 0 .. Len(comms) - 1 : comms[m + 1] = Sample[j].comm /\ W[j][0] = <<m>>
    BY <1>2 DEF Rooted
  <1>6. Len(W[j][0]) = Len(W[k][0])
    BY <1>4, <1>5
  <1>7. /\ i < done[j] /\ i + 1 \in 1 .. done[j] /\ Calls(j)[i + 1] = f
        /\ Comes(W[j][i], f, W[j][i + 1])
        /\ \A h \in 0 .. i : W[j][h] = W[k][h]
        /\ \A h \in 1 .. i : Calls(j)[h] = Calls(k)[h]
    BY <1>1, <1>2, <1>3, <1>6, WalksMeet
  <1>8. 0 \in 0 .. i /\ i \in 0 .. i /\ i \in Nat /\ done[j] \in Nat
    BY <1>2, <1>3 DEF Walked
  <1>9. W[j][0] = W[k][0] /\ W[j][i] = W[k][i]
    BY <1>7, <1>8
  <1>10. m = n
    BY <1>4, <1>5, <1>9
  <1>11. i + 1 \in 0 .. done[j] /\ done[j] \in (i + 1) .. done[j]
    BY <1>7, <1>8
  <1>12. Begins(W[j][i + 1], W[j][done[j]])
    BY <1>1, <1>2, <1>11, WalkedOn
  <1>13. QED
    BY <1>4, <1>5, <1>7, <1>9, <1>10, <1>12

(* The nodes of frame f below path p, n of them for what is inlined in it.    *)
IsChain(p, f, n) ==
    /\ p \in Paths /\ n \in Nat
    /\ Last(Chain(p, f)) = Repeat(p, f, n + 1)
    /\ Range(Chain(p, f)) = {Repeat(p, f, h) : h \in 1 .. n + 1}
    /\ \A h \in 1 .. n + 1 : Repeat(p, f, h) \in Nodes

(* The nodes of a frame below where a walk has come by. *)
LEMMA ChainHere ==
    ASSUME FlameTypes, NEW W, NEW done, FlameWalks(W, done),
           NEW k \in taken, NEW i \in 0 .. done[k], NEW f \in Frames,
           Append(W[k][i], f) \in Nodes
    PROVE  IsChain(W[k][i], f, skip[Append(W[k][i], f)])
  <1> DEFINE p == W[k][i]
             n == skip[Append(p, f)]
             End(j) == W[j][done[j]]
  <1>1. Skips /\ taken \subseteq EventKeys
    BY DEF FlameTypes
  <1>2. /\ Walked(W[k], done[k], Calls(k)) /\ Weighs(W, done)
        /\ W \in [EventKeys -> [Nat -> Paths]] /\ done \in [EventKeys -> Nat]
    BY DEF FlameWalks
  <1>3. p \in Paths /\ n \in Nat /\ p \in Seq(Ids) /\ f \in Ids /\ n + 1 \in Nat
    <2>1. i \in Nat /\ k \in EventKeys
      BY <1>1, <1>2 DEF Walked
    <2>2. p \in Paths
      BY <1>2, <2>1
    <2>3. n \in Nat
      BY <1>1 DEF Skips
    <2> HIDE DEF p, n
    <2>4. QED
      BY <2>2, <2>3 DEF Paths, Ids
  <1>4. \A j \in taken : End(j) \in Seq(Ids)
    BY <1>1, <1>2 DEF Paths
  <1>5. /\ Nodes = {q \in Paths : q # <<>> /\ Through(W, done, q) # {}}
    BY <1>2 DEF Weighs
  <1>6. ASSUME NEW j \in taken, Begins(Append(p, f), End(j))
        PROVE  Begins(Repeat(p, f, n + 1), End(j))
    <2>1. Comes(p, f, W[j][i + 1]) /\ Begins(W[j][i + 1], End(j))
      BY <1>6, Shared
    <2>2. QED
      BY <2>1 DEF Comes
  <1> HIDE DEF End, p, n
  <1>7. ASSUME NEW h \in 1 .. n + 1
        PROVE  /\ Repeat(p, f, h) \in Seq(Ids) /\ Len(Repeat(p, f, h)) = Len(p) + h
               /\ Len(p) \in Nat /\ Begins(Repeat(p, f, h), Repeat(p, f, n + 1))
               /\ Begins(Append(p, f), Repeat(p, f, h)) /\ Append(p, f) \in Seq(Ids)
               /\ Repeat(p, f, n + 1) \in Seq(Ids)
    <2>1. h \in Nat /\ 1 \in 1 .. h /\ h \in 1 .. n + 1
      BY <1>3
    <2>2. Repeat(p, f, h) \in Seq(Ids) /\ Repeated(Repeat(p, f, h), p, f, h) /\ Len(p) \in Nat
      BY <1>3, <2>1, RepeatIs
    <2>3. Repeat(p, f, 1) = Append(p, f) /\ Append(p, f) \in Seq(Ids)
      <3>1. Repeat(p, f, 1) = Append(p, f)
        BY <1>3, RepeatOnce
      <3>2. Append(p, f) \in Seq(Ids)
        BY <1>3, AppendProperties
      <3>3. QED
        BY <3>1, <3>2
    <2>4. \E g \in 1 .. h : Append(p, f) = Repeat(p, f, g)
      BY <2>1, <2>3
    <2>5. Begins(Append(p, f), Repeat(p, f, h))
      BY <1>3, <2>1, <2>3, <2>4, BeginsRepeat
    <2>6. Begins(Repeat(p, f, h), Repeat(p, f, n + 1))
      BY <1>3, <2>1, <2>2, BeginsRepeat
    <2>7. Repeat(p, f, n + 1) \in Seq(Ids)
      BY <1>3, RepeatIs
    <2>8. QED
      BY <2>2, <2>3, <2>5, <2>6, <2>7 DEF Repeated
  <1>8. Append(p, f) \in Nodes
    BY DEF p
  <1>9. ASSUME NEW h \in 1 .. n + 1 PROVE Repeat(p, f, h) \in Nodes
    <2>1. PICK j \in taken : Begins(Append(p, f), End(j))
      BY <1>5, <1>8 DEF Through, End
    <2>2. Begins(Repeat(p, f, n + 1), End(j))
      BY <1>6, <2>1
    <2>3. Begins(Repeat(p, f, h), End(j))
      BY <1>4, <1>7, <2>2, BeginsBefore
    <2>4. Repeat(p, f, h) # <<>>
      <3>1. Len(Repeat(p, f, h)) # 0
        BY <1>7
      <3>2. QED
        BY <3>1
    <2>5. j \in Through(W, done, Repeat(p, f, h))
      BY <2>3 DEF Through, End
    <2>6. QED
      BY <1>5, <1>7, <2>4, <2>5 DEF Paths
  <1>10. ASSUME NEW h \in 1 .. n
         PROVE  Children(Repeat(p, f, h)) = {Repeat(p, f, h + 1)}
    <2> DEFINE r == Repeat(p, f, h)
               s == Repeat(p, f, h + 1)
    <2>1. h \in Nat /\ h \in 1 .. n + 1 /\ h + 1 \in 1 .. n + 1
      BY <1>3
    <2>2. s = Append(r, f)
      <3>1. Repeat(p, f, h + 1) = Append(Repeat(p, f, h), f)
        BY <1>3, <2>1, RepeatGrows
      <3>2. QED
        BY <3>1
    <2>3. r \in Seq(Ids) /\ s \in Seq(Ids) /\ s \in Nodes /\ Len(s) = Len(r) + 1
          /\ Len(r) \in Nat /\ Begins(s, Repeat(p, f, n + 1)) /\ Begins(Append(p, f), r)
      <3>1. r \in Seq(Ids) /\ Len(r) = Len(p) + h /\ Len(p) \in Nat /\ Begins(Append(p, f), r)
        BY <1>7, <2>1
      <3>2. s \in Seq(Ids) /\ Len(s) = Len(p) + (h + 1) /\ Begins(s, Repeat(p, f, n + 1))
        BY <1>7, <2>1
      <3>3. s \in Nodes
        BY <1>9, <2>1
      <3> HIDE DEF r, s
      <3>4. QED
        BY <2>1, <3>1, <3>2, <3>3
    <2> HIDE DEF r, s
    <2>4. s # <<>> /\ Front(s) = r
      <3>1. Front(Append(r, f)) = r
        BY <1>3, <2>3, FrontIs
      <3>2. s # <<>>
        BY <2>3
      <3>3. QED
        BY <2>2, <3>1, <3>2
    <2>5. ASSUME NEW q \in Nodes, q # <<>>, Front(q) = r PROVE q = s
      <3>1. q \in Seq(Ids)
        BY <1>1 DEF Skips, Paths
      <3>2. Last(q) \in Ids /\ q = Append(r, Last(q))
        BY <2>5, <3>1, FrontAndLast
      <3>3. Len(q) = Len(r) + 1 /\ Begins(r, q)
        <4> DEFINE g == Last(q)
        <4> HIDE DEF g
        <4>1. /\ Append(r, g) \in Seq(Ids) /\ Len(Append(r, g)) = Len(r) + 1
              /\ \A m \in 1 .. Len(r) : Append(r, g)[m] = r[m]
          BY <2>3, <3>2, AppendProperties DEF g
        <4>2. q = Append(r, g)
          BY <3>2 DEF g
        <4>3. QED
          BY <2>3, <4>1, <4>2 DEF Begins
      <3>4. PICK j \in taken : Begins(q, End(j))
        BY <1>5 DEF Through, End
      <3>5. Begins(r, End(j)) /\ End(j) \in Seq(Ids)
        BY <1>4, <2>3, <3>1, <3>3, <3>4, BeginsBefore
      <3>6. Append(p, f) \in Seq(Ids) /\ Repeat(p, f, n + 1) \in Seq(Ids)
        BY <1>7, <2>1
      <3>7. Begins(Append(p, f), End(j))
        BY <2>3, <3>5, <3>6, BeginsBefore
      <3>8. Begins(Repeat(p, f, n + 1), End(j))
        BY <1>6, <3>7
      <3>9. Begins(s, End(j))
        BY <2>3, <3>5, <3>6, <3>8, BeginsBefore
      <3>10. QED
        BY <2>3, <3>1, <3>3, <3>4, <3>5, <3>9, BeginsBefore
    <2>6. Children(r) = {s}
      BY <2>3, <2>4, <2>5 DEF Children
    <2>7. QED
      BY <2>6 DEF r, s
  <1>11. n = skip[Append(p, f)]
    BY DEF n
  <1>12. /\ Last(Chain(p, f)) = Repeat(p, f, n + 1)
         /\ Range(Chain(p, f)) = {Repeat(p, f, h) : h \in 1 .. n + 1}
    BY <1>1, <1>3, <1>8, <1>10, <1>11, ChainIs
  <1>13. QED
    BY <1>3, <1>9, <1>12 DEF IsChain, p, n

(* Two sequences that are the same up to a point. *)
LEMMA SameBeginning ==
    ASSUME NEW S, NEW p \in Seq(S), NEW q \in Seq(S), NEW i \in Nat, i <= Len(p), i <= Len(q)
    PROVE  SubSeq(p, 1, i) = SubSeq(q, 1, i) <=> \A m \in 1 .. i : p[m] = q[m]
  <1> DEFINE a == SubSeq(p, 1, i)
             b == SubSeq(q, 1, i)
  <1>1. /\ a \in Seq(S) /\ Len(a) = i /\ \A m \in 1 .. i : a[m] = p[m]
        /\ b \in Seq(S) /\ Len(b) = i /\ \A m \in 1 .. i : b[m] = q[m]
    <2>1. CASE i = 0
      BY <2>1, SubSeqEmpty
    <2>2. CASE i # 0
      BY <2>2
    <2>3. QED
      BY <2>1, <2>2
  <1> HIDE DEF a, b
  <1>2. (\A m \in 1 .. i : p[m] = q[m]) => a = b
    <2> SUFFICES ASSUME \A m \in 1 .. i : p[m] = q[m] PROVE a = b
      OBVIOUS
    <2>1. \A m \in 1 .. Len(a) : a[m] = b[m]
      BY <1>1
    <2>2. QED
      BY <1>1, <2>1, SeqEqual
  <1>3. QED
    BY <1>1, <1>2 DEF a, b

(* Each comm has its node. *)
LEMMA RootIs ==
    ASSUME FlameTypes, NEW W, Rooted(W), NEW k \in taken, NEW j \in taken
    PROVE  /\ Sample[j].comm = Sample[k].comm <=> W[j][0] = W[k][0]
           /\ W[k][0] = <<CommId(Sample[k].comm)>>
           /\ Len(W[k][0]) = 1 /\ Len(W[j][0]) = 1
  <1>1. PICK n \in 0 .. Len(comms) - 1 : comms[n + 1] = Sample[k].comm /\ W[k][0] = <<n>>
    BY DEF Rooted
  <1>2. PICK m \in 0 .. Len(comms) - 1 : comms[m + 1] = Sample[j].comm /\ W[j][0] = <<m>>
    BY DEF Rooted
  <1>3. /\ Len(comms) \in Nat
        /\ \A x \in 1 .. Len(comms), y \in 1 .. Len(comms) : comms[x] = comms[y] => x = y
    BY DEF FlameTypes
  <1>4. ASSUME NEW x \in 0 .. Len(comms) - 1, NEW y \in 0 .. Len(comms) - 1,
               comms[x + 1] = comms[y + 1]
        PROVE  x = y
    <2>1. x + 1 \in 1 .. Len(comms) /\ y + 1 \in 1 .. Len(comms)
      BY <1>3
    <2>2. x + 1 = y + 1
      BY <1>3, <1>4, <2>1
    <2>3. QED
      BY <1>3, <2>2
  <1>5. CommId(Sample[k].comm) = n
    <2>1. \A x \in 0 .. Len(comms) - 1 : comms[x + 1] = Sample[k].comm <=> x = n
      BY <1>1, <1>4
    <2>2. QED
      BY <2>1 DEF CommId
  <1>6. Sample[j].comm = Sample[k].comm <=> m = n
    BY <1>1, <1>2, <1>4
  <1>7. QED
    BY <1>1, <1>2, <1>5, <1>6

(* Once every event is inserted, its frames lead along its walk, ...         *)
LEMMA PlacesAre ==
    ASSUME FlameTypes, NEW W, NEW done, FlameWalks(W, done),
           NEW k \in taken, done[k] = Len(Calls(k))
    PROVE  \A i \in 0 .. Len(Calls(k)) : Place(k)[i] = W[k][i]
  <1>1. k \in EventKeys /\ Rooted(W) /\ Walked(W[k], done[k], Calls(k))
    BY DEF FlameTypes, FlameWalks
  <1>2. W[k][0] = <<CommId(Sample[k].comm)>>
    BY <1>1, RootIs
  <1>3. Len(Calls(k)) \in Nat /\ Calls(k) \in Seq(Frames)
    BY <1>1, CallsAre
  <1> DEFINE d == Len(Calls(k))
  <1>4. ASSUME NEW i \in 1 .. d
        PROVE  W[k][i] = Last(Chain(W[k][i - 1], Calls(k)[i]))
    <2>1. i - 1 \in 0 .. done[k] /\ Calls(k)[i] \in Frames
      BY <1>3
    <2>2. Comes(W[k][i - 1], Calls(k)[i], W[k][i])
      BY <1>1 DEF Walked
    <2> DEFINE f == Calls(k)[i]
               h == i - 1
    <2>3. f \in Frames /\ h \in 0 .. done[k] /\ Append(W[k][h], f) \in Nodes
      BY <2>1, <2>2 DEF Comes
    <2> HIDE DEF f, h
    <2>4. Last(Chain(W[k][h], f)) = Repeat(W[k][h], f, skip[Append(W[k][h], f)] + 1)
      <3>1. IsChain(W[k][h], f, skip[Append(W[k][h], f)])
        BY <2>3, ChainHere
      <3>2. QED
        BY <3>1 DEF IsChain
    <2>5. QED
      BY <2>2, <2>4 DEF Comes, f, h
  <1> HIDE DEF d
  <1>5. d \in Nat /\ d = Len(Calls(k))
    BY <1>3 DEF d
  <1>6. \A i \in 0 .. d : Place(k)[i] = W[k][i]
    BY <1>2, <1>4, <1>5, PlaceIs
  <1>7. QED
    BY <1>5, <1>6

(* ... and the nodes it comes by ... *)
NodesOf(k, i) == IF i = 0 THEN <<Place(k)[0]>>
                 ELSE Chain(Place(k)[i - 1], Calls(k)[i])

(* ... count the events that share its callers.                              *)
LEMMA NodeCounts ==
    ASSUME FlameTypes, NEW W, NEW done, FlameWalks(W, done),
           \A k \in taken : done[k] = Len(Calls(k)),
           NEW k \in taken, NEW i \in 0 .. Len(Calls(k)), NEW p \in Range(NodesOf(k, i))
    PROVE  p \in Nodes /\ weight[p] = Cardinality(Sharing(k, i))
  <1>1. /\ Skips /\ taken \subseteq EventKeys /\ Rooted(W) /\ Weighs(W, done)
        /\ W \in [EventKeys -> [Nat -> Paths]] /\ done \in [EventKeys -> Nat]
        /\ \A j \in taken : Walked(W[j], done[j], Calls(j))
    BY DEF FlameTypes, FlameWalks
  <1>2. \A j \in taken : Calls(j) \in Seq(Frames) /\ Len(Calls(j)) \in Nat
    BY <1>1, CallsAre
  <1>3. \A h \in 0 .. Len(Calls(k)) : Place(k)[h] = W[k][h]
    BY PlacesAre
  <1> DEFINE End(j) == W[j][done[j]]
  <1>4. /\ i \in Nat /\ i \in 0 .. done[k] /\ done[k] \in i .. done[k] /\ k \in EventKeys
        /\ \A j \in taken : End(j) \in Seq(Ids) /\ 0 \in 0 .. done[j] /\ done[j] \in 0 .. done[j]
    <2>1. \A j \in taken : done[j] \in Nat /\ j \in EventKeys
      BY <1>1
    <2>2. \A j \in taken : End(j) \in Seq(Ids)
      BY <1>1, <2>1 DEF Paths
    <2>3. i \in Nat /\ i \in 0 .. done[k] /\ done[k] \in i .. done[k]
      BY <1>2
    <2> HIDE DEF End
    <2>4. QED
      BY <2>1, <2>2, <2>3
  <1>5. W[k][i] \in Seq(Ids) /\ Begins(W[k][i], End(k))
    BY <1>1, <1>4, WalkedOn DEF Paths
  <1>6. /\ p \in Seq(Ids) /\ p # <<>> /\ Begins(p, W[k][i])
        /\ \A j \in taken : Begins(p, End(j)) =>
              /\ Sample[j].comm = Sample[k].comm
              /\ Len(Calls(j)) >= i
              /\ \A m \in 1 .. i : Calls(j)[m] = Calls(k)[m]
    <2>1. CASE i = 0
      <3>1. p = W[k][0]
        BY <1>3, <1>4, <2>1 DEF NodesOf, Range
      <3>2. Len(W[k][0]) = 1 /\ W[k][0] \in Seq(Ids)
        BY <1>1, <1>5, <2>1, RootIs
      <3>3. p # <<>> /\ Begins(p, W[k][i])
        <4>1. Len(p) = 1 /\ W[k][i] = p
          BY <2>1, <3>1, <3>2
        <4>2. p # <<>>
          <5>1. Len(W[k][0]) # 0
            BY <3>2
          <5>2. W[k][0] # <<>>
            BY <5>1
          <5>3. QED
            BY <3>1, <5>2
        <4>3. Begins(p, p)
          BY <4>1 DEF Begins
        <4>4. QED
          BY <4>1, <4>2, <4>3
      <3>4. ASSUME NEW j \in taken, Begins(p, End(j)) PROVE Sample[j].comm = Sample[k].comm
        <4>1. Begins(W[j][0], End(j)) /\ W[j][0] \in Seq(Ids)
          BY <1>1, <1>4, WalkedOn DEF Paths
        <4>2. Len(W[j][0]) = 1
          BY <1>1, RootIs
        <4>3. W[j][0] = p
          BY <1>4, <3>1, <3>2, <3>4, <4>1, <4>2, BeginsBefore
        <4>4. QED
          BY <1>1, <3>1, <4>3, RootIs
      <3>5. QED
        BY <1>2, <2>1, <3>1, <3>2, <3>3, <3>4
    <2>2. CASE i # 0
      <3> DEFINE h == i - 1
                 f == Calls(k)[i]
                 n == skip[Append(W[k][h], f)]
      <3>1. h \in 0 .. done[k] /\ h \in 0 .. Len(Calls(k)) /\ f \in Frames /\ i \in 1 .. done[k] /\ h + 1 = i
        BY <1>2, <1>4, <2>2
      <3>2. Comes(W[k][h], f, W[k][i])
        BY <1>1, <3>1 DEF Walked
      <3>3. p \in Range(Chain(W[k][h], f))
        BY <1>3, <2>2, <3>1 DEF NodesOf
      <3> HIDE DEF h, f
      <3>4. /\ W[k][h] \in Paths /\ n \in Nat
            /\ Range(Chain(W[k][h], f)) = {Repeat(W[k][h], f, g) : g \in 1 .. n + 1}
        <4>1. IsChain(W[k][h], f, n)
          BY <3>1, <3>2, ChainHere DEF Comes
        <4> HIDE DEF n
        <4>2. QED
          BY <4>1 DEF IsChain
      <3>5. W[k][i] = Repeat(W[k][h], f, n + 1)
        BY <3>2 DEF Comes
      <3> HIDE DEF n
      <3> DEFINE w == W[k][h]
      <3>6. PICK g \in 1 .. n + 1 : p = Repeat(w, f, g)
        BY <3>3, <3>4
      <3>7. w \in Seq(Ids) /\ f \in Ids /\ g \in Nat /\ n + 1 \in Nat /\ 1 \in 1 .. g
        BY <3>1, <3>4 DEF Paths, Ids
      <3> HIDE DEF w
      <3>8. p \in Seq(Ids) /\ Len(w) \in Nat /\ Len(p) = Len(w) + g
        <4>1. p \in Seq(Ids) /\ Len(w) \in Nat /\ Repeated(p, w, f, g)
          BY <3>6, <3>7, RepeatIs
        <4>2. QED
          BY <4>1 DEF Repeated
      <3>9. p # <<>>
        <4>1. Len(p) # 0
          BY <3>7, <3>8
        <4>2. QED
          BY <4>1
      <3>10. Begins(p, W[k][i])
        <4>1. Begins(p, Repeat(w, f, n + 1))
          BY <3>6, <3>7, <3>8, BeginsRepeat
        <4>2. QED
          BY <3>5, <4>1 DEF w
      <3>11. Append(w, f) \in Seq(Ids) /\ Begins(Append(w, f), p)
        <4>1. Append(w, f) = Repeat(w, f, 1) /\ Append(w, f) \in Seq(Ids)
          <5>1. Repeat(w, f, 1) = Append(w, f)
            BY <3>7, RepeatOnce
          <5>2. Append(w, f) \in Seq(Ids)
            BY <3>7, AppendProperties
          <5>3. QED
            BY <5>1, <5>2
        <4>2. \E m \in 1 .. g : Append(w, f) = Repeat(w, f, m)
          BY <3>7, <4>1
        <4>3. Begins(Append(w, f), Repeat(w, f, g))
          BY <3>7, <4>1, <4>2, BeginsRepeat
        <4>4. QED
          BY <3>6, <4>1, <4>3
      <3>12. ASSUME NEW j \in taken, Begins(p, End(j))
             PROVE  /\ Sample[j].comm = Sample[k].comm /\ Len(Calls(j)) >= i
                    /\ \A m \in 1 .. i : Calls(j)[m] = Calls(k)[m]
        <4>1. Begins(Append(w, f), End(j))
          <5>1. End(j) \in Seq(Ids) /\ Begins(p, End(j))
            BY <1>4, <3>12
          <5> HIDE DEF End
          <5>2. QED
            BY <3>8, <3>11, <5>1, BeginsBefore
        <4>2. Begins(Append(W[k][h], f), W[j][done[j]])
          BY <4>1 DEF w
        <4>3. /\ h + 1 \in 1 .. done[j] /\ Calls(j)[h + 1] = f
              /\ Sample[j].comm = Sample[k].comm
              /\ \A m \in 1 .. h : Calls(j)[m] = Calls(k)[m]
          BY <3>1, <4>2, Shared
        <4>4. \A m \in 1 .. i : m \in 1 .. h \/ m = i
          BY <1>4, <3>1
        <4>5. done[j] = Len(Calls(j)) /\ Len(Calls(j)) \in Nat /\ i \in 1 .. done[j]
          BY <1>2, <3>1, <4>3
        <4>6. Calls(j)[i] = Calls(k)[i]
          BY <3>1, <4>3 DEF f
        <4>7. QED
          BY <4>3, <4>4, <4>5, <4>6
      <3>13. QED
        BY <3>8, <3>9, <3>10, <3>12
    <2>3. QED
      BY <2>1, <2>2
  <1>7. ASSUME NEW j \in taken, Sample[j].comm = Sample[k].comm, Len(Calls(j)) >= i,
               \A m \in 1 .. i : Calls(j)[m] = Calls(k)[m]
        PROVE  Begins(p, End(j))
    <2>1. W[k][0] = W[j][0]
      BY <1>1, <1>7, RootIs
    <2>2. i <= done[j] /\ i \in 0 .. done[j] /\ done[j] \in i .. done[j] /\ i \in 0 .. i
      BY <1>2, <1>4, <1>7
    <2>3. Walked(W[k], done[k], Calls(k)) /\ Walked(W[j], done[j], Calls(j))
      BY <1>1
    <2>4. \A m \in 0 .. i : W[j][m] = W[k][m]
      BY <1>4, <1>7, <2>1, <2>2, <2>3, WalksAgree
    <2>5. W[j][i] = W[k][i]
      BY <2>2, <2>4
    <2>6. Begins(W[j][i], End(j))
      BY <1>1, <2>2, <2>3, WalkedOn
    <2>7. QED
      BY <1>4, <1>5, <1>6, <2>5, <2>6, BeginsBefore
  <1>8. Through(W, done, p) = Sharing(k, i)
    <2>1. ASSUME NEW j \in taken, Len(Calls(j)) >= i
          PROVE  SubSeq(Calls(j), 1, i) = SubSeq(Calls(k), 1, i)
                    <=> \A m \in 1 .. i : Calls(j)[m] = Calls(k)[m]
      BY <1>2, <1>4, <2>1, SameBeginning
    <2>2. QED
      BY <1>6, <1>7, <2>1 DEF Through, Sharing
  <1>9. Begins(p, End(k))
    BY <1>4, <1>5, <1>6, BeginsBefore
  <1>10. k \in Through(W, done, p)
    BY <1>9 DEF Through
  <1>11. QED
    BY <1>1, <1>6, <1>8, <1>10 DEF Weighs, Paths

(* There are no other nodes. *)
LEMMA NodesCome ==
    ASSUME FlameTypes, NEW W, NEW done, FlameWalks(W, done),
           \A k \in taken : done[k] = Len(Calls(k)),
           NEW q \in Nodes
    PROVE  \E k \in taken : \E i \in 0 .. Len(Calls(k)) : q \in Range(NodesOf(k, i))
  <1>1. /\ Skips /\ taken \subseteq EventKeys /\ Rooted(W) /\ Weighs(W, done)
        /\ W \in [EventKeys -> [Nat -> Paths]]
        /\ \A j \in taken : Walked(W[j], done[j], Calls(j))
    BY DEF FlameTypes, FlameWalks
  <1>2. q \in Seq(Ids) /\ q # <<>> /\ Len(q) \in Nat
    BY <1>1 DEF Weighs, Paths
  <1>3. PICK k \in taken : Begins(q, W[k][done[k]])
    BY <1>1 DEF Weighs, Through
  <1>4. /\ k \in EventKeys /\ Calls(k) \in Seq(Frames) /\ Len(Calls(k)) \in Nat
        /\ done[k] = Len(Calls(k)) /\ Walked(W[k], done[k], Calls(k))
    BY <1>1, CallsAre
  <1>5. \A h \in 0 .. Len(Calls(k)) : Place(k)[h] = W[k][h]
    BY <1>4, PlacesAre
  <1> DEFINE Met1 == {i \in 0 .. done[k] : Begins(q, W[k][i])}
  <1>6. PICK i \in Met1 : \A h \in Met1 : i <= h
    <2>1. Met1 \in SUBSET Nat /\ done[k] \in Met1
      BY <1>3, <1>4
    <2>2. QED
      BY <2>1, LeastNatural
  <1>7. i \in 0 .. done[k] /\ i \in 0 .. Len(Calls(k)) /\ Begins(q, W[k][i])
    BY <1>4
  <1>8. CASE i = 0
    <2>1. Len(W[k][0]) = 1 /\ W[k][0] \in Seq(Ids)
      BY <1>1, <1>4, RootIs DEF Paths
    <2>2. Len(q) >= Len(W[k][0])
      <3>1. Len(q) # 0
        BY <1>2
      <3>2. QED
        BY <1>2, <2>1, <3>1
    <2>3. q = W[k][0]
      BY <1>2, <1>7, <1>8, <2>1, <2>2, BeginsEqual
    <2>4. NodesOf(k, 0) = <<W[k][0]>>
      BY <1>5, <1>7, <1>8 DEF NodesOf
    <2>5. q \in Range(NodesOf(k, 0))
      BY <2>3, <2>4 DEF Range
    <2>6. QED
      BY <1>7, <1>8, <2>5
  <1>9. CASE i # 0
    <2> DEFINE h == i - 1
               f == Calls(k)[i]
               n == skip[Append(W[k][h], f)]
               w == W[k][h]
    <2>1. h \in 0 .. done[k] /\ h \in 0 .. Len(Calls(k)) /\ f \in Frames /\ i \in 1 .. done[k] /\ h < i
      BY <1>4, <1>7, <1>9
    <2>2. Comes(w, f, W[k][i])
      BY <1>4, <2>1 DEF Walked
    <2>3. ~Begins(q, w)
      <3>1. h \notin Met1
        BY <1>6, <2>1
      <3>2. QED
        BY <2>1, <3>1
    <2>4. NodesOf(k, i) = Chain(w, f)
      BY <1>5, <1>9, <2>1 DEF NodesOf
    <2> HIDE DEF f, h
    <2>5. IsChain(w, f, n)
      BY <2>1, <2>2, ChainHere DEF Comes
    <2>6. W[k][i] = Repeat(w, f, n + 1)
      BY <2>2 DEF Comes
    <2> HIDE DEF n, w
    <2>7. /\ w \in Seq(Ids) /\ f \in Ids /\ n + 1 \in Nat
          /\ Range(Chain(w, f)) = {Repeat(w, f, g) : g \in 1 .. n + 1}
      BY <2>1, <2>5 DEF IsChain, Paths, Ids
    <2>8. Begins(q, Repeat(w, f, n + 1))
      BY <1>7, <2>6
    <2>9. \E g \in 1 .. n + 1 : q = Repeat(w, f, g)
      BY <1>2, <2>3, <2>7, <2>8, BeginsRepeat
    <2>10. QED
      BY <1>7, <2>4, <2>7, <2>9
  <1>10. QED
    BY <1>8, <1>9

(* When no frame is left to insert, every walk has come to its end. *)
LEMMA AllDone ==
    ASSUME FlameTypes, NEW W, NEW done, FlameWalks(W, done), rest = <<>>
    PROVE  \A k \in taken : done[k] = Len(Calls(k))
  <1>1. ASSUME NEW cur \in taken, Unfinished(W, done, cur)
        PROVE  \A k \in taken : done[k] = Len(Calls(k))
    <2>1. done[cur] \in Nat /\ Len(rest) = 0
      BY DEF FlameTypes, FlameWalks
    <2>2. Len(Calls(cur)) = done[cur]
      BY <1>1, <2>1 DEF Unfinished
    <2>3. QED
      BY <1>1, <2>2 DEF Unfinished
  <1>2. QED
    BY <1>1 DEF FlameWalks

(* The tree is right. *)
LEMMA FlameShown == ASSUME FlameInv PROVE FlameExact
  <1> SUFFICES ASSUME rest = <<>>
               PROVE  /\ \A k \in taken : \A i \in 0 .. Len(Calls(k)) :
                            \A p \in Range(NodesOf(k, i)) :
                               p \in Nodes /\ weight[p] = Cardinality(Sharing(k, i))
                      /\ Nodes = UNION {UNION {Range(NodesOf(k, i)) :
                                                i \in 0 .. Len(Calls(k))} : k \in taken}
    BY Zenon DEF FlameExact, NodesOf
  <1>1. FlameTypes
    BY DEF FlameInv
  <1>2. PICK W, done : FlameWalks(W, done)
    BY DEF FlameInv
  <1>3. \A k \in taken : done[k] = Len(Calls(k))
    BY <1>1, <1>2, AllDone
  <1>4. \A k \in taken : \A i \in 0 .. Len(Calls(k)) :
           \A p \in Range(NodesOf(k, i)) :
              p \in Nodes /\ weight[p] = Cardinality(Sharing(k, i))
    BY <1>1, <1>2, <1>3, NodeCounts
  <1>5. \A q \in Nodes : \E k \in taken : \E i \in 0 .. Len(Calls(k)) : q \in Range(NodesOf(k, i))
    BY <1>1, <1>2, <1>3, NodesCome
  <1>6. Nodes = UNION {UNION {Range(NodesOf(k, i)) : i \in 0 .. Len(Calls(k))} : k \in taken}
    BY <1>4, <1>5
  <1>7. QED
    BY <1>4, <1>6

(* One more event comes by some nodes. *)
ComesBy(W, done, V, far, k, nodes) ==
    /\ nodes \in SUBSET Paths /\ <<>> \notin nodes
    /\ \A q \in nodes : k \notin Through(W, done, q)
    /\ \A q \in Paths : q # <<>> =>
          Through(V, far, q)' = IF q \in nodes THEN Through(W, done, q) \cup {k}
                                ELSE Through(W, done, q)

(* Its nodes are counted once more, and those it adds are counted once.      *)
LEMMA CountedIs ==
    ASSUME FlameTypes, NEW W, NEW done, Weighs(W, done), NEW V, NEW far, NEW k, NEW nodes,
           ComesBy(W, done, V, far, k, nodes), weight' = Counted(nodes)
    PROVE  Weighs(V, far)' /\ Nodes' = Nodes \cup nodes /\ Nodes' \subseteq Paths
  <1>0. /\ nodes \in SUBSET Paths /\ <<>> \notin nodes
        /\ \A q \in nodes : k \notin Through(W, done, q)
        /\ \A q \in Paths : q # <<>> =>
              Through(V, far, q)' = IF q \in nodes THEN Through(W, done, q) \cup {k}
                                    ELSE Through(W, done, q)
    BY DEF ComesBy
  <1>1. /\ Nodes = {q \in Paths : q # <<>> /\ Through(W, done, q) # {}}
        /\ \A q \in Nodes : weight[q] = Cardinality(Through(W, done, q))
    BY DEF Weighs
  <1>2. Nodes' = Nodes \cup nodes
    BY DEF Counted, Nodes
  <1>3. \A p \in Nodes' : weight'[p] = (IF p \in Nodes THEN weight[p] ELSE 0)
                                          + (IF p \in nodes THEN 1 ELSE 0)
    BY <1>2 DEF Counted
  <1>4. Nodes' = {q \in Paths : q # <<>> /\ Through(V, far, q)' # {}}
    BY <1>0, <1>1, <1>2
  <1>5. ASSUME NEW q \in Nodes' PROVE weight'[q] = Cardinality(Through(V, far, q)')
    <2> DEFINE T == Through(W, done, q)
    <2>1. q \in Paths /\ q # <<>>
      BY <1>4
    <2>2. IsFiniteSet(T)
      BY FS_Subset, EventQueriesAssumption DEF FlameTypes, Through
    <2>3. (IF q \in Nodes THEN weight[q] ELSE 0) = Cardinality(T) /\ Cardinality(T) \in Nat
      <3>1. CASE q \in Nodes
        BY <1>1, <2>2, <3>1, FS_CardinalityType
      <3>2. CASE q \notin Nodes
        <4>1. T = {}
          BY <1>1, <2>1, <3>2
        <4>2. QED
          BY <3>2, <4>1, FS_EmptySet
      <3>3. QED
        BY <3>1, <3>2
    <2>4. CASE q \in nodes
      <3>1. Cardinality(T \cup {k}) = Cardinality(T) + 1
        BY <1>0, <2>2, <2>4, FS_AddElement
      <3>2. Through(V, far, q)' = T \cup {k}
        BY <1>0, <2>1, <2>4
      <3> HIDE DEF T
      <3>3. QED
        BY <1>3, <2>3, <2>4, <3>1, <3>2
    <2>5. CASE q \notin nodes
      <3>1. Through(V, far, q)' = T
        BY <1>0, <2>1, <2>5
      <3> HIDE DEF T
      <3>2. QED
        BY <1>3, <2>3, <2>5, <3>1
    <2>6. QED
      BY <2>4, <2>5
  <1>6. QED
    BY <1>2, <1>4, <1>5 DEF Weighs

(* A walk stays one as nodes are added. *)
LEMMA WalkedStill ==
    ASSUME Nodes \subseteq Nodes', \A p \in Nodes : skip'[p] = skip[p],
           NEW w, NEW d, NEW c, Walked(w, d, c)
    PROVE  Walked(w, d, c)'
  <1>1. ASSUME NEW p, NEW f, NEW q, Comes(p, f, q) PROVE Comes(p, f, q)'
    BY <1>1 DEF Comes
  <1>2. QED
    BY <1>1 DEF Walked

(* A step of the event that is being inserted: to frame f, and what is       *)
(* inlined in it.                                                            *)
LEMMA FrameStep ==
    ASSUME FlameTypes, NEW W, NEW done, FlameWalks(W, done), NEW cur, Unfinished(W, done, cur),
           rest # <<>>, fpc' = "build", NEW n \in Nat, NEW f, f = Head(rest),
           NEW p, p = at,
           weight' = Counted({Repeat(p, f, h) : h \in 1 .. n + 1}),
           skip' \in [Nodes' -> Nat], \A q \in Nodes : skip'[q] = skip[q],
           skip'[Append(p, f)] = n,
           at' = Repeat(p, f, n + 1), rest' = Tail(rest),
           UNCHANGED <<comms, left, taken>>
    PROVE  FlameInv'
  <1> DEFINE dest == Repeat(p, f, n + 1)
             nodes == {Repeat(p, f, h) : h \in 1 .. n + 1}
             d == done[cur]
  <1>1. /\ W \in [EventKeys -> [Nat -> Paths]] /\ done \in [EventKeys -> Nat]
        /\ \A k \in taken : Walked(W[k], done[k], Calls(k))
        /\ Rooted(W) /\ Weighs(W, done)
    BY DEF FlameWalks
  <1>2. /\ cur \in taken /\ p = W[cur][d] /\ Len(Calls(cur)) = d + Len(rest)
        /\ \A i \in 1 .. Len(rest) : rest[i] = Calls(cur)[d + i]
        /\ \A k \in taken \ {cur} : done[k] = Len(Calls(k))
    BY DEF Unfinished
  <1>3. cur \in EventKeys /\ d \in Nat /\ p \in Seq(Ids) /\ taken \subseteq EventKeys
    <2>1. cur \in EventKeys /\ taken \subseteq EventKeys
      BY <1>2 DEF FlameTypes
    <2>2. d \in Nat
      BY <1>1, <2>1
    <2> HIDE DEF d
    <2>3. p \in Seq(Ids)
      BY <1>1, <1>2, <2>1, <2>2 DEF Paths
    <2>4. QED
      BY <2>1, <2>2, <2>3
  <1>4. /\ rest \in Seq(Frames) /\ Len(rest) \in Nat \ {0} /\ f \in Frames /\ f \in Ids
        /\ f = rest[1] /\ f = Calls(cur)[d + 1] /\ d + 1 \in 1 .. Len(Calls(cur))
        /\ Tail(rest) \in Seq(Frames) /\ Len(Tail(rest)) = Len(rest) - 1
        /\ \A i \in 1 .. Len(rest) - 1 : Tail(rest)[i] = rest[i + 1]
    <2>1. rest \in Seq(Frames)
      BY DEF FlameTypes
    <2>2. /\ Len(rest) \in Nat \ {0} /\ f = rest[1] /\ f \in Frames
          /\ Tail(rest) \in Seq(Frames) /\ Len(Tail(rest)) = Len(rest) - 1
          /\ \A i \in 1 .. Len(rest) - 1 : Tail(rest)[i] = rest[i + 1]
      BY <2>1
    <2>3. 1 \in 1 .. Len(rest) /\ d + 1 \in 1 .. Len(Calls(cur))
      BY <1>2, <1>3, <2>2
    <2>4. QED
      BY <1>2, <2>1, <2>2, <2>3 DEF Ids
  <1>5. n + 1 \in Nat /\ dest \in Seq(Ids)
    <2>1. n + 1 \in Nat
      OBVIOUS
    <2>2. QED
      BY <1>3, <1>4, <2>1, RepeatIs
  <1>6. \A h \in 1 .. n + 1 : /\ Repeat(p, f, h) \in Seq(Ids)
                              /\ Len(Repeat(p, f, h)) = Len(p) + h /\ Len(p) \in Nat
    <2> SUFFICES ASSUME NEW h \in 1 .. n + 1
                 PROVE  /\ Repeat(p, f, h) \in Seq(Ids)
                        /\ Len(Repeat(p, f, h)) = Len(p) + h /\ Len(p) \in Nat
      OBVIOUS
    <2>1. h \in Nat
      OBVIOUS
    <2>2. Repeat(p, f, h) \in Seq(Ids) /\ Len(p) \in Nat /\ Repeated(Repeat(p, f, h), p, f, h)
      BY <1>3, <1>4, <2>1, RepeatIs
    <2>3. QED
      BY <2>2 DEF Repeated
  <1>7. \A q \in Seq(Ids) : Begins(q, dest) <=> Begins(q, p) \/ q \in nodes
    <2> SUFFICES ASSUME NEW q \in Seq(Ids)
                 PROVE  Begins(q, dest) <=> Begins(q, p) \/ q \in nodes
      OBVIOUS
    <2>1. Begins(q, dest) <=> Begins(q, p) \/ \E h \in 1 .. n + 1 : q = Repeat(p, f, h)
      BY <1>3, <1>4, <1>5, BeginsRepeat
    <2>2. QED
      BY <2>1
  <1>8. /\ nodes \in SUBSET Paths /\ <<>> \notin nodes
        /\ \A q \in nodes : ~Begins(q, p)
    <2> SUFFICES ASSUME NEW h \in 1 .. n + 1
                 PROVE  /\ Repeat(p, f, h) \in Paths /\ Repeat(p, f, h) # <<>>
                        /\ ~Begins(Repeat(p, f, h), p)
      OBVIOUS
    <2>1. /\ Repeat(p, f, h) \in Seq(Ids) /\ Len(Repeat(p, f, h)) = Len(p) + h
          /\ Len(p) \in Nat
      BY <1>6
    <2>2. Len(Repeat(p, f, h)) # 0 /\ ~(Len(Repeat(p, f, h)) <= Len(p))
      BY <2>1
    <2>3. Repeat(p, f, h) # <<>>
      BY <2>2
    <2>4. QED
      BY <2>1, <2>2, <2>3 DEF Paths, Begins
  <1>9. PICK V \in [EventKeys -> [Nat -> Paths]], far \in [EventKeys -> Nat] :
           /\ \A k \in EventKeys : k # cur => V[k] = W[k] /\ far[k] = done[k]
           /\ far[cur] = d + 1 /\ V[cur][d + 1] = dest
           /\ \A i \in 0 .. d : V[cur][i] = W[cur][i]
    <2> DEFINE V == [W EXCEPT ![cur] = [@ EXCEPT ![d + 1] = dest]]
               far == [done EXCEPT ![cur] = d + 1]
    <2>1. d + 1 \in Nat /\ dest \in Paths
      BY <1>3, <1>5 DEF Paths
    <2> HIDE DEF d, dest
    <2>2. V \in [EventKeys -> [Nat -> Paths]]
      BY <1>1, <1>3, <2>1
    <2>3. far \in [EventKeys -> Nat] /\ far[cur] = d + 1
      BY <1>1, <1>3, <2>1
    <2>4. \A k \in EventKeys : k # cur => V[k] = W[k] /\ far[k] = done[k]
      BY <1>1
    <2>5. V[cur] = [W[cur] EXCEPT ![d + 1] = dest] /\ W[cur] \in [Nat -> Paths]
      BY <1>1, <1>3
    <2>6. V[cur][d + 1] = dest /\ \A i \in 0 .. d : V[cur][i] = W[cur][i]
      <3>1. \A i \in 0 .. d : i \in Nat /\ i # d + 1
        BY <1>3
      <3> HIDE DEF V
      <3>2. QED
        BY <2>1, <2>5, <3>1
    <2> HIDE DEF V, far
    <2>7. QED
      BY <2>2, <2>3, <2>4, <2>6
  <1>10. taken' = taken /\ comms' = comms /\ left' = left
    OBVIOUS
  <1>11. /\ \A q \in nodes : cur \notin Through(W, done, q)
         /\ \A q \in Paths : q # <<>> =>
              Through(V, far, q)' = IF q \in nodes THEN Through(W, done, q) \cup {cur}
                                    ELSE Through(W, done, q)
    <2>1. ASSUME NEW q \in Paths, NEW k \in taken
          PROVE  Begins(q, V[k][far[k]]) <=> Begins(q, W[k][done[k]]) \/ (k = cur /\ q \in nodes)
      <3>1. CASE k = cur
        <4>1. q \in Seq(Ids) /\ V[k][far[k]] = dest /\ W[k][done[k]] = p
          BY <1>2, <1>9, <3>1 DEF Paths
        <4> HIDE DEF dest, nodes
        <4>2. QED
          BY <1>7, <3>1, <4>1
      <3>2. CASE k # cur
        BY <1>3, <1>9, <3>2
      <3>3. QED
        BY <3>1, <3>2
    <2>2. \A q : Through(V, far, q)' = {k \in taken : Begins(q, V[k][far[k]])}
      BY <1>10 DEF Through
    <2> HIDE DEF nodes
    <2>3. \A q \in nodes : cur \notin Through(W, done, q)
      BY <1>2, <1>8 DEF Through
    <2>4. ASSUME NEW q \in Paths
          PROVE  Through(V, far, q)' = IF q \in nodes THEN Through(W, done, q) \cup {cur}
                                       ELSE Through(W, done, q)
      <3>1. CASE q \in nodes
        BY <1>2, <2>1, <2>2, <3>1 DEF Through
      <3>2. CASE q \notin nodes
        BY <1>2, <2>1, <2>2, <3>2 DEF Through
      <3>3. QED
        BY <3>1, <3>2
    <2>5. QED
      BY <2>3, <2>4
  <1>12. Weighs(V, far)' /\ Nodes' = Nodes \cup nodes /\ Nodes' \subseteq Paths
    <2>1. weight' = Counted(nodes)
      OBVIOUS
    <2>2. ComesBy(W, done, V, far, cur, nodes)
      BY <1>8, <1>11 DEF ComesBy
    <2> HIDE DEF nodes
    <2>3. QED
      BY <1>1, <2>1, <2>2, CountedIs
  <1>13. Nodes \subseteq Nodes' /\ Append(p, f) \in Nodes'
    <2>1. Repeat(p, f, 1) = Append(p, f) /\ 1 \in 1 .. n + 1
      <3>1. Repeat(p, f, 1) = Append(p, f)
        BY <1>3, <1>4, RepeatOnce
      <3>2. QED
        BY <3>1
    <2>2. QED
      BY <1>12, <2>1
  <1>14. ASSUME NEW k \in taken PROVE Walked(V[k], far[k], Calls(k))'
    <2>1. Calls(k)' = Calls(k)
      BY DEF Calls
    <2>2. Walked(W[k], done[k], Calls(k))'
      <3>1. Walked(W[k], done[k], Calls(k))
        BY <1>1
      <3> DEFINE w == W[k]
                 e == done[k]
                 c == Calls(k)
      <3>2. Walked(w, e, c)
        BY <3>1
      <3> HIDE DEF w, e, c
      <3>3. Walked(w, e, c)'
        BY <1>13, <3>2, WalkedStill
      <3>4. QED
        BY <3>3 DEF w, e, c
    <2>3. CASE k # cur
      BY <1>3, <1>9, <2>2, <2>3
    <2>4. CASE k = cur
      <3>1. ASSUME NEW i \in 1 .. d PROVE Comes(V[cur][i - 1], Calls(cur)[i], V[cur][i])'
        <4>1. Comes(W[cur][i - 1], Calls(cur)[i], W[cur][i])'
          BY <2>2, <2>4 DEF Walked
        <4>2. i \in 0 .. d /\ i - 1 \in 0 .. d
          BY <1>3
        <4>3. V[cur][i] = W[cur][i] /\ V[cur][i - 1] = W[cur][i - 1]
          BY <1>9, <4>2
        <4>4. QED
          BY <4>1, <4>3
      <3>2. Comes(V[cur][(d + 1) - 1], Calls(cur)[d + 1], V[cur][d + 1])'
        <4>1. d \in 0 .. d /\ (d + 1) - 1 = d
          BY <1>3
        <4>2. V[cur][(d + 1) - 1] = p /\ Calls(cur)[d + 1] = f /\ V[cur][d + 1] = dest
          BY <1>2, <1>4, <1>9, <4>1
        <4>3. Append(p, f) \in Nodes' /\ dest = Repeat(p, f, skip'[Append(p, f)] + 1)
          BY <1>13
        <4> DEFINE a == V[cur][(d + 1) - 1]
                   g == Calls(cur)[d + 1]
                   b == V[cur][d + 1]
        <4>4. Append(a, g) \in Nodes' /\ b = Repeat(a, g, skip'[Append(a, g)] + 1)
          BY <4>2, <4>3
        <4>5. QED
          BY <4>4 DEF Comes, Calls
      <3>3. \A i \in 1 .. d + 1 : i \in 1 .. d \/ i = d + 1
        BY <1>3
      <3>4. \A i \in 1 .. d + 1 : Comes(V[cur][i - 1], Calls(cur)[i], V[cur][i])'
        BY <3>1, <3>2, <3>3
      <3>5. Calls(cur) \in Seq(Frames) /\ V[cur] \in [Nat -> Paths] /\ d + 1 \in 0 .. Len(Calls(cur))
        BY <1>3, <1>4, <1>9, CallsAre
      <3>6. QED
        BY <1>9, <2>1, <2>4, <3>4, <3>5 DEF Walked
    <2>5. QED
      BY <2>3, <2>4
  <1>15. Rooted(V)'
    <2>1. \A k \in taken : V[k][0] = W[k][0]
      <3>1. 0 \in 0 .. d
        BY <1>3
      <3>2. QED
        BY <1>3, <1>9, <3>1
    <2>2. QED
      BY <1>1, <1>10, <2>1 DEF Rooted
  <1>16. Unfinished(V, far, cur)'
    <2>1. at' = V[cur][far[cur]]
      BY <1>9
    <2>2. Len(Calls(cur)) = far[cur] + Len(rest')
      BY <1>2, <1>3, <1>4, <1>9
    <2>3. \A i \in 1 .. Len(rest') : rest'[i] = Calls(cur)[far[cur] + i]
      <3> SUFFICES ASSUME NEW i \in 1 .. Len(rest') PROVE rest'[i] = Calls(cur)[far[cur] + i]
        OBVIOUS
      <3>1. i \in 1 .. Len(rest) - 1 /\ i + 1 \in 1 .. Len(rest) /\ d + (i + 1) = (d + 1) + i
        <4>1. Len(rest') = Len(rest) - 1
          BY <1>4
        <4> HIDE DEF d
        <4>2. QED
          BY <1>3, <1>4, <4>1
      <3>2. rest'[i] = rest[i + 1]
        BY <1>4, <3>1
      <3>3. rest[i + 1] = Calls(cur)[d + (i + 1)]
        BY <1>2, <3>1
      <3>4. QED
        BY <1>9, <3>1, <3>2, <3>3
    <2>4. \A k \in taken \ {cur} : far[k] = Len(Calls(k))
      BY <1>2, <1>3, <1>9
    <2>5. \A k : Calls(k)' = Calls(k)
      BY DEF Calls
    <2>6. QED
      BY <1>2, <1>10, <2>1, <2>2, <2>3, <2>4, <2>5 DEF Unfinished
  <1>17. FlameWalks(V, far)'
    BY <1>2, <1>9, <1>10, <1>12, <1>14, <1>15, <1>16 DEF FlameWalks
  <1>18. Skips'
    BY <1>12 DEF Skips
  <1>19. FlameTypes'
    BY <1>4, <1>10, <1>18 DEF FlameTypes
  <1>20. QED
    BY <1>17, <1>19 DEF FlameInv

(* Who is being inserted, and where it has come to. *)
LEMMA InsertedIs ==
    ASSUME FlameTypes, NEW W, NEW done, FlameWalks(W, done), rest # <<>>
    PROVE  \E cur \in taken :
              /\ Unfinished(W, done, cur)
              /\ done[cur] \in 0 .. done[cur] /\ at = W[cur][done[cur]]
              /\ at \in Paths /\ Head(rest) \in Frames /\ fpc = "build"
  <1>1. PICK cur \in taken : Unfinished(W, done, cur)
    BY DEF FlameWalks
  <1>2. cur \in EventKeys /\ done[cur] \in Nat
    BY DEF FlameTypes, FlameWalks
  <1>3. at = W[cur][done[cur]] /\ at \in Paths
    BY <1>1, <1>2 DEF Unfinished, FlameWalks
  <1>4. Head(rest) \in Frames /\ fpc = "build"
    BY DEF FlameTypes
  <1>5. QED
    BY <1>1, <1>2, <1>3, <1>4

(* A frame that is known here: the walk goes down the chain that is there.   *)
LEMMA PassFrameStep == ASSUME FlameInv, PassFrame PROVE FlameInv'
  <1>1. FlameTypes /\ Skips
    BY DEF FlameInv, FlameTypes
  <1>2. PICK W, done : FlameWalks(W, done)
    BY DEF FlameInv
  <1>3. rest # <<>>
    BY DEF PassFrame
  <1>4. PICK cur \in taken :
              /\ Unfinished(W, done, cur)
              /\ done[cur] \in 0 .. done[cur] /\ at = W[cur][done[cur]]
              /\ at \in Paths /\ Head(rest) \in Frames /\ fpc = "build"
    BY <1>1, <1>2, <1>3, InsertedIs
  <1>5. PICK p, f, n : p = at /\ f = Head(rest) /\ n = skip[Append(at, Head(rest))]
    OBVIOUS
  <1>6. /\ Append(p, f) \in Nodes
        /\ weight' = Counted(Range(Chain(p, f))) /\ at' = Last(Chain(p, f))
        /\ rest' = Tail(rest) /\ fpc' = fpc
        /\ UNCHANGED <<comms, skip, left, taken>>
    BY <1>5 DEF PassFrame, Known
  <1>7. IsChain(p, f, n)
    BY <1>1, <1>2, <1>4, <1>5, <1>6, ChainHere
  <1>8. /\ n \in Nat /\ at' = Repeat(p, f, n + 1)
        /\ weight' = Counted({Repeat(p, f, h) : h \in 1 .. n + 1})
        /\ \A h \in 1 .. n + 1 : Repeat(p, f, h) \in Nodes
    BY <1>6, <1>7 DEF IsChain
  <1>9. Nodes' = Nodes
    BY <1>8 DEF Counted, Nodes
  <1>10. /\ skip' \in [Nodes' -> Nat] /\ \A q \in Nodes : skip'[q] = skip[q]
         /\ skip'[Append(p, f)] = n
    BY <1>1, <1>5, <1>6, <1>9 DEF Skips
  <1>11. QED
    BY <1>1, <1>2, <1>3, <1>4, <1>5, <1>6, <1>8, <1>10, FrameStep

(* A frame that is new here: the walk goes down a chain that nobody has been *)
(* in.                                                                      *)
LEMMA AddFrameStep == ASSUME FlameInv, TablesOK, AddFrame PROVE FlameInv'
  <1>1. FlameTypes /\ Skips
    BY DEF FlameInv, FlameTypes
  <1>2. PICK W, done : FlameWalks(W, done)
    BY DEF FlameInv
  <1>3. rest # <<>>
    BY DEF AddFrame
  <1>4. PICK cur \in taken :
              /\ Unfinished(W, done, cur)
              /\ done[cur] \in 0 .. done[cur] /\ at = W[cur][done[cur]]
              /\ at \in Paths /\ Head(rest) \in Frames /\ fpc = "build"
    BY <1>1, <1>2, <1>3, InsertedIs
  <1>5. PICK p, f, n : p = at /\ f = Head(rest) /\ n = Len(Symbolize(Head(rest), inline)) - 1
    OBVIOUS
  <1>6. n \in Nat /\ n + 1 = Len(Symbolize(f, inline))
    <2>1. chain[f] \in Chains[f] /\ f \in Frames
      BY <1>4, <1>5 DEF TablesOK, ChainOf
    <2>2. chain[f] # <<>> /\ chain[f] \in Seq(Range(chain[f]))
      BY <2>1, ProfileAssumption
    <2>3. Len(chain[f]) \in Nat \ {0}
      BY <2>2
    <2>4. Len(Symbolize(f, inline)) \in Nat \ {0}
      BY <2>3 DEF Symbolize
    <2>5. QED
      BY <1>5, <2>4
  <1> DEFINE new == {Repeat(p, f, h) : h \in 1 .. n + 1}
  <1>7. /\ Append(p, f) \notin Nodes
        /\ weight' = Counted(new) /\ at' = Repeat(p, f, n + 1)
        /\ skip' = [q \in Nodes \cup new |-> IF q \in Nodes THEN skip[q]
                                             ELSE IF q = Repeat(p, f, 1) THEN n ELSE 0]
        /\ rest' = Tail(rest) /\ fpc' = fpc
        /\ UNCHANGED <<comms, left, taken>>
    BY <1>5, <1>6 DEF AddFrame, Known, Repeat
  <1>8. Append(p, f) \in new /\ Append(p, f) = Repeat(p, f, 1)
    <2>1. p \in Seq(Ids) /\ f \in Ids
      BY <1>4, <1>5 DEF Paths, Ids
    <2>2. Repeat(p, f, 1) = Append(p, f)
      BY <2>1, RepeatOnce
    <2>3. 1 \in 1 .. n + 1
      BY <1>6
    <2>4. QED
      BY <2>2, <2>3
  <1> HIDE DEF new
  <1>9. Nodes' = Nodes \cup new
    BY <1>7 DEF Counted, Nodes
  <1>10. /\ skip' \in [Nodes' -> Nat] /\ \A q \in Nodes : skip'[q] = skip[q]
         /\ skip'[Append(p, f)] = n
    BY <1>1, <1>6, <1>7, <1>8, <1>9 DEF Skips
  <1>11. weight' = Counted({Repeat(p, f, h) : h \in 1 .. n + 1})
    BY <1>7 DEF new
  <1>12. /\ Unfinished(W, done, cur) /\ f = Head(rest) /\ p = at
         /\ at' = Repeat(p, f, n + 1) /\ rest' = Tail(rest) /\ fpc' = "build"
         /\ UNCHANGED <<comms, left, taken>>
    BY <1>4, <1>5, <1>7
  <1>13. QED
    BY <1>1, <1>2, <1>3, <1>6, <1>10, <1>11, <1>12, FrameStep

(* Another event: its walk begins at the node of its comm.                   *)
LEMMA InsertTraceStep == ASSUME FlameInv, InsertTrace PROVE FlameInv'
  <1>1. FlameTypes /\ Skips
    BY DEF FlameInv, FlameTypes
  <1>2. PICK W, done : FlameWalks(W, done)
    BY DEF FlameInv
  <1>3. PICK k : k = First(left)
    OBVIOUS
  <1>4. /\ fpc = "build" /\ rest = <<>> /\ left # {} /\ fpc' = fpc
        /\ left' = left \ {k} /\ taken' = taken \cup {k}
    BY <1>3 DEF InsertTrace
  <1>5. /\ k \in left /\ k \in EventKeys /\ k \notin taken
        /\ left \subseteq EventKeys /\ taken \subseteq EventKeys
    BY <1>1, <1>3, <1>4, FirstIsKey DEF FlameTypes
  <1>6. /\ W \in [EventKeys -> [Nat -> Paths]] /\ done \in [EventKeys -> Nat]
        /\ \A j \in taken : Walked(W[j], done[j], Calls(j))
        /\ Rooted(W) /\ Weighs(W, done)
    BY <1>2 DEF FlameWalks
  <1>7. \A j \in taken : done[j] = Len(Calls(j))
    BY <1>1, <1>2, <1>4, AllDone
  <1> DEFINE c == Sample[k].comm
             known == c \in Range(comms)
  <1>8. /\ comms \in Seq(Comms) /\ Len(comms) \in Nat /\ c \in Comms
        /\ \A m \in 1 .. Len(comms), n \in 1 .. Len(comms) : comms[m] = comms[n] => m = n
        /\ DOMAIN comms = 1 .. Len(comms)
    BY <1>1, <1>5 DEF FlameTypes, Comms
  <1>9. PICK id : id = IF known THEN CommId(c) ELSE Len(comms)
    OBVIOUS
  <1>10. /\ comms' = IF known THEN comms ELSE Append(comms, c)
         /\ weight' = Counted({<<id>>})
         /\ skip' = [p \in DOMAIN weight' |-> IF p \in Nodes THEN skip[p] ELSE 0]
         /\ at' = <<id>> /\ rest' = Calls(k)
    BY <1>3, <1>9 DEF InsertTrace, Calls
  <1>11. /\ id \in 0 .. Len(comms') - 1 /\ comms'[id + 1] = c
         /\ comms' \in Seq(Comms)
         /\ \A m \in 1 .. Len(comms'), n \in 1 .. Len(comms') : comms'[m] = comms'[n] => m = n
         /\ \A m \in 0 .. Len(comms) - 1 : m \in 0 .. Len(comms') - 1 /\ comms'[m + 1] = comms[m + 1]
    <2>1. CASE known
      <3>1. \E m \in 0 .. Len(comms) - 1 : comms[m + 1] = c
        <4>1. PICK m \in 1 .. Len(comms) : comms[m] = c
          BY <1>8, <2>1 DEF Range
        <4>2. m - 1 \in 0 .. Len(comms) - 1 /\ (m - 1) + 1 = m
          BY <1>8
        <4>3. QED
          BY <4>1, <4>2
      <3>2. CommId(c) \in 0 .. Len(comms) - 1 /\ comms[CommId(c) + 1] = c
        BY <3>1 DEF CommId
      <3>3. QED
        BY <1>8, <1>9, <1>10, <2>1, <3>2
    <2>2. CASE ~known
      <3> DEFINE C == Append(comms, c)
      <3>1. /\ C \in Seq(Comms) /\ Len(C) = Len(comms) + 1 /\ C[Len(comms) + 1] = c
            /\ \A m \in 1 .. Len(comms) : C[m] = comms[m]
        BY <1>8, AppendProperties
      <3>2. comms' = C /\ id = Len(comms)
        BY <1>9, <1>10, <2>2
      <3>3. \A m \in 1 .. Len(comms) : comms[m] # c
        BY <1>8, <2>2 DEF Range
      <3> HIDE DEF C, c
      <3>4. \A m \in 1 .. Len(C), n \in 1 .. Len(C) : C[m] = C[n] => m = n
        <4> SUFFICES ASSUME NEW m \in 1 .. Len(C), NEW n \in 1 .. Len(C), C[m] = C[n]
                     PROVE  m = n
          OBVIOUS
        <4>1. /\ m \in 1 .. Len(comms) \/ m = Len(comms) + 1
              /\ n \in 1 .. Len(comms) \/ n = Len(comms) + 1
          BY <1>8, <3>1
        <4>2. QED
          BY <1>8, <3>1, <3>3, <4>1
      <3>5. \A m \in 0 .. Len(comms) - 1 : m \in 0 .. Len(C) - 1 /\ C[m + 1] = comms[m + 1]
        BY <1>8, <3>1
      <3>6. id \in 0 .. Len(C) - 1 /\ C[id + 1] = c
        BY <1>8, <3>1, <3>2
      <3>7. QED
        BY <3>1, <3>2, <3>4, <3>5, <3>6
    <2>3. QED
      BY <2>1, <2>2
  <1> HIDE DEF known
  <1>12. <<id>> \in Seq(Ids) /\ Len(<<id>>) = 1 /\ <<id>> # <<>> /\ <<id>> \in Paths
    <2>1. id \in Ids
      BY <1>11 DEF Ids
    <2>2. QED
      BY <2>1 DEF Paths
  <1>13. PICK root : root = <<id>>
    OBVIOUS
  <1>14. PICK V \in [EventKeys -> [Nat -> Paths]], far \in [EventKeys -> Nat] :
            /\ \A j \in EventKeys : j # k => V[j] = W[j] /\ far[j] = done[j]
            /\ far[k] = 0 /\ V[k][0] = root
    <2> DEFINE V == [W EXCEPT ![k] = [m \in Nat |-> root]]
               far == [done EXCEPT ![k] = 0]
    <2>1. [m \in Nat |-> root] \in [Nat -> Paths] /\ [m \in Nat |-> root][0] = root
      BY <1>12, <1>13
    <2>2. V \in [EventKeys -> [Nat -> Paths]] /\ V[k] = [m \in Nat |-> root]
      BY <1>5, <1>6, <2>1
    <2>3. far \in [EventKeys -> Nat] /\ far[k] = 0
      BY <1>5, <1>6
    <2>4. \A j \in EventKeys : j # k => V[j] = W[j] /\ far[j] = done[j]
      BY <1>6
    <2> HIDE DEF V, far
    <2>5. QED
      BY <2>1, <2>2, <2>3, <2>4
  <1>15. ComesBy(W, done, V, far, k, {root})
    <2>1. k \notin Through(W, done, root)
      BY <1>5 DEF Through
    <2>2. ASSUME NEW q \in Paths, q # <<>> PROVE Begins(q, root) <=> q = root
      <3>1. q \in Seq(Ids) /\ Len(q) \in Nat /\ Len(q) # 0
        BY <2>2 DEF Paths
      <3>2. root \in Seq(Ids) /\ Len(root) = 1
        BY <1>12, <1>13
      <3>3. Begins(q, root) => q = root
        BY <3>1, <3>2, BeginsEqual
      <3>4. Begins(root, root)
        BY <3>2 DEF Begins
      <3>5. QED
        BY <3>3, <3>4
    <2>3. \A q : Through(V, far, q)' = {j \in taken \cup {k} : Begins(q, V[j][far[j]])}
      BY <1>4 DEF Through
    <2>4. \A j \in taken : V[j][far[j]] = W[j][done[j]]
      BY <1>5, <1>14
    <2>5. V[k][far[k]] = root
      BY <1>14
    <2>6. ASSUME NEW q \in Paths, q # <<>>
          PROVE  Through(V, far, q)' = IF q \in {root} THEN Through(W, done, q) \cup {k}
                                       ELSE Through(W, done, q)
      <3>1. Begins(q, V[k][far[k]]) <=> q = root
        BY <2>2, <2>5, <2>6
      <3>2. QED
        BY <2>3, <2>4, <3>1 DEF Through
    <2>7. QED
      BY <1>12, <1>13, <2>1, <2>6 DEF ComesBy
  <1>16. Weighs(V, far)' /\ Nodes' = Nodes \cup {root} /\ Nodes' \subseteq Paths
    BY <1>1, <1>6, <1>10, <1>13, <1>15, CountedIs
  <1>17. /\ Nodes \subseteq Nodes' /\ skip' \in [Nodes' -> Nat]
         /\ \A q \in Nodes : skip'[q] = skip[q]
    <2>1. DOMAIN weight' = Nodes'
      BY DEF Nodes
    <2>2. QED
      BY <1>1, <1>10, <1>16, <2>1 DEF Skips
  <1>18. \A j : Calls(j)' = Calls(j)
    BY DEF Calls
  <1>19. \A j \in EventKeys : Calls(j) \in Seq(Frames) /\ Len(Calls(j)) \in Nat
    BY CallsAre
  <1>20. ASSUME NEW j \in taken \cup {k} PROVE Walked(V[j], far[j], Calls(j))'
    <2>1. CASE j = k
      <3>1. V[k] \in [Nat -> Paths] /\ Calls(k) \in Seq(Frames) /\ 0 \in 0 .. Len(Calls(k))
        BY <1>5, <1>14, <1>19
      <3>2. \A i \in 1 .. 0 : FALSE
        OBVIOUS
      <3>3. QED
        BY <1>14, <1>18, <2>1, <3>1, <3>2 DEF Walked
    <2>2. CASE j # k
      <3> DEFINE w == W[j]
                 e == done[j]
                 b == Calls(j)
      <3>1. j \in taken /\ j \in EventKeys /\ Walked(w, e, b)
        BY <1>5, <1>6, <2>2
      <3> HIDE DEF w, e, b
      <3>2. Walked(w, e, b)'
        BY <1>17, <3>1, WalkedStill
      <3>3. Walked(W[j], done[j], Calls(j))'
        BY <3>2 DEF w, e, b
      <3>4. QED
        BY <1>14, <2>2, <3>1, <3>3
    <2>3. QED
      BY <2>1, <2>2
  <1>21. Rooted(V)'
    <2> SUFFICES ASSUME NEW j \in taken \cup {k}
                 PROVE  \E n \in 0 .. Len(comms') - 1 :
                           comms'[n + 1] = Sample[j].comm /\ V[j][0] = <<n>>
      BY <1>4 DEF Rooted
    <2>1. CASE j = k
      BY <1>11, <1>13, <1>14, <2>1
    <2>2. CASE j # k
      <3>1. j \in taken /\ V[j] = W[j]
        BY <1>5, <1>14, <2>2
      <3>2. PICK n \in 0 .. Len(comms) - 1 : comms[n + 1] = Sample[j].comm /\ W[j][0] = <<n>>
        BY <1>6, <3>1 DEF Rooted
      <3>3. QED
        BY <1>11, <3>1, <3>2
    <2>3. QED
      BY <2>1, <2>2
  <1>22. Unfinished(V, far, k)'
    <2>1. \A j \in (taken \cup {k}) \ {k} : far[j] = Len(Calls(j))
      BY <1>5, <1>7, <1>14
    <2>2. at' = V[k][far[k]]
      BY <1>10, <1>13, <1>14
    <2>3. Len(Calls(k)) = far[k] + Len(rest') /\ \A i \in 1 .. Len(rest') : rest'[i] = Calls(k)[far[k] + i]
      BY <1>5, <1>10, <1>14, <1>19
    <2>4. QED
      BY <1>4, <1>18, <2>1, <2>2, <2>3 DEF Unfinished
  <1>23. FlameWalks(V, far)'
    BY <1>4, <1>14, <1>16, <1>20, <1>21, <1>22 DEF FlameWalks
  <1>24. FlameTypes'
    <2>1. left' \subseteq EventKeys /\ taken' \subseteq EventKeys /\ left' \cap taken' = {}
      BY <1>1, <1>4, <1>5 DEF FlameTypes
    <2>2. rest' \in Seq(Frames)
      BY <1>5, <1>10, <1>19
    <2>3. Skips'
      BY <1>16, <1>17 DEF Skips
    <2>4. QED
      BY <1>4, <1>11, <2>1, <2>2, <2>3 DEF FlameTypes
  <1>25. QED
    BY <1>23, <1>24 DEF FlameInv

(* Before the first event there is nothing. *)
NoTree ==
    /\ fpc \in {"idle", "build"} /\ left \subseteq EventKeys /\ rest = <<>> /\ taken = {}
    /\ comms = <<>> /\ weight = <<>> /\ skip = <<>>
    /\ fpc = "idle" => left = {}

(* ... and the invariant says nothing, ...                                  *)
LEMMA NoTreeKeepsIt == NoTree => FlameInv
  <1> SUFFICES ASSUME NoTree PROVE FlameInv
    OBVIOUS
  <1>1. Nodes = {} /\ Skips
    <2>1. DOMAIN <<>> = {}
      OBVIOUS
    <2>2. skip \in [{} -> Nat]
      BY <2>1 DEF NoTree
    <2>3. QED
      BY <2>1, <2>2 DEF NoTree, Nodes, Skips
  <1>2. FlameTypes
    <2>1. comms \in Seq(Comms) /\ Len(comms) = 0 /\ rest \in Seq(Frames)
      BY DEF NoTree
    <2>2. \A m \in 1 .. Len(comms) : FALSE
      BY <2>1
    <2>3. QED
      BY <1>1, <2>1, <2>2 DEF NoTree, FlameTypes
  <1> DEFINE W == [k \in EventKeys |-> [n \in Nat |-> <<>>]]
             done == [k \in EventKeys |-> 0]
  <1>3. W \in [EventKeys -> [Nat -> Paths]] /\ done \in [EventKeys -> Nat]
    BY DEF Paths
  <1> HIDE DEF W, done
  <1>4. \A q : Through(W, done, q) = {}
    BY DEF NoTree, Through
  <1>5. FlameWalks(W, done)
    BY <1>1, <1>3, <1>4 DEF NoTree, FlameWalks, Weighs, Rooted
  <1>6. QED
    BY <1>2, <1>5 DEF FlameInv

(* ... nor after a step that leaves nothing.                                 *)
LEMMA NoTreeNext == NoTree' => FlameInv'
  BY NoTreeKeepsIt, PTL

(* Every step of the views keeps the invariant of the tree.                 *)
LEMMA FlameStep == FlameInv /\ TablesOK /\ [ViewsNext]_<<vars, views, apart>> => FlameInv'
  <1> SUFFICES ASSUME FlameInv, TablesOK, [ViewsNext]_<<vars, views, apart>> PROVE FlameInv'
    OBVIOUS
  <1>1. FlameTypes /\ \E W, done : FlameWalks(W, done)
    BY DEF FlameInv
  <1>2. ASSUME UNCHANGED <<comms, weight, skip, rest, taken>>, at' = at \/ rest = <<>>,
               left' \subseteq left,
               fpc' = fpc \/ (fpc' \in {"shown", "sandwich"} /\ left' = {} /\ rest = <<>>)
        PROVE  FlameInv'
    <2>1. PICK W, done : FlameWalks(W, done)
      BY <1>1
    <2>2. Nodes' = Nodes /\ \A k : Calls(k)' = Calls(k)
      BY <1>2 DEF Nodes, Calls
    <2>3. \A w, d, c : Walked(w, d, c) => Walked(w, d, c)'
      BY <1>2, <2>2, WalkedStill
    <2>4. \A k \in taken' : Walked(W[k], done[k], Calls(k))'
      <3> SUFFICES ASSUME NEW k \in taken PROVE Walked(W[k], done[k], Calls(k))'
        BY <1>2
      <3> DEFINE w == W[k]
                 e == done[k]
                 b == Calls(k)
      <3>1. Walked(w, e, b)
        BY <2>1 DEF FlameWalks
      <3> HIDE DEF w, e, b
      <3>2. Walked(w, e, b)'
        BY <2>3, <3>1
      <3>3. QED
        BY <3>2 DEF w, e, b
    <2>5. \A q : Through(W, done, q)' = Through(W, done, q)
      BY <1>2 DEF Through
    <2>6. Rooted(W)' /\ Weighs(W, done)'
      BY <1>2, <2>1, <2>2, <2>5 DEF FlameWalks, Rooted, Weighs
    <2>7. \/ rest' = <<>> /\ \A k \in taken' : done[k] = Len(Calls(k)')
          \/ \E cur \in taken' : Unfinished(W, done, cur)'
      <3>1. CASE rest = <<>>
        <4>1. \A k \in taken : done[k] = Len(Calls(k))
          BY <1>1, <2>1, <3>1, AllDone
        <4>2. QED
          BY <1>2, <2>2, <3>1, <4>1
      <3>2. CASE rest # <<>>
        <4>1. PICK cur \in taken : Unfinished(W, done, cur)
          BY <2>1, <3>2 DEF FlameWalks
        <4>2. Unfinished(W, done, cur)'
          BY <1>2, <2>2, <3>2, <4>1 DEF Unfinished
        <4>3. QED
          BY <1>2, <4>1, <4>2
      <3>3. QED
        BY <3>1, <3>2
    <2>8. FlameWalks(W, done)'
      BY <2>1, <2>2, <2>4, <2>6, <2>7 DEF FlameWalks
    <2>9. FlameTypes'
      BY <1>1, <1>2, <2>2 DEF FlameTypes, Skips
    <2>10. QED
      BY <2>8, <2>9 DEF FlameInv
  <1>3. ASSUME UNCHANGED flame PROVE FlameInv'
    BY <1>2, <1>3 DEF flame, graph, walk
  <1>4. ASSUME NEW q \in Ranges, NEW i \in BOOLEAN, AskFlame(q, i) PROVE FlameInv'
    <2>1. left' \subseteq EventKeys
      BY <1>4 DEF AskFlame, TimeRange, TablesOK
    <2>2. NoTree'
      BY <1>1, <1>4, <2>1 DEF AskFlame, FlameTypes, NoTree
    <2>3. QED
      BY <2>2, NoTreeNext
  <1>5. ASSUME SkipEvent PROVE FlameInv'
    BY <1>2, <1>5 DEF SkipEvent, graph
  <1>6. ASSUME ShowGraph PROVE FlameInv'
    BY <1>2, <1>6 DEF ShowGraph, graph
  <1>7. ASSUME NEW p, Sandwich(p) PROVE FlameInv'
    BY <1>1, <1>2, <1>7 DEF Sandwich, graph, walk, FlameTypes
  <1>8. ASSUME LeaveSandwich PROVE FlameInv'
    BY <1>1, <1>2, <1>8 DEF LeaveSandwich, graph, walk, FlameTypes
  <1>9. ASSUME DropGraph PROVE FlameInv'
    <2>1. NoTree'
      BY <1>1, <1>9 DEF DropGraph, FlameTypes, NoTree
    <2>2. QED
      BY <2>1, NoTreeNext
  <1>10. CASE FlameNext
    BY <1>3, <1>4, <1>5, <1>6, <1>7, <1>8, <1>9, <1>10, InsertTraceStep, PassFrameStep,
       AddFrameStep DEF FlameNext
  <1>11. CASE UNCHANGED flame
    BY <1>3, <1>11
  <1>12. QED
    BY <1>10, <1>11 DEF ViewsNext, TablesNext, views

(* However symbols come while the tree is built, whichever traces have       *)
(* disappeared and however frames recur, the nodes of the flame graph are    *)
(* those of the events merged so far, and each counts the events that have   *)
(* its sequence of callers in common.                                        *)
THEOREM FlameAlwaysExact == ViewsSpec => []FlameExact
  <1>1. ViewsInit => FlameInv
    <2> SUFFICES ASSUME ViewsInit PROVE NoTree
      BY NoTreeKeepsIt
    <2>1. QED
      BY DEF ViewsInit, FlameInit, NoTree
  <1>2. ViewsInit => TablesOK
    BY ProfileAssumption DEF ViewsInit, Init, ProfileInit, TablesOK, AnyChain, ChainOf
  <1>3. FlameInv /\ TablesOK /\ [ViewsNext]_<<vars, views, apart>> => (FlameInv /\ TablesOK)'
    BY TablesStep, FlameStep
  <1>4. FlameInv => FlameExact
    BY FlameShown
  <1>5. QED
    BY <1>1, <1>2, <1>3, <1>4, PTL DEF ViewsSpec

-----------------------------------------------------------------------------
(* Sandwich view: what its trees count.                                    *)

(* Some of a finite set for every x of S, each member for one x only.        *)
Parted(S, X, T) ==
    /\ IsFiniteSet(T)
    /\ \A x \in S : X[x] # {} /\ X[x] \subseteq T
    /\ \A x \in S, y \in S : x # y => X[x] \cap X[y] = {}

(* There are not more parts than members. *)
LEMMA PartsFinite == ASSUME NEW S, NEW X, NEW T, Parted(S, X, T) PROVE IsFiniteSet(S)
  <1> DEFINE f == [x \in S |-> CHOOSE t : t \in X[x]]
  <1>1. \A x \in S : f[x] \in X[x] /\ f[x] \in T
    BY DEF Parted
  <1>2. f \in [S -> T]
    BY <1>1
  <1>3. \A x \in S, y \in S : f[x] = f[y] => x = y
    BY <1>1 DEF Parted
  <1> HIDE DEF f
  <1>4. f \in Injection(S, T)
    BY <1>2, <1>3 DEF Injection, IsInjective
  <1>5. QED
    BY <1>4, FS_Injection DEF Parted

(* Counting them part by part. *)
LEMMA TotalParts ==
    ASSUME NEW S, NEW X, NEW T, Parted(S, X, T), NEW w,
           \A x \in S : w[x] = Cardinality(X[x])
    PROVE  Total(S, w) = Cardinality(UNION {X[x] : x \in S})
  <1> DEFINE U == UNION {X[x] : x \in S}
             f == [t \in U |-> CHOOSE x \in S : t \in X[x]]
             one == [t \in U |-> 1]
             v == [x \in S |-> Total({t \in U : f[t] = x}, one)]
  <1>1. IsFiniteSet(S) /\ IsFiniteSet(U)
    <2>1. U \subseteq T
      BY DEF Parted
    <2>2. QED
      BY <2>1, PartsFinite, FS_Subset DEF Parted
  <1>2. \A t \in U : f[t] \in S /\ t \in X[f[t]]
    OBVIOUS
  <1>3. \A x \in S : {t \in U : f[t] = x} = X[x]
    BY <1>2 DEF Parted
  <1>4. (\A t \in U : one[t] = 1) /\ DOMAIN v = S
    OBVIOUS
  <1>5. \A x \in S : v[x] = Total(X[x], one)
    BY <1>3
  <1>6. \A x \in S : X[x] \subseteq U
    OBVIOUS
  <1>7. Total(S, v) = Total(U, one)
    <2> HIDE DEF U, f, one
    <2>1. \A t \in U : f[t] \in S /\ one[t] \in Nat
      BY <1>2, <1>4
    <2>2. QED
      BY <1>1, <2>1, TotalByValue
  <1> HIDE DEF U, f, one, v
  <1>8. \A x \in S : v[x] = w[x]
    <2> SUFFICES ASSUME NEW x \in S PROVE v[x] = w[x]
      OBVIOUS
    <2>1. IsFiniteSet(X[x]) /\ \A t \in X[x] : one[t] = 1
      BY <1>1, <1>4, <1>6, FS_Subset
    <2>2. Total(X[x], one) = 1 * Cardinality(X[x])
      BY <2>1, TotalEqual
    <2>3. Cardinality(X[x]) \in Nat
      BY <2>1, FS_CardinalityType
    <2>4. QED
      BY <1>5, <2>2, <2>3
  <1>9. Total(S, v) = Total(S, w)
    BY <1>1, <1>8, TotalSame
  <1>10. Total(U, one) = 1 * Cardinality(U) /\ Cardinality(U) \in Nat
    BY <1>1, <1>4, TotalEqual, FS_CardinalityType
  <1>11. QED
    <2>1. Total(U, one) = Cardinality(U)
      BY <1>10
    <2>2. Total(S, w) = Cardinality(U)
      BY <1>7, <1>9, <2>1
    <2>3. QED
      BY <2>2 DEF U

(* Parts of a set are together no larger. *)
LEMMA TotalWithin ==
    ASSUME NEW S, NEW X, NEW T, Parted(S, X, T), NEW w,
           \A x \in S : w[x] = Cardinality(X[x])
    PROVE  Total(S, w) <= Cardinality(T)
  <1>1. Total(S, w) = Cardinality(UNION {X[x] : x \in S})
    BY TotalParts
  <1>2. UNION {X[x] : x \in S} \subseteq T /\ IsFiniteSet(T)
    BY DEF Parted
  <1>3. QED
    BY <1>1, <1>2, FS_Subset, FS_CardinalityType

(* Where x is first in a sequence; where, after it, there is something else.  *)
FirstAt(e, s, x) == s \in 1 .. Len(e) /\ e[s] = x /\ \A i \in 1 .. s - 1 : e[i] # x
OtherAt(e, s, o, x) == o \in s + 1 .. Len(e) /\ e[o] # x /\ \A i \in s .. o - 1 : e[i] = x

(* There is one first place. *)
LEMMA FirstOnce ==
    ASSUME NEW e, NEW S, e \in Seq(S), NEW x, NEW s, FirstAt(e, s, x), NEW r, FirstAt(e, r, x)
    PROVE  s = r
  <1>1. Len(e) \in Nat /\ s \in Nat /\ r \in Nat /\ s >= 1 /\ r >= 1
    BY DEF FirstAt
  <1>2. ~(s < r) /\ ~(r < s)
    BY <1>1 DEF FirstAt
  <1>3. QED
    BY <1>1, <1>2

(* What is in a sequence has a first place. *)
LEMMA FirstIs ==
    ASSUME NEW e, NEW S, e \in Seq(S), NEW i \in 1 .. Len(e)
    PROVE  \E s \in 1 .. i : FirstAt(e, s, e[i])
  <1> DEFINE H == {s \in 1 .. i : e[s] = e[i]}
  <1>1. Len(e) \in Nat /\ i \in Nat /\ i \in H /\ H \subseteq Nat
    OBVIOUS
  <1>2. PICK s \in H : \A r \in H : s <= r
    BY <1>1, LeastNatural
  <1>3. \A r \in 1 .. s - 1 : e[r] # e[i]
    BY <1>1, <1>2
  <1>4. QED
    BY <1>1, <1>2, <1>3 DEF FirstAt

(* A path that spreads calls: call i at the places after m[i - 1] up to m[i].  *)
Spread(e, c, m) ==
    /\ e \in Paths /\ c \in Seq(Frames) /\ m \in [0 .. Len(c) -> Nat]
    /\ m[0] = 1 /\ m[Len(c)] = Len(e) /\ e[1] \in Nat
    /\ \A i \in 0 .. Len(c), j \in 0 .. Len(c) : i < j => m[i] < m[j]
    /\ \A i \in 1 .. Len(c) : \A x \in m[i - 1] + 1 .. m[i] : e[x] = c[i]

(* Every place but the first is that of a call. *)
LEMMA SpreadOver ==
    ASSUME NEW e, NEW c, NEW m, Spread(e, c, m), NEW x \in 2 .. Len(e)
    PROVE  \E i \in 1 .. Len(c) : x \in m[i - 1] + 1 .. m[i] /\ e[x] = c[i]
  <1> DEFINE n == Len(c)
             H == {i \in 0 .. n : x <= m[i]}
  <1>1. n \in Nat /\ Len(e) \in Nat /\ x \in Nat /\ m \in [0 .. n -> Nat]
        /\ m[0] = 1 /\ m[n] = Len(e)
    BY DEF Spread, Paths
  <1> HIDE DEF n
  <1>2. n \in H /\ H \subseteq Nat
    BY <1>1
  <1>3. PICK i \in H : \A j \in H : i <= j
    BY <1>2, LeastNatural
  <1>4. i # 0
    BY <1>1, <1>3
  <1>5. i \in 1 .. n /\ i - 1 \in 0 .. n /\ i - 1 \notin H
    BY <1>1, <1>3, <1>4
  <1>6. x \in m[i - 1] + 1 .. m[i]
    BY <1>1, <1>3, <1>5
  <1>7. QED
    BY <1>5, <1>6 DEF Spread, n

(* The first place of a frame is the first of its first call. *)
LEMMA FirstSpread ==
    ASSUME NEW e, NEW c, NEW m, Spread(e, c, m), NEW f \in Frames, NEW i, FirstAt(c, i, f)
    PROVE  /\ FirstAt(e, m[i - 1] + 1, f)
           /\ m[i - 1] \in 1 .. Len(e)
           /\ e[m[i - 1]] = IF i = 1 THEN e[1] ELSE c[i - 1]
           /\ i # 1 => m[i - 1] # 1
  <1> DEFINE n == Len(c)
             s == m[i - 1] + 1
  <1>1. /\ n \in Nat /\ Len(e) \in Nat /\ m \in [0 .. n -> Nat]
        /\ m[0] = 1 /\ m[n] = Len(e) /\ e[1] \in Nat
        /\ \A j \in 0 .. n, h \in 0 .. n : j < h => m[j] < m[h]
        /\ \A j \in 1 .. n : \A x \in m[j - 1] + 1 .. m[j] : e[x] = c[j]
    BY DEF Spread, Paths
  <1>2. i \in 1 .. n /\ c[i] = f /\ \A j \in 1 .. i - 1 : c[j] # f
    BY DEF FirstAt
  <1> HIDE DEF n
  <1>3. /\ i - 1 \in 0 .. n /\ i \in 0 .. n /\ 0 \in 0 .. n /\ n \in 0 .. n
        /\ m[i - 1] \in Nat /\ m[i] \in Nat /\ m[i - 1] < m[i]
        /\ m[i] <= Len(e) /\ 1 <= m[i - 1] /\ (i # 1 => m[i - 1] # 1)
    <2>1. i - 1 \in 0 .. n /\ i \in 0 .. n /\ 0 \in 0 .. n /\ n \in 0 .. n /\ i - 1 < i
      BY <1>1, <1>2
    <2>2. m[i - 1] \in Nat /\ m[i] \in Nat /\ m[i - 1] < m[i]
      BY <1>1, <2>1
    <2>3. m[i] <= Len(e)
      <3>1. i = n \/ i < n
        BY <1>1, <1>2
      <3>2. QED
        BY <1>1, <2>1, <2>2, <3>1
    <2>4. 1 <= m[i - 1] /\ (i # 1 => m[i - 1] # 1)
      <3>1. i = 1 \/ 0 < i - 1
        BY <1>2
      <3>2. QED
        BY <1>1, <2>1, <2>2, <3>1
    <2>5. QED
      BY <2>1, <2>2, <2>3, <2>4
  <1>4. s \in 1 .. Len(e) /\ e[s] = f
    <2>1. s \in m[i - 1] + 1 .. m[i] /\ s \in 1 .. Len(e)
      BY <1>1, <1>3
    <2> HIDE DEF s
    <2>2. QED
      BY <1>1, <1>2, <2>1
  <1>5. ASSUME NEW x \in 1 .. s - 1 PROVE e[x] # f
    <2>1. CASE x = 1
      BY <1>1, <2>1, FlameAssumption
    <2>2. CASE x # 1
      <3>1. x \in 2 .. Len(e)
        BY <1>1, <1>3, <2>2
      <3>2. PICK j \in 1 .. n : x \in m[j - 1] + 1 .. m[j] /\ e[x] = c[j]
        BY <3>1, SpreadOver DEF n
      <3>3. j < i
        <4>1. SUFFICES ASSUME i <= j PROVE FALSE
          BY <1>2, <3>2
        <4>2. j - 1 \in 0 .. n /\ j \in 0 .. n
          BY <1>1, <3>2
        <4>3. m[j - 1] \in Nat /\ m[j] \in Nat
          BY <1>1, <4>2
        <4>4. m[i - 1] <= m[j - 1]
          <5>1. i - 1 = j - 1 \/ i - 1 < j - 1
            BY <1>2, <3>2, <4>1
          <5>2. QED
            BY <1>1, <1>3, <4>2, <4>3, <5>1
        <4>5. QED
          BY <1>3, <3>1, <3>2, <4>3, <4>4
      <3>4. QED
        BY <1>2, <3>2, <3>3
    <2>3. QED
      BY <2>1, <2>2
  <1>6. FirstAt(e, s, f)
    BY <1>4, <1>5 DEF FirstAt
  <1>7. e[m[i - 1]] = IF i = 1 THEN e[1] ELSE c[i - 1]
    <2>1. CASE i = 1
      BY <1>1, <2>1
    <2>2. CASE i # 1
      <3>1. i - 1 \in 1 .. n /\ i - 1 - 1 \in 0 .. n /\ m[i - 1 - 1] < m[i - 1] /\ m[i - 1 - 1] \in Nat
        BY <1>1, <1>2, <1>3, <2>2
      <3>2. m[i - 1] \in m[i - 1 - 1] + 1 .. m[i - 1]
        BY <1>3, <3>1
      <3>3. QED
        BY <1>1, <2>2, <3>1, <3>2
    <2>3. QED
      BY <2>1, <2>2
  <1>8. QED
    BY <1>3, <1>4, <1>6, <1>7

(* Later calls are at later places. *)
LEMMA SpreadUp ==
    ASSUME NEW e, NEW c, NEW m, Spread(e, c, m), NEW a \in 0 .. Len(c), NEW b \in a .. Len(c)
    PROVE  m[a] \in Nat /\ m[b] \in Nat /\ m[a] <= m[b] /\ 1 <= m[a] /\ m[b] <= Len(e)
  <1> DEFINE n == Len(c)
  <1>1. n \in Nat /\ m \in [0 .. n -> Nat] /\ m[0] = 1 /\ m[n] = Len(e)
        /\ \A j \in 0 .. n, h \in 0 .. n : j < h => m[j] < m[h]
    BY DEF Spread
  <1> HIDE DEF n
  <1>2. a \in 0 .. n /\ b \in 0 .. n /\ 0 \in 0 .. n /\ n \in 0 .. n /\ a <= b
    BY <1>1 DEF n
  <1>3. (a = b \/ a < b) /\ (0 = a \/ 0 < a) /\ (b = n \/ b < n)
    BY <1>1, <1>2
  <1>4. m[a] \in Nat /\ m[b] \in Nat
    BY <1>1, <1>2
  <1>5. QED
    BY <1>1, <1>2, <1>3, <1>4

(* A call has a place. *)
LEMMA SpreadStep ==
    ASSUME NEW e, NEW c, NEW m, Spread(e, c, m), NEW h \in 1 .. Len(c)
    PROVE  m[h - 1] \in Nat /\ m[h] \in Nat /\ m[h - 1] < m[h]
  <1> DEFINE n == Len(c)
  <1>1. n \in Nat /\ m \in [0 .. n -> Nat]
        /\ \A j \in 0 .. n, i \in 0 .. n : j < i => m[j] < m[i]
    BY DEF Spread
  <1> HIDE DEF n
  <1>2. h - 1 \in 0 .. n /\ h \in 0 .. n /\ h - 1 < h
    BY <1>1 DEF n
  <1>3. QED
    BY <1>1, <1>2

(* Which calls a place can be of. *)
LEMMA SpreadBetween ==
    ASSUME NEW e, NEW c, NEW m, Spread(e, c, m), NEW h \in 1 .. Len(c),
           NEW x \in m[h - 1] + 1 .. m[h], NEW i \in 0 .. Len(c)
    PROVE  (m[i] < x => i < h) /\ (x <= m[i] => h <= i)
  <1> DEFINE n == Len(c)
  <1>1. n \in Nat
    BY DEF Spread
  <1>2. h - 1 \in 0 .. n /\ h \in h - 1 .. n /\ h \in 0 .. n /\ h - 1 \in Nat /\ i \in Nat
    BY <1>1
  <1>3. m[h - 1] \in Nat /\ m[h] \in Nat
    BY <1>2, SpreadUp
  <1>4. m[i] \in Nat
    BY <1>1, SpreadUp
  <1>5. ASSUME m[i] < x PROVE i < h
    <2>1. SUFFICES ASSUME h <= i PROVE FALSE
      BY <1>2
    <2>2. i \in h .. n
      BY <1>1, <1>2, <2>1
    <2>3. m[h] <= m[i]
      BY <1>2, <2>2, SpreadUp
    <2>4. QED
      BY <1>3, <1>4, <1>5, <2>3
  <1>6. ASSUME x <= m[i] PROVE h <= i
    <2>1. SUFFICES ASSUME i < h PROVE FALSE
      BY <1>2
    <2>2. h - 1 \in i .. n
      BY <1>1, <1>2, <2>1
    <2>3. m[i] <= m[h - 1]
      BY <1>2, <2>2, SpreadUp
    <2>4. QED
      BY <1>3, <1>4, <1>6, <2>3
  <1>7. QED
    BY <1>5, <1>6

(* A frame on the path is called.                                           *)
LEMMA SpreadHas ==
    ASSUME NEW e, NEW c, NEW m, Spread(e, c, m), NEW f \in Frames, NEW s, FirstAt(e, s, f)
    PROVE  \E i \in 1 .. Len(c) : FirstAt(c, i, f) /\ s = m[i - 1] + 1
  <1>1. s \in 2 .. Len(e)
    BY FlameAssumption DEF FirstAt, Spread, Paths
  <1>2. PICK j \in 1 .. Len(c) : e[s] = c[j]
    BY <1>1, SpreadOver
  <1>3. c \in Seq(Frames) /\ e \in Paths
    BY DEF Spread
  <1>4. PICK i \in 1 .. j : FirstAt(c, i, c[j])
    BY <1>3, FirstIs
  <1>5. FirstAt(c, i, f) /\ i \in 1 .. Len(c)
    BY <1>2, <1>4 DEF FirstAt
  <1>6. FirstAt(e, m[i - 1] + 1, f)
    BY <1>5, FirstSpread
  <1>7. s = m[i - 1] + 1
    BY <1>3, <1>6, FirstOnce DEF Paths
  <1>8. QED
    BY <1>5, <1>7

(* The first other thing after it is the first other call.                  *)
LEMMA OtherSpread ==
    ASSUME NEW e, NEW c, NEW m, Spread(e, c, m), NEW f \in Frames, NEW i, FirstAt(c, i, f),
           NEW g
    PROVE  (\E o : OtherAt(e, m[i - 1] + 1, o, f) /\ e[o] = g)
             <=> (\E j : OtherAt(c, i, j, f) /\ c[j] = g)
  <1> DEFINE n == Len(c)
  <1>1. PICK s, a, b : s = a + 1 /\ a = m[i - 1] /\ b = m[i]
    OBVIOUS
  <1>2. n \in Nat /\ Len(e) \in Nat /\ c[i] = f /\ i \in 1 .. n
    BY DEF Spread, Paths, FirstAt
  <1>3. i - 1 \in 0 .. n /\ i \in i - 1 .. n /\ i \in 0 .. n
    BY <1>2
  <1>4. a \in Nat /\ b \in Nat /\ 1 <= a /\ a < b
    <2>1. m[i - 1] \in Nat /\ m[i] \in Nat /\ 1 <= m[i - 1]
      BY <1>3, SpreadUp
    <2>2. m[i - 1] < m[i]
      BY <1>2, SpreadStep
    <2>3. QED
      BY <1>1, <2>1, <2>2
  <1>5. \A h \in 0 .. n : m[h] \in Nat
    BY SpreadUp, <1>2
  <1>6. ASSUME NEW j, OtherAt(c, i, j, f), c[j] = g
        PROVE  \E o : OtherAt(e, s, o, f) /\ e[o] = g
    <2>1. j \in i + 1 .. n /\ c[j] # f /\ \A h \in i .. j - 1 : c[h] = f
      BY <1>6 DEF OtherAt
    <2>2. j \in 1 .. n /\ j - 1 \in i .. n /\ j - 1 \in 0 .. n /\ j \in j - 1 .. n /\ j \in 0 .. n
      BY <1>2, <2>1
    <2>3. PICK y, z : y = m[j - 1] /\ z = m[j]
      OBVIOUS
    <2>4. b <= y /\ z <= Len(e) /\ y < z /\ y \in Nat /\ z \in Nat
      <3>1. m[i] <= m[j - 1] /\ m[j] <= Len(e)
        BY <1>3, <2>2, SpreadUp
      <3>2. m[j - 1] < m[j] /\ m[j - 1] \in Nat /\ m[j] \in Nat
        BY <2>2, SpreadStep
      <3>3. QED
        BY <1>1, <2>3, <3>1, <3>2
    <2>5. PICK o : o = y + 1
      OBVIOUS
    <2>6. o \in s + 1 .. Len(e) /\ o \in m[j - 1] + 1 .. m[j]
      <3>1. a + 2 <= y + 1 /\ y + 1 <= z
        BY <1>4, <2>4
      <3>2. o \in s + 1 .. Len(e) /\ o \in y + 1 .. z
        BY <1>1, <1>2, <1>4, <2>4, <2>5, <3>1
      <3>3. QED
        BY <2>3, <3>2
    <2>7. e[o] = c[j]
      BY <2>2, <2>6 DEF Spread
    <2>8. ASSUME NEW x \in s .. o - 1 PROVE e[x] = f
      <3>1. x \in 2 .. Len(e) /\ m[i - 1] < x /\ x <= m[j - 1]
        <4>1. x \in 2 .. Len(e) /\ a < x /\ x <= y
          BY <1>1, <1>2, <1>4, <2>4, <2>5
        <4>2. QED
          BY <1>1, <2>3, <4>1
      <3>2. PICK h \in 1 .. n : x \in m[h - 1] + 1 .. m[h] /\ e[x] = c[h]
        BY <3>1, SpreadOver
      <3>3. i - 1 < h /\ h <= j - 1
        BY <1>3, <2>2, <3>1, <3>2, SpreadBetween
      <3>4. h \in i .. j - 1
        BY <1>2, <2>1, <3>2, <3>3
      <3>5. QED
        BY <2>1, <3>2, <3>4
    <2>9. OtherAt(e, s, o, f)
      BY <2>1, <2>6, <2>7, <2>8 DEF OtherAt
    <2>10. QED
      BY <1>6, <2>7, <2>9
  <1>7. ASSUME NEW o, OtherAt(e, s, o, f), e[o] = g
        PROVE  \E j : OtherAt(c, i, j, f) /\ c[j] = g
    <2>1. o \in s + 1 .. Len(e) /\ e[o] # f /\ \A x \in s .. o - 1 : e[x] = f
      BY <1>7 DEF OtherAt
    <2>2. o \in 2 .. Len(e) /\ m[i - 1] < o
      <3>1. o \in Nat /\ s + 1 <= o /\ o <= Len(e)
        BY <1>1, <1>2, <1>4, <2>1
      <3>2. o \in 2 .. Len(e) /\ a < o
        BY <1>1, <1>2, <1>4, <3>1
      <3>3. QED
        BY <1>1, <3>2
    <2>3. PICK j \in 1 .. n : o \in m[j - 1] + 1 .. m[j] /\ e[o] = c[j]
      BY <2>2, SpreadOver
    <2>4. i - 1 < j
      BY <1>3, <2>2, <2>3, SpreadBetween
    <2>5. j \in i + 1 .. n
      BY <1>2, <2>1, <2>3, <2>4
    <2>6. ASSUME NEW h \in i .. j - 1 PROVE c[h] = f
      <3>1. h \in 1 .. n /\ h \in i .. n /\ j - 1 \in h .. n /\ h - 1 \in 0 .. n /\ h \in 0 .. n
        BY <1>2, <2>5
      <3>2. PICK v, w, y : v = m[h - 1] /\ w = m[h] /\ y = m[j - 1]
        OBVIOUS
      <3>3. b <= w /\ w <= y /\ v < w
        <4>1. m[i] <= m[h] /\ m[h] <= m[j - 1]
          BY <1>3, <3>1, SpreadUp
        <4>2. m[h - 1] < m[h]
          BY <3>1, SpreadStep
        <4>3. QED
          BY <1>1, <3>2, <4>1, <4>2
      <3>4. v \in Nat /\ w \in Nat /\ y \in Nat
        <4>1. j - 1 \in 0 .. n
          BY <1>2, <2>5
        <4>2. QED
          BY <1>5, <3>2, <3>1, <4>1
      <3>5. m[h] \in s .. o - 1 /\ m[h] \in m[h - 1] + 1 .. m[h]
        <4>1. o \in Nat /\ y + 1 <= o
          BY <1>2, <2>1, <2>3, <3>2, <3>4
        <4>2. w \in s .. o - 1 /\ w \in v + 1 .. w
          BY <1>1, <1>4, <3>3, <3>4, <4>1
        <4>3. QED
          BY <3>2, <4>2
      <3>6. e[m[h]] = c[h]
        BY <3>1, <3>5 DEF Spread
      <3>7. QED
        BY <2>1, <3>5, <3>6
    <2>7. OtherAt(c, i, j, f)
      BY <2>1, <2>3, <2>5, <2>6 DEF OtherAt
    <2>8. QED
      BY <1>7, <2>3, <2>7
  <1>8. QED
    BY <1>1, <1>6, <1>7

(* The events that come by node q, E[k] being where event k's trace ends.    *)
Past(E, q) == {k \in taken : Begins(q, E[k])}

(* A tree that is finished, ... *)
Ended(E) ==
    /\ IsFiniteSet(taken)
    /\ \A k \in taken :
          /\ CommId(Sample[k].comm) \in 0 .. Len(comms) - 1
          /\ E[k][1] = CommId(Sample[k].comm)
          /\ \E m : Spread(E[k], Calls(k), m)
    /\ Nodes = {q \in Paths : q # <<>> /\ Past(E, q) # {}}
    /\ \A q \in Nodes : weight[q] = Cardinality(Past(E, q))

(* The places of a walk that comes to its end.                              *)
LEMMA WalkSpreads ==
    ASSUME Skips, NEW w, NEW c, NEW d, d = Len(c), Walked(w, d, c),
           NEW n \in Nat, w[0] = <<n>>
    PROVE  \E m : Spread(w[d], c, m)
  <1> DEFINE m == [i \in 0 .. d |-> Len(w[i])]
             e == w[d]
  <1>1. d \in Nat /\ c \in Seq(Frames) /\ w \in [Nat -> Paths]
    BY DEF Walked
  <1>2. \A i \in 0 .. d : i \in Nat /\ w[i] \in Paths /\ Len(w[i]) \in Nat
    BY <1>1 DEF Paths
  <1>3. 0 \in 0 .. d /\ d \in 0 .. d /\ m \in [0 .. d -> Nat] /\ \A i \in 0 .. d : m[i] = Len(w[i])
    BY <1>1, <1>2
  <1>4. m[0] = 1 /\ m[d] = Len(e)
    BY <1>3
  <1> HIDE DEF m
  <1>5. e[1] \in Nat
    <2>1. Begins(w[0], e)
      <3>1. d \in 0 .. d /\ d \in 0 .. d /\ 0 \in 0 .. d
        BY <1>3
      <3>2. QED
        BY <3>1, WalkedOn
    <2>2. 1 \in 1 .. Len(w[0]) /\ w[0][1] = n
      OBVIOUS
    <2>3. e[1] = w[0][1]
      BY <2>1, <2>2 DEF Begins
    <2>4. QED
      BY <2>2, <2>3
  <1>6. ASSUME NEW i \in 0 .. d, NEW j \in 0 .. d, i < j PROVE m[i] < m[j]
    <2>1. j \in i .. d
      BY <1>1, <1>6
    <2>2. Len(w[i]) < Len(w[j])
      BY <1>6, <2>1, WalkedDown
    <2>3. QED
      BY <1>3, <2>2
  <1>7. ASSUME NEW i \in 1 .. d, NEW x \in m[i - 1] + 1 .. m[i] PROVE e[x] = c[i]
    <2>1. i - 1 \in 0 .. d /\ i \in 0 .. d /\ d \in i .. d /\ c[i] \in Frames
      BY <1>1
    <2>2. PICK p, f, q : p = w[i - 1] /\ f = c[i] /\ q = w[i]
      OBVIOUS
    <2>3. p \in Paths /\ q \in Paths /\ f \in Frames /\ m[i - 1] = Len(p) /\ m[i] = Len(q)
      BY <1>2, <1>3, <2>1, <2>2
    <2>4. Comes(p, f, q)
      BY <2>2 DEF Walked
    <2>5. PICK h \in Nat : q = Repeat(p, f, h)
      BY <2>4 DEF Comes, Skips
    <2>6. Repeated(q, p, f, h) /\ Len(p) \in Nat
      <3>1. p \in Seq(Ids) /\ f \in Ids
        BY <2>3 DEF Paths, Ids
      <3>2. QED
        BY <2>5, <3>1, RepeatIs
    <2>7. x \in 1 .. Len(p) + h /\ ~(x <= Len(p)) /\ Len(q) = Len(p) + h
      <3>1. Len(q) = Len(p) + h
        BY <2>6 DEF Repeated
      <3>2. x \in Len(p) + 1 .. Len(p) + h
        BY <1>7, <2>3, <3>1
      <3>3. QED
        BY <2>6, <3>1, <3>2
    <2>8. q[x] = f
      BY <2>6, <2>7 DEF Repeated
    <2>9. Begins(q, e)
      BY <2>1, <2>2, WalkedOn
    <2>10. e[x] = q[x]
      BY <2>7, <2>9 DEF Begins
    <2>11. QED
      BY <2>2, <2>8, <2>10
  <1> HIDE DEF e
  <1>8. Spread(e, c, m)
    <2>1. e \in Paths
      BY <1>2, <1>3 DEF e
    <2>2. QED
      BY <1>1, <1>3, <1>4, <1>5, <1>6, <1>7, <2>1 DEF Spread
  <1>9. QED
    BY <1>8 DEF e

(* ... as every drawn tree is. *)
LEMMA EndedIs == ASSUME FlameInv, rest = <<>> PROVE \E E : Ended(E)
  <1>1. FlameTypes
    BY DEF FlameInv
  <1>2. PICK W, done : FlameWalks(W, done)
    BY DEF FlameInv
  <1>3. /\ taken \subseteq EventKeys /\ Skips /\ Rooted(W) /\ Weighs(W, done)
        /\ \A k \in taken : Walked(W[k], done[k], Calls(k))
    BY <1>1, <1>2 DEF FlameTypes, FlameWalks
  <1>4. \A k \in taken : done[k] = Len(Calls(k))
    BY <1>1, <1>2, AllDone
  <1> DEFINE E == [k \in taken |-> W[k][done[k]]]
  <1>5. \A k \in taken : E[k] = W[k][done[k]]
    OBVIOUS
  <1> HIDE DEF E
  <1>6. \A q : Past(E, q) = Through(W, done, q)
    BY <1>5 DEF Past, Through
  <1>7. IsFiniteSet(taken)
    BY <1>3, FS_Subset, EventQueriesAssumption
  <1>8. ASSUME NEW k \in taken
        PROVE  /\ CommId(Sample[k].comm) \in 0 .. Len(comms) - 1
               /\ E[k][1] = CommId(Sample[k].comm)
               /\ \E m : Spread(E[k], Calls(k), m)
    <2>1. PICK n \in 0 .. Len(comms) - 1 : W[k][0] = <<n>>
      BY <1>3 DEF Rooted
    <2>2. n \in Nat /\ CommId(Sample[k].comm) = n
      <3>1. W[k][0] = <<CommId(Sample[k].comm)>>
        BY <1>1, <1>3, RootIs
      <3>2. QED
        BY <2>1, <3>1
    <2>3. PICK w, d, c : w = W[k] /\ d = done[k] /\ c = Calls(k)
      OBVIOUS
    <2>4. Walked(w, d, c) /\ d = Len(c) /\ w[0] = <<n>> /\ E[k] = w[d]
      BY <1>3, <1>4, <1>5, <2>1, <2>3
    <2>5. \E m : Spread(w[d], c, m)
      BY <1>3, <2>2, <2>4, WalkSpreads
    <2>6. w[d][1] = n
      <3>1. d \in 0 .. d /\ 0 \in 0 .. d
        BY <2>4 DEF Walked
      <3>2. Begins(w[0], w[d])
        BY <1>3, <2>4, <3>1, WalkedOn
      <3>3. Len(w[0]) = 1 /\ w[0][1] = n
        BY <2>4
      <3>4. QED
        BY <3>2, <3>3 DEF Begins
    <2>7. QED
      BY <2>1, <2>2, <2>3, <2>4, <2>5, <2>6
  <1>9. Ended(E)
    BY <1>3, <1>6, <1>7, <1>8 DEF Ended, Weighs
  <1>10. QED
    BY <1>9

(* The beginning of a path. *)
LEMMA BeginningIs ==
    ASSUME NEW S, NEW p \in Seq(S), NEW i \in 0 .. Len(p)
    PROVE  /\ SubSeq(p, 1, i) \in Seq(S) /\ Len(SubSeq(p, 1, i)) = i
           /\ \A x \in 1 .. i : SubSeq(p, 1, i)[x] = p[x]
           /\ Begins(SubSeq(p, 1, i), p)
  <1>1. Len(p) \in Nat /\ i \in Nat
    OBVIOUS
  <1>2. /\ SubSeq(p, 1, i) \in Seq(S) /\ Len(SubSeq(p, 1, i)) = i
        /\ \A x \in 1 .. i : SubSeq(p, 1, i)[x] = p[x]
    BY <1>1
  <1>3. QED
    BY <1>1, <1>2 DEF Begins

(* What the search finds: the nodes at which a frame is met first.           *)
LEMMA HitsAre ==
    ASSUME NEW E, Ended(E), NEW f \in Frames
    PROVE  Hits(f) = {h \in Nodes : FirstAt(h, Len(h), f)}
  <1>1. f # RootId
    BY FlameAssumption DEF RootId
  <1>2. Id(<<>>) = RootId
    BY DEF Id
  <1>3. ASSUME NEW p \in Nodes
        PROVE  /\ Id(p) = p[Len(p)] /\ Len(p) \in Nat \ {0} /\ SubSeq(p, 1, 0) = <<>>
               /\ \A i \in 1 .. Len(p) - 1 : Id(SubSeq(p, 1, i)) = p[i]
    <2>1. p \in Seq(Ids) /\ p # <<>>
      BY DEF Ended, Paths
    <2>2. Len(p) \in Nat \ {0}
      BY <2>1, EmptySeq
    <2>3. SubSeq(p, 1, 0) = <<>>
      BY <2>1
    <2>4. ASSUME NEW i \in 1 .. Len(p) - 1 PROVE Id(SubSeq(p, 1, i)) = p[i]
      <3> DEFINE q == SubSeq(p, 1, i)
      <3>1. i \in 0 .. Len(p) /\ i \in 1 .. i
        BY <2>2
      <3>2. q \in Seq(Ids) /\ Len(q) = i /\ q[i] = p[i]
        BY <2>1, <3>1, BeginningIs
      <3> HIDE DEF q
      <3>3. q # <<>>
        BY <3>1, <3>2
      <3>4. Id(q) = p[i]
        BY <3>2, <3>3 DEF Id, Last
      <3>5. QED
        BY <3>4 DEF q
    <2>5. QED
      BY <2>1, <2>2, <2>3, <2>4 DEF Id, Last
  <1>4. ASSUME NEW p \in Nodes
        PROVE  p \in Hits(f) <=> FirstAt(p, Len(p), f)
    <2>1. p \in Hits(f) <=> /\ Id(p) = f
                            /\ \A i \in 0 .. Len(p) - 1 : Id(SubSeq(p, 1, i)) # f
      BY DEF Hits
    <2>2. (\A i \in 0 .. Len(p) - 1 : Id(SubSeq(p, 1, i)) # f)
             <=> \A i \in 1 .. Len(p) - 1 : Id(SubSeq(p, 1, i)) # f
      <3>1. \A i \in 0 .. Len(p) - 1 : i = 0 \/ i \in 1 .. Len(p) - 1
        BY <1>3
      <3>2. 1 .. Len(p) - 1 \subseteq 0 .. Len(p) - 1
        BY <1>3
      <3>3. Id(SubSeq(p, 1, 0)) # f
        BY <1>1, <1>2, <1>3
      <3>4. QED
        BY <3>1, <3>2, <3>3
    <2>3. QED
      BY <1>3, <2>1, <2>2 DEF FirstAt
  <1>5. Hits(f) \subseteq Nodes
    BY <1>1, <1>2 DEF Hits
  <1>6. QED
    BY <1>4, <1>5

(* It is met at one node only by each event. *)
LEMMA HitOn ==
    ASSUME NEW E, Ended(E), NEW f \in Frames, NEW h \in Hits(f), NEW k \in Past(E, h)
    PROVE  /\ k \in taken /\ E[k] \in Paths /\ h \in Paths /\ h \in Nodes
           /\ FirstAt(E[k], Len(h), f) /\ Begins(h, E[k])
  <1>1. h \in Nodes /\ FirstAt(h, Len(h), f)
    BY HitsAre
  <1>2. k \in taken /\ Begins(h, E[k])
    BY DEF Past
  <1>3. E[k] \in Paths /\ h \in Paths
    BY <1>1, <1>2 DEF Ended, Spread
  <1>4. FirstAt(E[k], Len(h), f)
    <2>1. Len(h) \in Nat /\ Len(E[k]) \in Nat
      BY <1>3 DEF Paths
    <2>2. QED
      BY <1>1, <1>2, <2>1 DEF FirstAt, Begins
  <1>5. QED
    BY <1>1, <1>2, <1>3, <1>4

(* An event has one hit. *)
LEMMA HitOnce ==
    ASSUME NEW E, Ended(E), NEW f \in Frames, NEW h \in Hits(f), NEW g \in Hits(f),
           NEW k \in taken, k \in Past(E, h), k \in Past(E, g)
    PROVE  h = g
  <1>1. /\ E[k] \in Seq(Ids) /\ h \in Seq(Ids) /\ g \in Seq(Ids)
        /\ FirstAt(E[k], Len(h), f) /\ FirstAt(E[k], Len(g), f)
        /\ Begins(h, E[k]) /\ Begins(g, E[k])
    BY HitOn DEF Paths
  <1>2. Len(h) = Len(g)
    BY <1>1, FirstOnce
  <1>3. QED
    BY <1>1, <1>2, BeginsBefore

(* The events of a frame, and where it is met first in one of them.          *)
Having(f) == {k \in taken : f \in Range(Calls(k))}

(* The first of its calls of the frame. *)
LEMMA TopIs ==
    ASSUME NEW E, Ended(E), NEW f \in Frames, NEW k \in Having(f)
    PROVE  FirstAt(Calls(k), Top(k, f), f)
  <1>1. k \in taken /\ f \in Range(Calls(k)) /\ Calls(k) \in Seq(Frames)
    BY DEF Having, Ended, Spread
  <1>2. PICK x \in 1 .. Len(Calls(k)) : Calls(k)[x] = f
    BY <1>1 DEF Range
  <1>3. PICK s : FirstAt(Calls(k), s, f)
    BY <1>1, <1>2, FirstIs
  <1>4. \E i \in DOMAIN Calls(k) : Calls(k)[i] = f /\ \A j \in 1 .. i - 1 : Calls(k)[j] # f
    BY <1>1, <1>3 DEF FirstAt
  <1>5. /\ Top(k, f) \in DOMAIN Calls(k)
        /\ Calls(k)[Top(k, f)] = f /\ \A j \in 1 .. Top(k, f) - 1 : Calls(k)[j] # f
    BY <1>4 DEF Top
  <1>6. QED
    BY <1>1, <1>5 DEF FirstAt

(* The hit of an event that has the frame, ... *)
LEMMA HitOf ==
    ASSUME NEW E, Ended(E), NEW f \in Frames, NEW k \in Having(f)
    PROVE  \E h \in Hits(f) : k \in Past(E, h)
  <1>1. FirstAt(Calls(k), Top(k, f), f)
    BY TopIs
  <1>2. k \in taken
    BY DEF Having
  <1>3. PICK m : Spread(E[k], Calls(k), m)
    BY <1>2 DEF Ended
  <1>4. PICK s : FirstAt(E[k], s, f)
    BY <1>1, <1>3, FirstSpread
  <1>5. E[k] \in Seq(Ids)
    BY <1>3 DEF Spread, Paths
  <1> DEFINE h == SubSeq(E[k], 1, s)
  <1>6. Len(E[k]) \in Nat /\ s \in 1 .. Len(E[k]) /\ s \in 0 .. Len(E[k])
    BY <1>4, <1>5 DEF FirstAt
  <1>7. h \in Seq(Ids) /\ Len(h) = s /\ Begins(h, E[k]) /\ \A x \in 1 .. s : h[x] = E[k][x]
    BY <1>5, <1>6, BeginningIs
  <1> HIDE DEF h
  <1>8. h # <<>> /\ k \in Past(E, h)
    BY <1>2, <1>6, <1>7 DEF Past
  <1>9. h \in Nodes
    BY <1>7, <1>8 DEF Ended, Paths
  <1>10. FirstAt(h, Len(h), f)
    BY <1>4, <1>6, <1>7 DEF FirstAt
  <1>11. QED
    BY <1>8, <1>9, <1>10, HitsAre

(* ... and what is before it. *)
LEMMA HitIs ==
    ASSUME NEW E, Ended(E), NEW f \in Frames, NEW h \in Hits(f), NEW k \in Past(E, h)
    PROVE  /\ k \in Having(f) /\ h \in Paths /\ Len(h) \in Nat /\ Len(h) >= 2
           /\ h[1] \in Nat /\ \A x \in 2 .. Len(h) : h[x] \in Frames
           /\ h[Len(h) - 1] = Caller(k, f)
  <1>1. /\ k \in taken /\ E[k] \in Paths /\ h \in Paths
        /\ FirstAt(E[k], Len(h), f) /\ Begins(h, E[k])
    BY HitOn
  <1>2. PICK m : Spread(E[k], Calls(k), m)
    BY <1>1 DEF Ended
  <1>3. PICK i \in 1 .. Len(Calls(k)) : FirstAt(Calls(k), i, f) /\ Len(h) = m[i - 1] + 1
    BY <1>1, <1>2, SpreadHas
  <1>4. k \in Having(f)
    BY <1>1, <1>2, <1>3 DEF Having, Range, FirstAt, Spread
  <1>5. Top(k, f) = i
    <2>1. FirstAt(Calls(k), Top(k, f), f) /\ Calls(k) \in Seq(Frames)
      BY <1>2, <1>4, TopIs DEF Spread
    <2>2. QED
      BY <1>3, <2>1, FirstOnce
  <1>6. /\ m[i - 1] \in 1 .. Len(E[k])
        /\ E[k][m[i - 1]] = IF i = 1 THEN E[k][1] ELSE Calls(k)[i - 1]
    BY <1>2, <1>3, FirstSpread
  <1>7. Len(h) \in Nat /\ Len(E[k]) \in Nat
    BY <1>1 DEF Paths
  <1>8. Len(h) >= 2 /\ Len(h) - 1 = m[i - 1] /\ Len(h) - 1 \in 1 .. Len(h) /\ 1 \in 1 .. Len(h)
    <2>1. PICK a : a = m[i - 1]
      OBVIOUS
    <2>2. QED
      BY <1>3, <1>6, <1>7, <2>1
  <1>9. Len(h) <= Len(E[k]) /\ \A x \in 1 .. Len(h) : h[x] = E[k][x]
    BY <1>1 DEF Begins
  <1>10. h[1] \in Nat
    BY <1>2, <1>8, <1>9 DEF Spread
  <1>11. ASSUME NEW x \in 2 .. Len(h) PROVE h[x] \in Frames
    <2>1. x \in 2 .. Len(E[k]) /\ x \in 1 .. Len(h)
      BY <1>7, <1>9
    <2>2. PICK j \in 1 .. Len(Calls(k)) : E[k][x] = Calls(k)[j]
      BY <1>2, <2>1, SpreadOver
    <2>3. Calls(k)[j] \in Frames
      BY <1>2 DEF Spread
    <2>4. QED
      BY <1>9, <2>1, <2>2, <2>3
  <1>12. h[Len(h) - 1] = Caller(k, f)
    <2>1. h[Len(h) - 1] = E[k][m[i - 1]]
      BY <1>8, <1>9
    <2>2. E[k][1] = CommId(Sample[k].comm)
      BY <1>1 DEF Ended
    <2>3. QED
      BY <1>5, <1>6, <2>1, <2>2 DEF Caller
  <1>13. QED
    BY <1>1, <1>4, <1>7, <1>8, <1>10, <1>11, <1>12

(* The library's prefixes are the beginnings. *)
LEMMA PrefixIs ==
    ASSUME NEW S, NEW q \in Seq(S), NEW p \in Seq(S)
    PROVE  /\ IsPrefix(q, p) <=> Begins(q, p)
           /\ q \in Prefixes(p) <=> Begins(q, p)
  <1>1. Len(q) \in Nat /\ Len(p) \in Nat
    OBVIOUS
  <1>2. ASSUME Len(q) <= Len(p)
        PROVE  SubSeq(q, 1, Len(q)) = SubSeq(p, 1, Len(q)) <=> Begins(q, p)
    <2>1. SubSeq(q, 1, Len(q)) = SubSeq(p, 1, Len(q)) <=> \A i \in 1 .. Len(q) : q[i] = p[i]
      BY <1>1, <1>2, SameBeginning
    <2>2. QED
      BY <1>2, <2>1 DEF Begins
  <1>3. IsPrefix(q, p) <=> Begins(q, p)
    BY <1>2 DEF IsPrefix, Begins
  <1>4. SubSeq(q, 1, Len(q)) = q
    OBVIOUS
  <1>5. ASSUME Begins(q, p) PROVE q \in Prefixes(p)
    <2>1. Len(q) \in 0 .. Len(p) /\ q = SubSeq(p, 1, Len(q))
      BY <1>1, <1>2, <1>4, <1>5 DEF Begins
    <2>2. QED
      BY <2>1 DEF Prefixes
  <1>6. ASSUME q \in Prefixes(p) PROVE Begins(q, p)
    <2>1. PICK i \in 0 .. Len(p) : q = SubSeq(p, 1, i)
      BY <1>6 DEF Prefixes
    <2>2. QED
      BY <2>1, BeginningIs
  <1>7. QED
    BY <1>3, <1>5, <1>6

(* A path without its end begins it. *)
LEMMA FrontBegins ==
    ASSUME NEW S, NEW p \in Seq(S), p # <<>>
    PROVE  /\ Front(p) \in Seq(S) /\ Len(Front(p)) = Len(p) - 1 /\ Begins(Front(p), p)
           /\ Len(p) \in Nat \ {0}
  <1>1. Len(p) \in Nat \ {0}
    BY EmptySeq
  <1>2. Len(p) - 1 \in 0 .. Len(p)
    BY <1>1
  <1>3. QED
    BY <1>1, <1>2, BeginningIs DEF Front

(* The callers of a hit, from the nearest up: none if it is the root's.      *)
LEMMA AboveIs ==
    ASSUME NEW h \in Paths, Len(h) >= 2, h[1] \in Nat,
           \A x \in 2 .. Len(h) : h[x] \in Frames
    PROVE  /\ Above(h) \in Paths
           /\ Above(h) = <<>> <=> h[Len(h) - 1] = RootId
           /\ Above(h) # <<>> => Len(Above(h)) >= 1 /\ Above(h)[1] = h[Len(h) - 1]
  <1> DEFINE n == Len(h)
             first == IF h # <<>> /\ h[1] = RootId THEN 2 ELSE 1
             b == SubSeq(h, first, n - 1)
  <1>1. h \in Seq(Ids) /\ n \in Nat /\ n >= 2 /\ h # <<>>
    BY EmptySeq DEF Paths
  <1>2. Above(h) = Reverse(b)
    BY DEF Above
  <1>3. first \in 1 .. 2 /\ (first = 2 <=> h[1] = RootId)
    BY <1>1
  <1> HIDE DEF first
  <1>4. /\ b \in Seq(Ids) /\ Len(b) = n - first
        /\ \A j \in 1 .. n - first : b[j] = h[first + j - 1]
    <2>1. first \in 1 .. n + 1 /\ n - 1 \in first - 1 .. n
      BY <1>1, <1>3
    <2>2. (n - 1) - first + 1 = n - first
      BY <1>1, <1>3
    <2>3. /\ b \in Seq(Ids) /\ Len(b) = (n - 1) - first + 1
          /\ \A j \in 1 .. (n - 1) - first + 1 : b[j] = h[first + j - 1]
      BY <1>1, <2>1, SubSeqProperties
    <2> HIDE DEF n, b
    <2>4. QED
      BY <2>2, <2>3
  <1> HIDE DEF b, n
  <1>5. /\ Above(h) \in Seq(Ids) /\ Len(Above(h)) = n - first
        /\ n - first >= 1 => Above(h)[1] = h[n - 1]
    <2>1. PICK d : d = n - first
      OBVIOUS
    <2>2. d \in Nat
      BY <1>1, <1>3, <2>1
    <2>3. Above(h) = [j \in 1 .. d |-> b[d - j + 1]]
      BY <1>2, <1>4, <2>1 DEF Reverse
    <2>4. \A j \in 1 .. d : d - j + 1 \in 1 .. d /\ b[d - j + 1] \in Ids
      BY <1>4, <2>1, <2>2
    <2>5. Above(h) \in Seq(Ids) /\ Len(Above(h)) = d
      BY <2>2, <2>3, <2>4
    <2>6. ASSUME d >= 1 PROVE Above(h)[1] = h[n - 1]
      <3>1. 1 \in 1 .. d /\ d - 1 + 1 = d /\ d \in 1 .. d
        BY <2>2, <2>6
      <3>2. Above(h)[1] = b[d]
        BY <2>3, <3>1
      <3>3. first + d - 1 = n - 1
        BY <1>1, <1>3, <2>1
      <3>4. b[d] = h[n - 1]
        BY <1>4, <2>1, <3>1, <3>3
      <3>5. QED
        BY <3>2, <3>4
    <2>7. QED
      BY <2>1, <2>5, <2>6
  <1>6. Above(h) = <<>> <=> n = first
    BY <1>1, <1>3, <1>5, EmptySeq
  <1>7. h[n - 1] = RootId => n = 2
    <2>1. ASSUME n # 2 PROVE n - 1 \in 2 .. n
      BY <1>1, <2>1
    <2>2. QED
      BY <2>1, FlameAssumption DEF RootId, n
  <1>8. n = first <=> h[n - 1] = RootId
    <2>1. n = 2 => n - 1 = 1
      OBVIOUS
    <2>2. QED
      BY <1>1, <1>3, <1>7, <2>1
  <1>9. Above(h) # <<>> => n - first >= 1
    BY <1>1, <1>3, <1>6
  <1>10. QED
    BY <1>1, <1>5, <1>6, <1>8, <1>9 DEF n, Paths

(* A tree whose nodes count events: those of a child come by its parent, and *)
(* those of two children are different ones.                                 *)
Tallied(half, X) ==
    /\ \A q \in DOMAIN half :
          /\ q \in Paths /\ IsFiniteSet(X[q]) /\ half[q] = Cardinality(X[q])
          /\ q # <<>> => X[q] # {} /\ Front(q) \in DOMAIN half /\ X[q] \subseteq X[Front(q)]
    /\ \A q \in DOMAIN half \ {<<>>}, p \in DOMAIN half \ {<<>>} :
          p # q /\ Front(p) = Front(q) => X[p] \cap X[q] = {}

(* The children weigh no more than the parent. *)
LEMMA TalliedAddsUp ==
    ASSUME NEW half, NEW X, Tallied(half, X), NEW q \in DOMAIN half
    PROVE  Total({p \in DOMAIN half : p # <<>> /\ Front(p) = q}, half) <= half[q]
  <1> DEFINE S == {p \in DOMAIN half : p # <<>> /\ Front(p) = q}
  <1>1. S \subseteq DOMAIN half \ {<<>>} /\ \A p \in S : Front(p) = q
    OBVIOUS
  <1> HIDE DEF S
  <1>2. Parted(S, X, X[q])
    BY <1>1 DEF Tallied, Parted
  <1>3. \A p \in S : half[p] = Cardinality(X[p])
    BY <1>1 DEF Tallied
  <1>4. Total(S, half) <= Cardinality(X[q])
    BY <1>2, <1>3, TotalWithin
  <1>5. half[q] = Cardinality(X[q])
    BY DEF Tallied
  <1>6. QED
    BY <1>4, <1>5 DEF S

(* The events of a frame that has callers, by the path of its callers.       *)
AboveOf(E, f) ==
    [q \in Paths |-> {k \in taken : \E h \in Hits(f) :
                         Above(h) # <<>> /\ k \in Past(E, h) /\ Begins(q, Above(h))}]

(* Nodes none of which is above another weigh what events come by them.      *)
LEMMA NodesWeigh ==
    ASSUME NEW E, Ended(E), NEW S \in SUBSET Nodes,
           \A p \in S, q \in S : p # q => Past(E, p) \cap Past(E, q) = {}
    PROVE  Total(S, weight) = Cardinality({k \in taken : \E p \in S : k \in Past(E, p)})
  <1> DEFINE X == [p \in S |-> Past(E, p)]
  <1>1. \A p \in S : X[p] = Past(E, p)
    OBVIOUS
  <1>2. \A p \in S : /\ Past(E, p) # {} /\ Past(E, p) \subseteq taken
                    /\ weight[p] = Cardinality(Past(E, p))
    BY DEF Ended, Past
  <1>3. IsFiniteSet(taken)
    BY DEF Ended
  <1>4. UNION {X[p] : p \in S} = {k \in taken : \E p \in S : k \in Past(E, p)}
    BY <1>1, <1>2
  <1> HIDE DEF X
  <1>5. Parted(S, X, taken) /\ \A p \in S : weight[p] = Cardinality(X[p])
    BY <1>1, <1>2, <1>3 DEF Parted
  <1>6. Total(S, weight) = Cardinality(UNION {X[p] : p \in S})
    BY <1>5, TotalParts
  <1>7. QED
    BY <1>4, <1>6

(* Such as hits. *)
LEMMA HitsWeigh ==
    ASSUME NEW E, Ended(E), NEW f \in Frames, NEW S \in SUBSET Hits(f)
    PROVE  Total(S, weight) = Cardinality({k \in taken : \E h \in S : k \in Past(E, h)})
  <1>1. S \in SUBSET Nodes
    BY HitsAre
  <1>2. \A h \in S, g \in S : h # g => Past(E, h) \cap Past(E, g) = {}
    <2> SUFFICES ASSUME NEW h \in S, NEW g \in S, NEW k, k \in Past(E, h), k \in Past(E, g)
                 PROVE  h = g
      OBVIOUS
    <2>1. k \in taken /\ h \in Hits(f) /\ g \in Hits(f)
      BY DEF Past
    <2>2. QED
      BY <2>1, HitOnce
  <1>3. QED
    BY <1>1, <1>2, NodesWeigh

(* What is above a hit. *)
LEMMA AboveHit ==
    ASSUME NEW E, Ended(E), NEW f \in Frames, NEW h \in Hits(f)
    PROVE  /\ Above(h) \in Paths
           /\ Above(h) = <<>> <=> h[Len(h) - 1] = RootId
           /\ Above(h) # <<>> => Len(Above(h)) >= 1 /\ Above(h)[1] = h[Len(h) - 1]
           /\ Past(E, h) # {}
  <1>1. PICK k : k \in Past(E, h)
    BY HitsAre DEF Ended
  <1>2. /\ h \in Paths /\ Len(h) >= 2 /\ h[1] \in Nat
        /\ \A x \in 2 .. Len(h) : h[x] \in Frames
    BY <1>1, HitIs
  <1>3. QED
    BY <1>1, <1>2, AboveIs

(* The tree of callers: its nodes are the beginnings of the paths above hits.*)
LEMMA CallersAre ==
    ASSUME NEW E, Ended(E), NEW f \in Frames
    PROVE  /\ DOMAIN CallerTree(Hits(f)) =
                {q \in Paths : q = <<>> \/ \E h \in Hits(f) : Above(h) # <<>> /\ Begins(q, Above(h))}
           /\ \A q \in DOMAIN CallerTree(Hits(f)) :
                 CallerTree(Hits(f))[q] = Cardinality(AboveOf(E, f)[q])
  <1> DEFINE called == {h \in Hits(f) : Above(h) # <<>>}
             paths == UNION {Prefixes(Above(h)) : h \in called}
             half == CallerTree(Hits(f))
  <1>1. half = [q \in paths \cup {<<>>} |->
                  Total({h \in called : IsPrefix(q, Above(h))}, weight)]
    BY DEF CallerTree
  <1>2. \A h \in called : h \in Hits(f) /\ Above(h) # <<>> /\ Above(h) \in Seq(Ids)
    BY AboveHit DEF Paths
  <1>3. <<>> \in Paths /\ \A h \in called : Begins(<<>>, Above(h))
    BY <1>2 DEF Paths, Begins
  <1>4. \A h \in called : \A q \in Prefixes(Above(h)) : q \in Paths
    <2> SUFFICES ASSUME NEW h \in called, NEW q \in Prefixes(Above(h)) PROVE q \in Paths
      OBVIOUS
    <2>1. PICK i \in 0 .. Len(Above(h)) : q = SubSeq(Above(h), 1, i)
      BY DEF Prefixes
    <2> HIDE DEF called
    <2>2. QED
      BY <1>2, <2>1, BeginningIs DEF Paths
  <1>5. \A h \in called : \A q \in Paths :
           /\ IsPrefix(q, Above(h)) <=> Begins(q, Above(h))
           /\ q \in Prefixes(Above(h)) <=> Begins(q, Above(h))
    BY <1>2, PrefixIs DEF Paths
  <1>6. paths \cup {<<>>} = {q \in Paths : q = <<>> \/ \E h \in called : Begins(q, Above(h))}
    <2> HIDE DEF called
    <2>1. QED
      BY <1>3, <1>4, <1>5
  <1>7. ASSUME NEW q \in paths \cup {<<>>} PROVE half[q] = Cardinality(AboveOf(E, f)[q])
    <2> DEFINE S == {h \in called : IsPrefix(q, Above(h))}
    <2>1. q \in Paths
      BY <1>6
    <2>2. S = {h \in Hits(f) : Above(h) # <<>> /\ Begins(q, Above(h))}
      BY <1>5, <2>1
    <2>3. half[q] = Total(S, weight)
      BY <1>1
    <2> HIDE DEF S, half
    <2>4. S \in SUBSET Hits(f)
      BY <2>2
    <2>5. Total(S, weight) = Cardinality({k \in taken : \E h \in S : k \in Past(E, h)})
      BY <2>4, HitsWeigh
    <2>6. {k \in taken : \E h \in S : k \in Past(E, h)} = AboveOf(E, f)[q]
      BY <2>1, <2>2 DEF AboveOf
    <2>7. QED
      BY <2>3, <2>5, <2>6
  <1>8. DOMAIN half = paths \cup {<<>>}
    BY <1>1
  <1> HIDE DEF half, paths
  <1>9. QED
    BY <1>6, <1>7, <1>8 DEF half

(* It weighs the events above hits, ... *)
LEMMA CallersTallied ==
    ASSUME NEW E, Ended(E), NEW f \in Frames
    PROVE  Tallied(CallerTree(Hits(f)), AboveOf(E, f))
  <1> DEFINE half == CallerTree(Hits(f))
             X == AboveOf(E, f)
             H(q, k) == \E h \in Hits(f) :
                           Above(h) # <<>> /\ k \in Past(E, h) /\ Begins(q, Above(h))
  <1>1. /\ DOMAIN half = {q \in Paths : q = <<>> \/
                            \E h \in Hits(f) : Above(h) # <<>> /\ Begins(q, Above(h))}
        /\ \A q \in DOMAIN half : half[q] = Cardinality(X[q])
    BY CallersAre
  <1>2. \A q \in Paths : X[q] = {k \in taken : H(q, k)}
    BY DEF AboveOf
  <1>3. \A h \in Hits(f) : Above(h) \in Seq(Ids) /\ Past(E, h) # {} /\ Past(E, h) \subseteq taken
    BY AboveHit DEF Paths, Past
  <1> HIDE DEF half, X
  <1>4. ASSUME NEW q \in Paths, q # <<>>
        PROVE  /\ Front(q) \in Seq(Ids) /\ Begins(Front(q), q) /\ q \in Seq(Ids)
               /\ Len(Front(q)) = Len(q) - 1 /\ Len(q) \in Nat
    BY <1>4, FrontBegins DEF Paths
  <1>5. ASSUME NEW q \in DOMAIN half, q # <<>>
        PROVE  X[q] # {} /\ Front(q) \in DOMAIN half /\ X[q] \subseteq X[Front(q)]
    <2>1. q \in Paths
      BY <1>1
    <2>2. \A h \in Hits(f) : Begins(q, Above(h)) => Begins(Front(q), Above(h))
      BY <1>3, <1>4, <1>5, <2>1, BeginsBefore
    <2>3. Front(q) \in Paths
      BY <1>4, <1>5, <2>1 DEF Paths
    <2>4. X[q] # {}
      BY <1>1, <1>2, <1>3, <1>5, <2>1
    <2>5. Front(q) \in DOMAIN half
      BY <1>1, <1>5, <2>2, <2>3
    <2>6. X[q] \subseteq X[Front(q)]
      BY <1>2, <2>1, <2>2, <2>3
    <2>7. QED
      BY <2>4, <2>5, <2>6
  <1>6. ASSUME NEW q \in DOMAIN half \ {<<>>}, NEW p \in DOMAIN half \ {<<>>},
               Front(p) = Front(q), NEW k, k \in X[p], k \in X[q]
        PROVE  p = q
    <2>1. p \in Paths /\ q \in Paths
      BY <1>1
    <2>2. k \in taken /\ H(p, k) /\ H(q, k)
      BY <1>2, <1>6, <2>1
    <2>3. PICK h \in Hits(f) : k \in Past(E, h) /\ Begins(p, Above(h))
      BY <2>2
    <2>4. PICK g \in Hits(f) : k \in Past(E, g) /\ Begins(q, Above(g))
      BY <2>2
    <2>5. h = g
      BY <2>2, <2>3, <2>4, HitOnce
    <2>6. Len(p) = Len(q) /\ p \in Seq(Ids) /\ q \in Seq(Ids)
      BY <1>4, <1>6, <2>1
    <2>7. Begins(p, Above(h)) /\ Begins(q, Above(h)) /\ Above(h) \in Seq(Ids)
      BY <1>3, <2>3, <2>4, <2>5
    <2>8. QED
      BY <2>6, <2>7, BeginsBefore
  <1>7. \A q \in DOMAIN half : q \in Paths /\ IsFiniteSet(X[q])
    <2> SUFFICES ASSUME NEW q \in DOMAIN half PROVE q \in Paths /\ IsFiniteSet(X[q])
      OBVIOUS
    <2>1. q \in Paths
      BY <1>1
    <2>2. X[q] \subseteq taken /\ IsFiniteSet(taken)
      BY <1>2, <2>1 DEF Ended
    <2>3. QED
      BY <2>1, <2>2, FS_Subset
  <1>8. Tallied(half, X)
    BY <1>1, <1>5, <1>6, <1>7 DEF Tallied
  <1>9. QED
    BY <1>8 DEF half, X

(* What comes after n places of a path. *)
ComesNext(e, n, q) == n + Len(q) <= Len(e) /\ \A i \in 1 .. Len(q) : q[i] = e[n + i]

(* Who comes by one path and then another. *)
LEMMA AfterIs ==
    ASSUME NEW S, NEW h \in Seq(S), NEW q \in Seq(S), NEW e \in Seq(S)
    PROVE  /\ h \o q \in Seq(S) /\ Len(h \o q) = Len(h) + Len(q) /\ Begins(h, h \o q)
           /\ Begins(h \o q, e) <=> Begins(h, e) /\ ComesNext(e, Len(h), q)
  <1> DEFINE p == h \o q
             a == Len(h)
             b == Len(q)
  <1>1. a \in Nat /\ b \in Nat /\ Len(e) \in Nat
    OBVIOUS
  <1>2. /\ p \in Seq(S) /\ Len(p) = a + b
        /\ \A i \in 1 .. a + b : p[i] = IF i <= a THEN h[i] ELSE q[i - a]
    BY ConcatProperties
  <1> HIDE DEF p, a, b
  <1>3. \A i \in 1 .. a : i \in 1 .. a + b /\ p[i] = h[i]
    BY <1>1, <1>2
  <1>4. \A i \in 1 .. b : a + i \in 1 .. a + b /\ p[a + i] = q[i]
    <2> SUFFICES ASSUME NEW i \in 1 .. b PROVE a + i \in 1 .. a + b /\ p[a + i] = q[i]
      OBVIOUS
    <2>1. a + i \in 1 .. a + b /\ ~(a + i <= a) /\ (a + i) - a = i
      BY <1>1
    <2>2. QED
      BY <1>2, <2>1
  <1>5. Begins(h, p)
    BY <1>1, <1>2, <1>3 DEF Begins, a
  <1>6. ASSUME Begins(p, e) PROVE Begins(h, e) /\ ComesNext(e, a, q)
    <2>1. a + b <= Len(e) /\ \A i \in 1 .. a + b : p[i] = e[i]
      BY <1>2, <1>6 DEF Begins
    <2>2. Begins(h, e)
      BY <1>1, <1>3, <2>1 DEF Begins, a
    <2>3. ComesNext(e, a, q)
      BY <1>4, <2>1 DEF ComesNext, b
    <2>4. QED
      BY <2>2, <2>3
  <1>7. ASSUME Begins(h, e), ComesNext(e, a, q) PROVE Begins(p, e)
    <2>1. a + b <= Len(e) /\ \A i \in 1 .. b : q[i] = e[a + i]
      BY <1>7 DEF ComesNext, b
    <2>2. \A i \in 1 .. a : h[i] = e[i]
      BY <1>7 DEF Begins, a
    <2>3. ASSUME NEW i \in 1 .. a + b PROVE p[i] = e[i]
      <3>1. CASE i <= a
        BY <1>1, <1>2, <2>2, <3>1
      <3>2. CASE ~(i <= a)
        <4>1. PICK j \in 1 .. b : i = a + j
          <5>1. i - a \in 1 .. b /\ i = a + (i - a)
            BY <1>1, <3>2
          <5>2. QED
            BY <5>1
        <4>2. QED
          BY <1>4, <2>1, <4>1
      <3>3. QED
        BY <3>1, <3>2
    <2>4. QED
      BY <1>2, <2>1, <2>3 DEF Begins
  <1>8. QED
    BY <1>2, <1>5, <1>6, <1>7 DEF p, a, b

(* Nothing else as long comes after as many places, ... *)
LEMMA AfterSame ==
    ASSUME NEW S, NEW q \in Seq(S), NEW p \in Seq(S), NEW e, NEW n, ComesNext(e, n, q), ComesNext(e, n, p),
           Len(q) = Len(p)
    PROVE  q = p
  <1>1. \A i \in 1 .. Len(q) : q[i] = p[i]
    BY DEF ComesNext
  <1>2. QED
    BY <1>1, SeqEqual

(* ... but all its beginnings do. *)
LEMMA AfterLess ==
    ASSUME NEW S, NEW q \in Seq(S), NEW p \in Seq(S), NEW e \in Seq(S), NEW n \in Nat,
           ComesNext(e, n, q), Begins(p, q)
    PROVE  ComesNext(e, n, p)
  <1>1. Len(q) \in Nat /\ Len(p) \in Nat /\ Len(e) \in Nat
    OBVIOUS
  <1>2. QED
    BY <1>1 DEF ComesNext, Begins

(* The rest of a path. *)
LEMMA SuffixIs ==
    ASSUME NEW S, NEW h \in Seq(S), NEW p \in Seq(S), Begins(h, p)
    PROVE  /\ Suffix(p, Len(h)) \in Seq(S) /\ p = h \o Suffix(p, Len(h))
           /\ Suffix(p, Len(h)) = <<>> => p = h
  <1> DEFINE a == Len(h)
             b == Len(p)
             q == SubSeq(p, a + 1, b)
  <1>1. a \in Nat /\ b \in Nat /\ a <= b /\ \A i \in 1 .. a : h[i] = p[i]
    BY DEF Begins
  <1>2. \A i \in a + 1 .. b : p[i] \in S
    BY <1>1
  <1>3. /\ q \in Seq(S)
        /\ Len(q) = IF a + 1 <= b THEN b - (a + 1) + 1 ELSE 0
        /\ \A i \in 1 .. b - (a + 1) + 1 : q[i] = p[a + 1 + i - 1]
    <2> HIDE DEF b
    <2>1. a + 1 \in Int /\ b \in Int
      BY <1>1
    <2>2. QED
      BY <1>2, <2>1, SubSeqProperties
  <1> HIDE DEF q, a, b
  <1>4. Len(q) = b - a
    BY <1>1, <1>3
  <1>5. \A i \in 1 .. b - a : q[i] = p[a + i]
    <2>1. \A i \in 1 .. b - a : i \in 1 .. b - (a + 1) + 1 /\ a + 1 + i - 1 = a + i
      BY <1>1
    <2>2. QED
      BY <1>3, <2>1
  <1>6. /\ h \o q \in Seq(S) /\ Len(h \o q) = Len(h) + Len(q)
        /\ Begins(h \o q, p) <=> Begins(h, p) /\ ComesNext(p, Len(h), q)
    BY <1>3, AfterIs
  <1>7. ComesNext(p, a, q)
    <2>1. a + Len(q) = b
      BY <1>1, <1>4
    <2>2. a + Len(q) <= b
      BY <1>1, <2>1
    <2>3. \A i \in 1 .. Len(q) : q[i] = p[a + i]
      BY <1>4, <1>5
    <2>4. QED
      BY <2>2, <2>3 DEF ComesNext, b
  <1>8. Begins(h \o q, p) /\ Len(h \o q) = Len(p)
    BY <1>1, <1>4, <1>6, <1>7 DEF a, b
  <1>9. p = h \o q
    <2>1. Len(h \o q) >= Len(p) /\ h \o q \in Seq(S)
      BY <1>6, <1>8
    <2>2. PICK r : r = h \o q
      OBVIOUS
    <2>3. r \in Seq(S) /\ Begins(r, p) /\ Len(r) >= Len(p)
      BY <1>8, <2>1, <2>2
    <2>4. r = p
      BY <2>3, BeginsEqual
    <2>5. QED
      BY <2>2, <2>4
  <1>10. q = <<>> => p = h
    BY <1>9
  <1>11. QED
    BY <1>3, <1>9, <1>10 DEF q, a, b, Suffix

(* The events of a frame that calls something, by what is below it.          *)
BelowOf(E, f) ==
    [q \in Paths |-> {k \in taken : \E h \in Hits(f) :
                         /\ k \in Past(E, h) /\ ComesNext(E[k], Len(h), q)
                         /\ q = <<>> => Len(h) < Len(E[k])}]

(* Who comes by a node below a hit.                                          *)
LEMMA PastBelow ==
    ASSUME NEW E, Ended(E), NEW f \in Frames, NEW h \in Hits(f), NEW q \in Paths
    PROVE  /\ h \o q \in Paths /\ h \in Paths
           /\ q # <<>> => h \o q # <<>> /\ IsStrictPrefix(h, h \o q) /\ Suffix(h \o q, Len(h)) = q
           /\ \A k \in taken :
                 k \in Past(E, h \o q) <=> k \in Past(E, h) /\ ComesNext(E[k], Len(h), q)
  <1>1. h \in Seq(Ids) /\ q \in Seq(Ids) /\ \A k \in taken : E[k] \in Seq(Ids)
    BY HitsAre DEF Ended, Spread, Paths
  <1>2. h \o q \in Seq(Ids) /\ Len(h \o q) = Len(h) + Len(q) /\ Begins(h, h \o q)
    BY <1>1, AfterIs
  <1>3. \A k \in taken : Begins(h \o q, E[k]) <=> Begins(h, E[k]) /\ ComesNext(E[k], Len(h), q)
    BY <1>1, AfterIs
  <1>4. ASSUME q # <<>>
        PROVE  h \o q # <<>> /\ IsStrictPrefix(h, h \o q) /\ Suffix(h \o q, Len(h)) = q
    <2>1. Len(q) \in Nat \ {0} /\ Len(h) \in Nat
      BY <1>1, <1>4, EmptySeq
    <2>2. PICK p : p = h \o q
      OBVIOUS
    <2>3. p \in Seq(Ids) /\ Len(p) # Len(h) /\ Len(p) # 0 /\ Begins(h, p) /\ Len(h) <= Len(p)
      BY <1>2, <2>1, <2>2
    <2>4. p # h /\ p # <<>>
      BY <2>3
    <2>5. IsStrictPrefix(h, p)
      BY <1>1, <2>3, <2>4, PrefixIs DEF IsStrictPrefix
    <2>6. Suffix(p, Len(h)) = q
      <3>1. PICK r : r = Suffix(p, Len(h))
        OBVIOUS
      <3>2. r \in Seq(Ids) /\ p = h \o r
        BY <1>1, <2>3, <3>1, SuffixIs
      <3>3. Len(h \o r) = Len(h) + Len(r) /\ Len(r) \in Nat
        BY <1>1, <3>2, AfterIs
      <3>4. Len(r) = Len(q)
        BY <1>2, <2>1, <2>2, <3>2, <3>3
      <3>5. \A i \in 1 .. Len(q) : r[i] = p[Len(h) + i] /\ q[i] = p[Len(h) + i]
        <4>1. Begins(p, p)
          BY <2>3 DEF Begins
        <4>2. ComesNext(p, Len(h), r)
          BY <1>1, <2>3, <3>2, <4>1, AfterIs
        <4>3. ComesNext(p, Len(h), q)
          BY <1>1, <2>2, <2>3, <4>1, AfterIs
        <4>4. QED
          BY <3>4, <4>2, <4>3 DEF ComesNext
      <3>6. QED
        BY <1>1, <3>1, <3>2, <3>4, <3>5, SeqEqual
    <2>7. QED
      BY <2>2, <2>4, <2>5, <2>6
  <1>5. QED
    BY <1>1, <1>2, <1>3, <1>4 DEF Past, Paths

(* Where a node is one below a hit.                                          *)
LEMMA NodeBelow ==
    ASSUME NEW E, Ended(E), NEW f \in Frames, NEW h \in Hits(f), NEW p \in Nodes
    PROVE  /\ IsStrictPrefix(h, p) => /\ Suffix(p, Len(h)) \in Paths /\ Suffix(p, Len(h)) # <<>>
                                      /\ p = h \o Suffix(p, Len(h))
           /\ p \in Children(h) => /\ Begins(h, p) /\ Len(p) = Len(h) + 1
  <1>1. h \in Seq(Ids) /\ p \in Seq(Ids) /\ p # <<>>
    BY HitsAre DEF Ended, Paths
  <1>2. ASSUME IsStrictPrefix(h, p)
        PROVE  /\ Suffix(p, Len(h)) \in Paths /\ Suffix(p, Len(h)) # <<>>
               /\ p = h \o Suffix(p, Len(h))
    <2>1. Begins(h, p) /\ h # p
      BY <1>1, <1>2, PrefixIs DEF IsStrictPrefix
    <2>2. QED
      BY <1>1, <2>1, SuffixIs DEF Paths
  <1>3. ASSUME p \in Children(h) PROVE Begins(h, p) /\ Len(p) = Len(h) + 1
    <2>1. Front(p) = h
      BY <1>3 DEF Children
    <2>2. Len(Front(p)) = Len(p) - 1 /\ Begins(Front(p), p) /\ Len(p) \in Nat \ {0}
      BY <1>1, FrontBegins
    <2>3. QED
      BY <2>1, <2>2
  <1>4. QED
    BY <1>2, <1>3

(* Nodes below different hits have no events in common.                      *)
LEMMA BelowOnce ==
    ASSUME NEW E, Ended(E), NEW f \in Frames, NEW h \in Hits(f), NEW g \in Hits(f),
           NEW p, NEW q, NEW k, k \in Past(E, p), k \in Past(E, q),
           p \in Nodes, q \in Nodes, Begins(h, p), Begins(g, q)
    PROVE  h = g
  <1>1. /\ h \in Seq(Ids) /\ g \in Seq(Ids) /\ p \in Seq(Ids) /\ q \in Seq(Ids)
        /\ k \in taken /\ E[k] \in Seq(Ids) /\ Begins(p, E[k]) /\ Begins(q, E[k])
    BY HitsAre DEF Ended, Spread, Past, Paths
  <1>2. Begins(h, E[k]) /\ Begins(g, E[k])
    BY <1>1, BeginsBefore
  <1>3. QED
    BY <1>1, <1>2, HitOnce DEF Past

(* The nodes below hits by one path. *)
LEMMA PathWeighs ==
    ASSUME NEW E, Ended(E), NEW f \in Frames, NEW q \in Paths, q # <<>>
    PROVE  Total({p \in Nodes : \E h \in Hits(f) : p = h \o q}, weight)
             = Cardinality(BelowOf(E, f)[q])
  <1> DEFINE S == {p \in Nodes : \E h \in Hits(f) : p = h \o q}
  <1>1. \A p \in S : p \in Nodes /\ \E h \in Hits(f) : p = h \o q
    OBVIOUS
  <1>2. \A h \in Hits(f) : h \o q \in Nodes => h \o q \in S
    OBVIOUS
  <1> HIDE DEF S
  <1>3. \A h \in Hits(f) :
           /\ h \o q \in Paths /\ h \o q # <<>> /\ Begins(h, h \o q)
           /\ \A k \in taken :
                 k \in Past(E, h \o q) <=> k \in Past(E, h) /\ ComesNext(E[k], Len(h), q)
    <2> SUFFICES ASSUME NEW h \in Hits(f)
                 PROVE  /\ h \o q \in Paths /\ h \o q # <<>> /\ Begins(h, h \o q)
                        /\ \A k \in taken :
                              k \in Past(E, h \o q) <=> k \in Past(E, h) /\ ComesNext(E[k], Len(h), q)
      OBVIOUS
    <2>1. /\ h \o q \in Paths /\ h \in Paths /\ h \o q # <<>>
          /\ \A k \in taken :
                k \in Past(E, h \o q) <=> k \in Past(E, h) /\ ComesNext(E[k], Len(h), q)
      BY PastBelow
    <2>2. Begins(h, h \o q)
      BY <2>1, AfterIs DEF Paths
    <2>3. QED
      BY <2>1, <2>2
  <1>4. ASSUME NEW p \in S, NEW r \in S, NEW k, k \in Past(E, p), k \in Past(E, r)
        PROVE  p = r
    <2>1. PICK h \in Hits(f) : p = h \o q
      BY <1>1
    <2>2. PICK g \in Hits(f) : r = g \o q
      BY <1>1
    <2>3. p \in Nodes /\ r \in Nodes /\ Begins(h, p) /\ Begins(g, r)
      BY <1>1, <1>3, <2>1, <2>2
    <2>4. h = g
      BY <1>4, <2>3, BelowOnce
    <2>5. QED
      BY <2>1, <2>2, <2>4
  <1>5. S \in SUBSET Nodes /\ \A p \in S, r \in S : p # r => Past(E, p) \cap Past(E, r) = {}
    BY <1>1, <1>4
  <1>6. Total(S, weight) = Cardinality({k \in taken : \E p \in S : k \in Past(E, p)})
    BY <1>5, NodesWeigh
  <1>7. BelowOf(E, f)[q] =
          {k \in taken : \E h \in Hits(f) : k \in Past(E, h) /\ ComesNext(E[k], Len(h), q)}
    BY DEF BelowOf
  <1>8. \A h \in Hits(f) : \A k \in taken : k \in Past(E, h \o q) => h \o q \in S
    BY <1>2, <1>3 DEF Ended
  <1>9. {k \in taken : \E p \in S : k \in Past(E, p)} = BelowOf(E, f)[q]
    BY <1>1, <1>3, <1>7, <1>8
  <1>10. QED
    BY <1>6, <1>9 DEF S

(* What hits call at all. *)
LEMMA ChildrenWeigh ==
    ASSUME NEW E, Ended(E), NEW f \in Frames
    PROVE  Total(UNION {Children(h) : h \in Hits(f)}, weight)
             = Cardinality(BelowOf(E, f)[<<>>])
  <1> DEFINE S == UNION {Children(h) : h \in Hits(f)}
  <1>1. \A p \in S : p \in Nodes /\ \E h \in Hits(f) : p \in Children(h)
    BY DEF Children
  <1>2. \A h \in Hits(f) : \A p \in Children(h) : p \in S
    OBVIOUS
  <1> HIDE DEF S
  <1>3. \A h \in Hits(f) : \A p \in Children(h) :
           p \in Nodes /\ p \in Seq(Ids) /\ Begins(h, p) /\ Len(p) = Len(h) + 1
    BY NodeBelow DEF Children, Ended, Paths
  <1>4. ASSUME NEW p \in S, NEW r \in S, NEW k, k \in Past(E, p), k \in Past(E, r)
        PROVE  p = r
    <2>1. PICK h \in Hits(f) : p \in Children(h)
      BY <1>1
    <2>2. PICK g \in Hits(f) : r \in Children(g)
      BY <1>1
    <2>3. /\ p \in Nodes /\ r \in Nodes /\ p \in Seq(Ids) /\ r \in Seq(Ids)
          /\ Begins(h, p) /\ Begins(g, r)
          /\ Len(p) = Len(h) + 1 /\ Len(r) = Len(g) + 1
      BY <1>3, <2>1, <2>2
    <2>4. h = g
      BY <1>4, <2>3, BelowOnce
    <2>5. E[k] \in Seq(Ids) /\ Begins(p, E[k]) /\ Begins(r, E[k])
      BY <1>4 DEF Past, Ended, Spread, Paths
    <2>6. QED
      BY <2>3, <2>4, <2>5, BeginsBefore
  <1>5. S \in SUBSET Nodes /\ \A p \in S, r \in S : p # r => Past(E, p) \cap Past(E, r) = {}
    BY <1>1, <1>4
  <1>6. Total(S, weight) = Cardinality({k \in taken : \E p \in S : k \in Past(E, p)})
    BY <1>5, NodesWeigh
  <1>7. \A h \in Hits(f) : h \in Seq(Ids) /\ Len(h) \in Nat
    <2>1. \A h \in Hits(f) : h \in Seq(Ids)
      BY HitsAre DEF Ended, Paths
    <2>2. QED
      BY <2>1
  <1>8. \A k \in taken : E[k] \in Seq(Ids) /\ Len(E[k]) \in Nat
    BY DEF Ended, Spread, Paths
  <1>9. \A h \in Hits(f) : \A k \in taken :
           ComesNext(E[k], Len(h), <<>>) <=> Len(h) <= Len(E[k])
    BY <1>7 DEF ComesNext
  <1>10. BelowOf(E, f)[<<>>] =
           {k \in taken : \E h \in Hits(f) : k \in Past(E, h) /\ Len(h) < Len(E[k])}
    <2>1. <<>> \in Paths
      BY DEF Paths
    <2>2. \A h \in Hits(f) : \A k \in taken : Len(h) < Len(E[k]) => Len(h) <= Len(E[k])
      BY <1>7, <1>8
    <2>3. QED
      BY <1>9, <2>1, <2>2 DEF BelowOf
  <1>11. ASSUME NEW h \in Hits(f), NEW p \in Children(h), NEW k \in Past(E, p)
         PROVE  k \in Past(E, h) /\ Len(h) < Len(E[k])
    <2>1. k \in taken /\ Begins(p, E[k])
      BY DEF Past
    <2>2. Begins(h, E[k]) /\ Len(p) <= Len(E[k]) /\ Len(p) = Len(h) + 1
      <3>1. Begins(h, p) /\ h \in Seq(Ids) /\ p \in Seq(Ids) /\ E[k] \in Seq(Ids)
        BY <1>3, <1>7, <1>8, <2>1
      <3>2. Begins(h, E[k])
        BY <2>1, <3>1, BeginsBefore
      <3>3. QED
        BY <1>3, <2>1, <3>2 DEF Begins
    <2>3. Len(h) < Len(E[k])
      BY <1>7, <1>8, <2>1, <2>2
    <2>4. QED
      BY <2>1, <2>2, <2>3 DEF Past
  <1>12. ASSUME NEW h \in Hits(f), NEW k \in taken, k \in Past(E, h), Len(h) < Len(E[k])
         PROVE  \E p \in Children(h) : k \in Past(E, p)
    <2> DEFINE p == SubSeq(E[k], 1, Len(h) + 1)
    <2>1. Len(h) + 1 \in 0 .. Len(E[k]) /\ Begins(h, E[k]) /\ Len(h) + 1 # 0
      BY <1>7, <1>8, <1>12 DEF Past
    <2>2. p \in Seq(Ids) /\ Len(p) = Len(h) + 1 /\ Begins(p, E[k])
      BY <1>8, <2>1, BeginningIs
    <2> HIDE DEF p
    <2>3. p # <<>> /\ k \in Past(E, p)
      BY <2>1, <2>2 DEF Past
    <2>4. p \in Nodes
      BY <2>2, <2>3 DEF Ended, Paths
    <2>5. Front(p) \in Seq(Ids) /\ Len(Front(p)) = Len(p) - 1 /\ Begins(Front(p), p)
      BY <2>2, <2>3, FrontBegins
    <2>6. Begins(Front(p), E[k]) /\ Len(Front(p)) = Len(h)
      BY <1>7, <1>8, <2>2, <2>5, BeginsBefore
    <2>7. Front(p) = h
      BY <1>7, <1>8, <2>1, <2>5, <2>6, BeginsBefore
    <2>8. QED
      BY <2>3, <2>4, <2>7 DEF Children
  <1>13. {k \in taken : \E p \in S : k \in Past(E, p)} = BelowOf(E, f)[<<>>]
    BY <1>1, <1>2, <1>10, <1>11, <1>12
  <1>14. QED
    BY <1>6, <1>13 DEF S

(* The tree of callees: its nodes are what is below hits.                    *)
LEMMA CalleesAre ==
    ASSUME NEW E, Ended(E), NEW f \in Frames
    PROVE  /\ DOMAIN CalleeTree(Hits(f)) =
                {q \in Paths : q = <<>> \/ \E h \in Hits(f) : h \o q \in Nodes}
           /\ \A q \in DOMAIN CalleeTree(Hits(f)) :
                 CalleeTree(Hits(f))[q] = Cardinality(BelowOf(E, f)[q])
  <1> DEFINE below(h) == {p \in Nodes : IsStrictPrefix(h, p)}
             paths == UNION {{Suffix(p, Len(h)) : p \in below(h)} : h \in Hits(f)}
             half == CalleeTree(Hits(f))
  <1>1. half = [q \in paths \cup {<<>>} |->
                  IF q = <<>> THEN Total(UNION {Children(h) : h \in Hits(f)}, weight)
                  ELSE Total({p \in Nodes : \E h \in Hits(f) : p = h \o q}, weight)]
    BY DEF CalleeTree
  <1>2. ASSUME NEW q \in paths PROVE q \in Paths /\ \E h \in Hits(f) : h \o q \in Nodes
    <2>1. PICK h \in Hits(f), p \in Nodes : IsStrictPrefix(h, p) /\ q = Suffix(p, Len(h))
      OBVIOUS
    <2> HIDE DEF paths
    <2>2. QED
      BY <2>1, NodeBelow
  <1>3. ASSUME NEW q \in Paths, q # <<>>, NEW h \in Hits(f), h \o q \in Nodes
        PROVE  q \in paths
    <2>1. IsStrictPrefix(h, h \o q) /\ Suffix(h \o q, Len(h)) = q
      BY <1>3, PastBelow
    <2>2. QED
      BY <1>3, <2>1
  <1>4. DOMAIN half = paths \cup {<<>>}
    BY <1>1
  <1> HIDE DEF paths
  <1>5. <<>> \in Paths
    BY DEF Paths
  <1>6. DOMAIN half = {q \in Paths : q = <<>> \/ \E h \in Hits(f) : h \o q \in Nodes}
    <2> HIDE DEF half
    <2>1. QED
      BY <1>2, <1>3, <1>4, <1>5
  <1>7. ASSUME NEW q \in DOMAIN half PROVE half[q] = Cardinality(BelowOf(E, f)[q])
    <2>1. q \in Paths /\ q \in paths \cup {<<>>}
      BY <1>2, <1>4, <1>5, <1>7
    <2>2. CASE q = <<>>
      <3>1. half[q] = Total(UNION {Children(h) : h \in Hits(f)}, weight)
        BY <1>1, <2>1, <2>2
      <3>2. QED
        BY <2>2, <3>1, ChildrenWeigh
    <2>3. CASE q # <<>>
      <3>1. half[q] = Total({p \in Nodes : \E h \in Hits(f) : p = h \o q}, weight)
        BY <1>1, <2>1, <2>3
      <3>2. QED
        BY <2>1, <2>3, <3>1, PathWeighs
    <2>4. QED
      BY <2>2, <2>3
  <1> HIDE DEF half
  <1>8. QED
    BY <1>6, <1>7 DEF half

(* It weighs the events below hits, ... *)
LEMMA CalleesTallied ==
    ASSUME NEW E, Ended(E), NEW f \in Frames
    PROVE  Tallied(CalleeTree(Hits(f)), BelowOf(E, f))
  <1> DEFINE half == CalleeTree(Hits(f))
             X == BelowOf(E, f)
  <1>1. /\ DOMAIN half = {q \in Paths : q = <<>> \/ \E h \in Hits(f) : h \o q \in Nodes}
        /\ \A q \in DOMAIN half : half[q] = Cardinality(X[q])
    BY CalleesAre
  <1>2. \A q \in Paths :
           X[q] = {k \in taken : \E h \in Hits(f) :
                     /\ k \in Past(E, h) /\ ComesNext(E[k], Len(h), q)
                     /\ q = <<>> => Len(h) < Len(E[k])}
    BY DEF BelowOf
  <1> HIDE DEF half, X
  <1>3. ASSUME NEW h \in Hits(f), NEW q \in Paths
        PROVE  /\ h \in Seq(Ids) /\ h \o q \in Paths /\ (q # <<>> => h \o q # <<>>)
               /\ \A k \in taken :
                     k \in Past(E, h \o q) <=> k \in Past(E, h) /\ ComesNext(E[k], Len(h), q)
    BY PastBelow DEF Paths
  <1>4. ASSUME NEW q \in Paths, q # <<>>
        PROVE  /\ Front(q) \in Seq(Ids) /\ Begins(Front(q), q) /\ q \in Seq(Ids)
               /\ Len(Front(q)) = Len(q) - 1 /\ Len(q) \in Nat \ {0}
    BY <1>4, FrontBegins DEF Paths
  <1>5. \A k \in taken : E[k] \in Seq(Ids) /\ Len(E[k]) \in Nat
    BY DEF Ended, Spread, Paths
  <1>6. ASSUME NEW q \in Paths, q # <<>>, NEW h \in Hits(f), NEW k \in taken,
               ComesNext(E[k], Len(h), q)
        PROVE  ComesNext(E[k], Len(h), Front(q)) /\ Len(h) < Len(E[k])
    <2>1. h \in Seq(Ids) /\ Len(h) \in Nat
      BY <1>3, <1>6
    <2>2. ComesNext(E[k], Len(h), Front(q))
      BY <1>4, <1>5, <1>6, <2>1, AfterLess
    <2>3. Len(h) + Len(q) <= Len(E[k])
      BY <1>6 DEF ComesNext
    <2>4. QED
      BY <1>4, <1>5, <1>6, <2>1, <2>2, <2>3
  <1>7. ASSUME NEW q \in DOMAIN half, q # <<>>
        PROVE  X[q] # {} /\ Front(q) \in DOMAIN half /\ X[q] \subseteq X[Front(q)]
    <2>1. q \in Paths /\ Front(q) \in Paths
      BY <1>1, <1>4, <1>7 DEF Paths
    <2>2. PICK h \in Hits(f) : h \o q \in Nodes
      BY <1>1, <1>7
    <2>3. PICK k \in taken : k \in Past(E, h \o q)
      BY <2>2 DEF Ended, Past
    <2>4. k \in Past(E, h) /\ ComesNext(E[k], Len(h), q)
      BY <1>3, <2>1, <2>3
    <2>5. k \in X[q]
      BY <1>2, <1>7, <2>1, <2>4
    <2>6. X[q] \subseteq X[Front(q)]
      BY <1>2, <1>6, <1>7, <2>1
    <2>7. Front(q) # <<>> => h \o Front(q) \in Nodes
      <3>1. ComesNext(E[k], Len(h), Front(q))
        BY <1>6, <1>7, <2>1, <2>4
      <3>2. k \in Past(E, h \o Front(q)) /\ h \o Front(q) \in Paths
            /\ (Front(q) # <<>> => h \o Front(q) # <<>>)
        BY <1>3, <2>1, <2>4, <3>1
      <3>3. QED
        BY <3>2 DEF Ended
    <2>8. Front(q) \in DOMAIN half
      BY <1>1, <2>1, <2>7
    <2>9. QED
      BY <2>5, <2>6, <2>8
  <1>8. ASSUME NEW q \in DOMAIN half \ {<<>>}, NEW p \in DOMAIN half \ {<<>>},
               Front(p) = Front(q), NEW k, k \in X[p], k \in X[q]
        PROVE  p = q
    <2>1. p \in Paths /\ q \in Paths
      BY <1>1
    <2>2. PICK h \in Hits(f) : k \in taken /\ k \in Past(E, h) /\ ComesNext(E[k], Len(h), p)
      BY <1>2, <1>8, <2>1
    <2>3. PICK g \in Hits(f) : k \in taken /\ k \in Past(E, g) /\ ComesNext(E[k], Len(g), q)
      BY <1>2, <1>8, <2>1
    <2>4. h = g
      BY <2>2, <2>3, HitOnce
    <2>5. Len(p) = Len(q) /\ p \in Seq(Ids) /\ q \in Seq(Ids)
      BY <1>4, <1>8, <2>1
    <2>6. QED
      BY <2>2, <2>3, <2>4, <2>5, AfterSame
  <1>9. \A q \in DOMAIN half : q \in Paths /\ IsFiniteSet(X[q])
    <2> SUFFICES ASSUME NEW q \in DOMAIN half PROVE q \in Paths /\ IsFiniteSet(X[q])
      OBVIOUS
    <2>1. q \in Paths
      BY <1>1
    <2>2. X[q] \subseteq taken /\ IsFiniteSet(taken)
      BY <1>2, <2>1 DEF Ended
    <2>3. QED
      BY <2>1, <2>2, FS_Subset
  <1>10. Tallied(half, X)
    BY <1>1, <1>7, <1>8, <1>9 DEF Tallied
  <1>11. QED
    BY <1>10 DEF half, X

(* Event k and its hit: the same caller above, and the same callee below.    *)
LEMMA HitCallees ==
    ASSUME NEW E, Ended(E), NEW f \in Frames, NEW h \in Hits(f), NEW k \in Past(E, h), NEW g
    PROVE  (\E o : OtherAt(E[k], Len(h), o, f) /\ E[k][o] = g) <=> g \in Callees(k, f)
  <1>1. k \in taken /\ E[k] \in Seq(Ids) /\ FirstAt(E[k], Len(h), f) /\ k \in Having(f)
    BY HitOn, HitIs DEF Paths
  <1>2. PICK m : Spread(E[k], Calls(k), m)
    BY <1>1 DEF Ended
  <1> DEFINE i == Top(k, f)
  <1>3. FirstAt(Calls(k), i, f)
    BY <1>1, TopIs
  <1>4. FirstAt(E[k], m[i - 1] + 1, f)
    BY <1>2, <1>3, FirstSpread
  <1>5. Len(h) = m[i - 1] + 1
    BY <1>1, <1>4, FirstOnce
  <1>6. (\E o : OtherAt(E[k], m[i - 1] + 1, o, f) /\ E[k][o] = g)
           <=> (\E j : OtherAt(Calls(k), i, j, f) /\ Calls(k)[j] = g)
    BY <1>2, <1>3, OtherSpread
  <1>7. g \in Callees(k, f) <=> (\E j : OtherAt(Calls(k), i, j, f) /\ Calls(k)[j] = g)
    BY DEF Callees, OtherAt
  <1>8. QED
    BY <1>5, <1>6, <1>7

(* The events of a caller. *)
Called(f, g) == {k \in Having(f) : Caller(k, f) = g}

(* ... that is, those of every caller. *)
LEMMA CallersCounted ==
    ASSUME NEW E, Ended(E), NEW f \in Frames
    PROVE  /\ CallerTree(Hits(f))[<<>>] = Cardinality(Having(f) \ Called(f, RootId))
           /\ \A g \in Frames \cup (1 .. Len(comms) - 1) :
                 (IF <<g>> \in DOMAIN CallerTree(Hits(f)) THEN CallerTree(Hits(f))[<<g>>] ELSE 0)
                    = Cardinality(Called(f, g))
  <1> DEFINE half == CallerTree(Hits(f))
             X == AboveOf(E, f)
  <1>1. /\ DOMAIN half = {q \in Paths : q = <<>> \/ \E h \in Hits(f) :
                                           Above(h) # <<>> /\ Begins(q, Above(h))}
        /\ \A q \in DOMAIN half : half[q] = Cardinality(X[q])
    BY CallersAre
  <1>2. \A q \in Paths :
           X[q] = {k \in taken : \E h \in Hits(f) :
                      Above(h) # <<>> /\ k \in Past(E, h) /\ Begins(q, Above(h))}
    BY DEF AboveOf
  <1> HIDE DEF half, X
  <1>3. \A h \in Hits(f) : \A k \in Past(E, h) :
           /\ k \in Having(f)
           /\ Above(h) = <<>> <=> Caller(k, f) = RootId
           /\ Above(h) # <<>> => Len(Above(h)) >= 1 /\ Above(h)[1] = Caller(k, f)
    BY AboveHit, HitIs
  <1>4. \A k \in Having(f) : k \in taken /\ \E h \in Hits(f) : k \in Past(E, h)
    BY HitOf DEF Having
  <1>5. \A h \in Hits(f) : Above(h) \in Seq(Ids) /\ Len(Above(h)) \in Nat /\ Past(E, h) # {}
                           /\ Past(E, h) \subseteq taken
    <2>1. \A h \in Hits(f) : Above(h) \in Seq(Ids) /\ Past(E, h) # {} /\ Past(E, h) \subseteq taken
      BY AboveHit DEF Paths, Past
    <2>2. QED
      BY <2>1
  <1>6. half[<<>>] = Cardinality(Having(f) \ Called(f, RootId))
    <2>1. <<>> \in Paths /\ <<>> \in DOMAIN half
      BY <1>1 DEF Paths
    <2>2. \A h \in Hits(f) : Begins(<<>>, Above(h))
      BY <1>5 DEF Begins
    <2>3. X[<<>>] = {k \in taken : \E h \in Hits(f) : Above(h) # <<>> /\ k \in Past(E, h)}
      BY <1>2, <2>1, <2>2
    <2>4. X[<<>>] = Having(f) \ Called(f, RootId)
      BY <1>3, <1>4, <2>3 DEF Called
    <2>5. QED
      BY <1>1, <2>1, <2>4
  <1>7. ASSUME NEW g \in Frames \cup (1 .. Len(comms) - 1)
        PROVE  (IF <<g>> \in DOMAIN half THEN half[<<g>>] ELSE 0) = Cardinality(Called(f, g))
    <2>1. g # RootId /\ g \in Ids
      BY FlameAssumption DEF RootId, Ids
    <2>2. <<g>> \in Paths /\ <<g>> # <<>> /\ Len(<<g>>) = 1 /\ <<g>>[1] = g
      BY <2>1 DEF Paths
    <2>3. \A h \in Hits(f) : Begins(<<g>>, Above(h)) <=> Len(Above(h)) >= 1 /\ Above(h)[1] = g
      <3>1. PICK q : q = <<g>>
        OBVIOUS
      <3>2. Len(q) = 1 /\ q[1] = g
        BY <2>2, <3>1
      <3>3. 1 .. 1 = {1}
        OBVIOUS
      <3>4. \A h \in Hits(f) : Begins(q, Above(h)) <=> Len(Above(h)) >= 1 /\ Above(h)[1] = g
        BY <1>5, <3>2, <3>3 DEF Begins
      <3>5. QED
        BY <3>1, <3>4
    <2>4. X[<<g>>] = Called(f, g)
      <3>1. \A k \in X[<<g>>] : k \in Called(f, g)
        BY <1>2, <1>3, <2>2, <2>3 DEF Called
      <3>2. ASSUME NEW k \in Called(f, g) PROVE k \in X[<<g>>]
        <4>1. k \in Having(f) /\ Caller(k, f) = g /\ k \in taken
          BY <1>4 DEF Called
        <4>2. PICK h \in Hits(f) : k \in Past(E, h)
          BY <1>4, <4>1
        <4>3. Above(h) # <<>> /\ Begins(<<g>>, Above(h))
          BY <1>3, <2>1, <2>3, <4>1, <4>2
        <4>4. QED
          BY <1>2, <2>2, <4>1, <4>2, <4>3
      <3>3. QED
        BY <3>1, <3>2
    <2>5. <<g>> \notin DOMAIN half => X[<<g>>] = {}
      BY <1>1, <1>2, <2>2
    <2>6. CASE <<g>> \in DOMAIN half
      BY <1>1, <2>4, <2>6
    <2>7. CASE <<g>> \notin DOMAIN half
      BY <2>4, <2>5, <2>7, FS_EmptySet
    <2>8. QED
      BY <2>6, <2>7
  <1>8. QED
    BY <1>6, <1>7 DEF half

(* A path of f's alone, up to g, its end. *)
IsRunTo(q, f, g) == q # <<>> /\ Last(q) = g /\ \A i \in 1 .. Len(q) - 1 : q[i] = f

(* A run below a hit ends at the first frame other than the hit's, ... *)
LEMMA RunEnds ==
    ASSUME NEW S, NEW e \in Seq(S), NEW n \in 1 .. Len(e), NEW q \in Seq(S), NEW f, e[n] = f,
           NEW g, g # f, IsRunTo(q, f, g), ComesNext(e, n, q)
    PROVE  OtherAt(e, n, n + Len(q), f) /\ e[n + Len(q)] = g
  <1> DEFINE b == Len(q)
             o == n + b
  <1>1. Len(e) \in Nat /\ n \in Nat /\ b \in Nat \ {0}
    BY EmptySeq DEF IsRunTo
  <1>2. q[b] = g /\ (\A i \in 1 .. b - 1 : q[i] = f)
    BY DEF IsRunTo, Last
  <1>3. n + b <= Len(e) /\ (\A i \in 1 .. b : q[i] = e[n + i])
    BY DEF ComesNext
  <1> HIDE DEF b
  <1>4. e[o] = g /\ o \in n + 1 .. Len(e)
    BY <1>1, <1>2, <1>3
  <1>5. ASSUME NEW i \in n .. o - 1 PROVE e[i] = f
    <2>1. CASE i = n
      BY <2>1
    <2>2. CASE i # n
      <3>1. PICK j : j = i - n
        OBVIOUS
      <3>2. j \in 1 .. b - 1 /\ j \in 1 .. b /\ n + j = i
        BY <1>1, <2>2, <3>1
      <3>3. QED
        BY <1>2, <1>3, <3>2
    <2>3. QED
      BY <2>1, <2>2
  <1>6. OtherAt(e, n, o, f)
    BY <1>4, <1>5 DEF OtherAt
  <1>7. QED
    BY <1>4, <1>6 DEF b

(* ... and such a frame ends a run. *)
LEMMA RunTo ==
    ASSUME NEW S, NEW e \in Seq(S), NEW h \in Seq(S), Begins(h, e), NEW f, NEW o,
           OtherAt(e, Len(h), o, f)
    PROVE  \E q \in Seq(S) : IsRunTo(q, f, e[o]) /\ ComesNext(e, Len(h), q) /\ Begins(h \o q, e)
  <1> DEFINE p == SubSeq(e, 1, o)
             q == Suffix(p, Len(h))
             n == Len(h)
             b == Len(q)
  <1>1. Len(e) \in Nat /\ n \in Nat /\ o \in n + 1 .. Len(e) /\ o \in 0 .. Len(e)
        /\ (\A i \in n .. o - 1 : e[i] = f)
    BY DEF OtherAt
  <1>2. p \in Seq(S) /\ Len(p) = o /\ (\A x \in 1 .. o : p[x] = e[x]) /\ Begins(p, e)
    BY <1>1, BeginningIs
  <1>3. Begins(h, p)
    BY <1>1, <1>2 DEF Begins
  <1> HIDE DEF p
  <1>4. q \in Seq(S) /\ p = h \o q
    BY <1>2, <1>3, SuffixIs
  <1> HIDE DEF q
  <1>5. Len(p) = n + b
    BY <1>4, AfterIs
  <1>6. ComesNext(e, Len(h), q) /\ Begins(h \o q, e)
    BY <1>2, <1>4, AfterIs
  <1>7. b \in Nat \ {0} /\ o = n + b
    <2>1. b \in Nat
      BY <1>4
    <2>2. QED
      BY <1>1, <1>2, <1>5, <2>1
  <1>8. \A i \in 1 .. b : q[i] = e[n + i]
    BY <1>6 DEF ComesNext
  <1>9. q # <<>>
    BY <1>7
  <1>10. Last(q) = e[o]
    BY <1>7, <1>8 DEF Last
  <1>11. \A i \in 1 .. b - 1 : q[i] = f
    <2> SUFFICES ASSUME NEW i \in 1 .. b - 1 PROVE q[i] = f
      OBVIOUS
    <2> HIDE DEF n, b
    <2>1. i \in 1 .. b /\ n + i \in n .. o - 1
      BY <1>1, <1>7
    <2>2. QED
      BY <1>1, <1>8, <2>1
  <1>12. QED
    BY <1>4, <1>6, <1>9, <1>10, <1>11 DEF IsRunTo

(* What calls f at all, and g next. *)
LEMMA CalleesCounted ==
    ASSUME NEW E, Ended(E), NEW f \in Frames, NEW g \in Frames, g # f
    PROVE  Total({q \in DOMAIN CalleeTree(Hits(f)) : IsRunTo(q, f, g)}, CalleeTree(Hits(f)))
             = Cardinality({k \in Having(f) : g \in Callees(k, f)})
  <1> DEFINE half == CalleeTree(Hits(f))
             X == BelowOf(E, f)
             R == {q \in DOMAIN half : IsRunTo(q, f, g)}
  <1>1. DOMAIN half = {q \in Paths : q = <<>> \/ \E h \in Hits(f) : h \o q \in Nodes}
        /\ (\A q \in DOMAIN half : half[q] = Cardinality(X[q]))
    BY CalleesAre
  <1>2. Tallied(half, X)
    BY CalleesTallied
  <1>3. \A q \in Paths : q # <<>> =>
           X[q] = {k \in taken : \E h \in Hits(f) : k \in Past(E, h) /\ ComesNext(E[k], Len(h), q)}
    BY DEF BelowOf
  <1> HIDE DEF half, X
  <1>4. \A q \in R : q \in DOMAIN half /\ q \in Paths /\ q # <<>> /\ IsRunTo(q, f, g)
    BY <1>1 DEF IsRunTo
  <1>5. \A q \in DOMAIN half : IsRunTo(q, f, g) => q \in R
    OBVIOUS
  <1> HIDE DEF R
  <1>6. ASSUME NEW h \in Hits(f), NEW k \in Past(E, h)
        PROVE  /\ k \in taken /\ E[k] \in Seq(Ids) /\ h \in Seq(Ids) /\ Begins(h, E[k])
               /\ Len(h) \in 1 .. Len(E[k]) /\ E[k][Len(h)] = f /\ k \in Having(f)
    BY HitOn, HitIs DEF Paths, FirstAt
  <1>7. ASSUME NEW q \in R, NEW k \in X[q]
        PROVE  \E h \in Hits(f) : /\ k \in Past(E, h) /\ ComesNext(E[k], Len(h), q)
                                  /\ OtherAt(E[k], Len(h), Len(h) + Len(q), f)
                                  /\ E[k][Len(h) + Len(q)] = g
    <2>1. PICK h \in Hits(f) : k \in Past(E, h) /\ ComesNext(E[k], Len(h), q)
      BY <1>3, <1>4
    <2>2. PICK e, n : e = E[k] /\ n = Len(h)
      OBVIOUS
    <2>3. e \in Seq(Ids) /\ n \in 1 .. Len(e) /\ e[n] = f /\ q \in Seq(Ids)
          /\ IsRunTo(q, f, g) /\ ComesNext(e, n, q)
      BY <1>4, <1>6, <2>1, <2>2 DEF Paths
    <2>4. OtherAt(e, n, n + Len(q), f) /\ e[n + Len(q)] = g
      BY <2>3, RunEnds
    <2>5. QED
      BY <2>1, <2>2, <2>4
  <1>8. ASSUME NEW q \in R, NEW p \in R, NEW k, k \in X[q], k \in X[p] PROVE q = p
    <2>1. PICK h \in Hits(f) : /\ k \in Past(E, h) /\ ComesNext(E[k], Len(h), q)
                               /\ OtherAt(E[k], Len(h), Len(h) + Len(q), f)
      BY <1>7, <1>8
    <2>2. PICK d \in Hits(f) : /\ k \in Past(E, d) /\ ComesNext(E[k], Len(d), p)
                               /\ OtherAt(E[k], Len(d), Len(d) + Len(p), f)
      BY <1>7, <1>8
    <2>3. h = d
      BY <1>6, <2>1, <2>2, HitOnce
    <2>4. q \in Seq(Ids) /\ p \in Seq(Ids) /\ Len(q) \in Nat /\ Len(p) \in Nat /\ Len(h) \in Nat
      BY <1>4, <1>6, <2>1 DEF Paths
    <2>5. Len(h) + Len(q) = Len(h) + Len(p)
      <3>1. PICK e, n, a, b : e = E[k] /\ n = Len(h) /\ a = Len(h) + Len(q) /\ b = Len(h) + Len(p)
        OBVIOUS
      <3>2. OtherAt(e, n, a, f) /\ OtherAt(e, n, b, f) /\ n \in Nat /\ a \in Nat /\ b \in Nat
            /\ n <= a /\ n <= b
        BY <2>1, <2>2, <2>3, <2>4, <3>1
      <3>3. ~(a < b) /\ ~(b < a)
        BY <3>2 DEF OtherAt
      <3>4. QED
        BY <3>1, <3>2, <3>3
    <2>6. Len(q) = Len(p)
      BY <2>4, <2>5
    <2>7. QED
      BY <2>1, <2>2, <2>3, <2>4, <2>6, AfterSame
  <1>9. Parted(R, X, taken)
    <2>1. IsFiniteSet(taken)
      BY DEF Ended
    <2>2. \A q \in R : X[q] # {} /\ X[q] \subseteq taken
      BY <1>2, <1>3, <1>4 DEF Tallied
    <2>3. \A q \in R, p \in R : q # p => X[q] \cap X[p] = {}
      BY <1>8
    <2>4. QED
      BY <2>1, <2>2, <2>3 DEF Parted
  <1>10. Total(R, half) = Cardinality(UNION {X[q] : q \in R})
    BY <1>1, <1>4, <1>9, TotalParts
  <1>11. ASSUME NEW q \in R, NEW k \in X[q] PROVE k \in Having(f) /\ g \in Callees(k, f)
    <2>1. PICK h \in Hits(f) : /\ k \in Past(E, h)
                               /\ OtherAt(E[k], Len(h), Len(h) + Len(q), f)
                               /\ E[k][Len(h) + Len(q)] = g
      BY <1>7
    <2>2. QED
      BY <1>6, <2>1, HitCallees
  <1>12. ASSUME NEW k \in Having(f), g \in Callees(k, f) PROVE \E q \in R : k \in X[q]
    <2>1. PICK h \in Hits(f) : k \in Past(E, h)
      BY HitOf
    <2>2. PICK o : OtherAt(E[k], Len(h), o, f) /\ E[k][o] = g
      BY <1>12, <2>1, HitCallees
    <2>3. PICK e : e = E[k]
      OBVIOUS
    <2>4. e \in Seq(Ids) /\ h \in Seq(Ids) /\ Begins(h, e) /\ k \in taken
          /\ OtherAt(e, Len(h), o, f) /\ e[o] = g
      BY <1>6, <2>1, <2>2, <2>3
    <2>5. PICK q \in Seq(Ids) : IsRunTo(q, f, g) /\ ComesNext(e, Len(h), q) /\ Begins(h \o q, e)
      BY <2>4, RunTo
    <2>6. q \in Paths /\ q # <<>>
      BY <2>5 DEF Paths, IsRunTo
    <2>7. k \in X[q]
      BY <1>3, <2>1, <2>3, <2>4, <2>5, <2>6
    <2>8. h \o q \in Paths /\ h \o q # <<>> /\ k \in Past(E, h \o q)
      <3>1. h \o q \in Paths /\ h \o q # <<>>
        BY <2>6, PastBelow
      <3>2. QED
        BY <2>3, <2>4, <2>5, <3>1 DEF Past
    <2>9. h \o q \in Nodes
      BY <2>8 DEF Ended
    <2>10. QED
      BY <1>1, <1>5, <2>5, <2>6, <2>7, <2>9
  <1>13. UNION {X[q] : q \in R} = {k \in Having(f) : g \in Callees(k, f)}
    BY <1>11, <1>12
  <1>14. QED
    BY <1>10, <1>13 DEF R, half

(* While a sandwich view is shown, its trees are those of the flame graph.   *)
SandwichInv == fpc = "sandwich" => /\ callers = CallerTree(Hits(target))
                                   /\ callees = CalleeTree(Hits(target))

(* The invariants give the view's weights. *)
LEMMA SandwichShown == ASSUME FlameInv, SandwichInv PROVE SandwichExact
  <1> DEFINE Weight(t, q) == IF q \in DOMAIN t THEN t[q] ELSE 0
             Run(g) == {q \in DOMAIN callees : IsRunTo(q, target, g)}
             Weighed(t) == \A q \in DOMAIN t :
                             Total({p \in DOMAIN t : p # <<>> /\ Front(p) = q}, t) <= t[q]
  <1> SUFFICES ASSUME fpc = "sandwich", target \in Frames
               PROVE  /\ callers[<<>>] = Cardinality(Having(target) \ Called(target, RootId))
                      /\ \A g \in Frames \cup (1 .. Len(comms) - 1) :
                            Weight(callers, <<g>>) = Cardinality(Called(target, g))
                      /\ \A g \in Frames \ {target} :
                            Total(Run(g), callees)
                              = Cardinality({k \in Having(target) : g \in Callees(k, target)})
                      /\ Weighed(callers) /\ Weighed(callees)
    BY Zenon DEF SandwichExact, Having, Called, IsRunTo
  <1>1. rest = <<>>
    BY DEF FlameInv, FlameTypes
  <1>2. PICK E : Ended(E)
    BY <1>1, EndedIs
  <1>3. callers = CallerTree(Hits(target)) /\ callees = CalleeTree(Hits(target))
    BY DEF SandwichInv
  <1>4. /\ callers[<<>>] = Cardinality(Having(target) \ Called(target, RootId))
        /\ \A g \in Frames \cup (1 .. Len(comms) - 1) :
              Weight(callers, <<g>>) = Cardinality(Called(target, g))
    BY <1>2, <1>3, CallersCounted
  <1>5. ASSUME NEW g \in Frames \ {target}
        PROVE  Total(Run(g), callees)
                 = Cardinality({k \in Having(target) : g \in Callees(k, target)})
    BY <1>2, <1>3, CalleesCounted
  <1>6. Weighed(callers)
    <2>1. Tallied(callers, AboveOf(E, target))
      BY <1>2, <1>3, CallersTallied
    <2>2. QED
      BY <2>1, TalliedAddsUp
  <1>7. Weighed(callees)
    <2>1. Tallied(callees, BelowOf(E, target))
      BY <1>2, <1>3, CalleesTallied
    <2>2. QED
      BY <2>1, TalliedAddsUp
  <1>8. QED
    BY <1>4, <1>5, <1>6, <1>7

(* The trees depend on nothing but the flame graph's weights.                *)
LEMMA TreesKept ==
    ASSUME UNCHANGED weight, NEW f
    PROVE  /\ CallerTree(Hits(f))' = CallerTree(Hits(f))
           /\ CalleeTree(Hits(f))' = CalleeTree(Hits(f))
  <1>1. Nodes' = Nodes
    BY DEF Nodes
  <1>2. Hits(f)' = Hits(f)
    BY <1>1 DEF Hits
  <1>3. \A h : Children(h)' = Children(h)
    BY <1>1 DEF Children
  <1>4. PICK hits : hits = Hits(f)
    OBVIOUS
  <1>5. CallerTree(hits)' = CallerTree(hits)
    BY DEF CallerTree
  <1>6. CalleeTree(hits)' = CalleeTree(hits)
    BY <1>1, <1>3 DEF CalleeTree, Nodes, Children, Suffix
  <1>7. hits = Hits(f)'
    BY <1>2, <1>4
  <1>8. QED
    BY <1>4, <1>5, <1>6, <1>7

(* Every step of the views keeps the invariant of the sandwich view.         *)
LEMMA SandwichStep == SandwichInv /\ [ViewsNext]_<<vars, views, apart>> => SandwichInv'
  <1> SUFFICES ASSUME SandwichInv, [ViewsNext]_<<vars, views, apart>> PROVE SandwichInv'
    OBVIOUS
  <1>1. ASSUME UNCHANGED <<fpc, weight, target, callers, callees>> PROVE SandwichInv'
    <2>1. PICK f : f = target
      OBVIOUS
    <2>2. /\ CallerTree(Hits(f))' = CallerTree(Hits(f))
          /\ CalleeTree(Hits(f))' = CalleeTree(Hits(f))
      BY <1>1, TreesKept
    <2>3. f = target'
      BY <1>1, <2>1
    <2>4. QED
      BY <1>1, <2>1, <2>2, <2>3 DEF SandwichInv
  <1>2. ASSUME UNCHANGED flame PROVE SandwichInv'
    BY <1>1, <1>2 DEF flame, graph, sandwich
  <1>3. ASSUME NEW p, Sandwich(p) PROVE SandwichInv'
    <2>1. PICK f : f = Id(p)
      OBVIOUS
    <2>2. /\ weight' = weight /\ f = target'
          /\ callers' = CallerTree(Hits(f)) /\ callees' = CalleeTree(Hits(f))
      BY <1>3, <2>1 DEF Sandwich, graph
    <2>3. /\ CallerTree(Hits(f))' = CallerTree(Hits(f))
          /\ CalleeTree(Hits(f))' = CalleeTree(Hits(f))
      BY <2>2, TreesKept
    <2>4. QED
      BY <2>2, <2>3 DEF SandwichInv
  <1>4. ASSUME fpc' # "sandwich" PROVE SandwichInv'
    BY <1>4 DEF SandwichInv
  <1>5. ASSUME NEW q, NEW i, AskFlame(q, i) PROVE SandwichInv'
    BY <1>4, <1>5 DEF AskFlame
  <1>6. ASSUME SkipEvent \/ InsertTrace \/ PassFrame \/ AddFrame PROVE SandwichInv'
    <2>1. fpc = "build" /\ fpc' = fpc
      BY <1>6 DEF SkipEvent, InsertTrace, PassFrame, AddFrame
    <2>2. QED
      BY <1>4, <2>1
  <1>7. ASSUME ShowGraph \/ LeaveSandwich \/ DropGraph PROVE SandwichInv'
    BY <1>4, <1>7 DEF ShowGraph, LeaveSandwich, DropGraph
  <1>8. CASE FlameNext
    BY <1>2, <1>3, <1>5, <1>6, <1>7, <1>8 DEF FlameNext
  <1>9. CASE UNCHANGED flame
    BY <1>2, <1>9
  <1>10. QED
    BY <1>8, <1>9 DEF ViewsNext, TablesNext, views

(* A sandwich view weighs every caller and every callee of a frame by the    *)
(* events it appears in, an event in which the frame recurs once, and no     *)
(* node of it less than its children, whichever frame is looked at, however  *)
(* the frame recurs in the traces and whatever was inlined in it.            *)
THEOREM SandwichAlwaysExact == ViewsSpec => []SandwichExact
  <1>1. ViewsInit => FlameInv /\ TablesOK /\ SandwichInv
    <2>1. ViewsInit => FlameInv
      <3> SUFFICES ASSUME ViewsInit PROVE NoTree
        BY NoTreeKeepsIt
      <3>1. QED
        BY DEF ViewsInit, FlameInit, NoTree
    <2>2. ViewsInit => TablesOK
      BY ProfileAssumption DEF ViewsInit, Init, ProfileInit, TablesOK, AnyChain, ChainOf
    <2>3. ViewsInit => SandwichInv
      BY DEF ViewsInit, FlameInit, SandwichInv
    <2>4. QED
      BY <2>1, <2>2, <2>3
  <1>2. FlameInv /\ TablesOK /\ SandwichInv /\ [ViewsNext]_<<vars, views, apart>>
           => (FlameInv /\ TablesOK /\ SandwichInv)'
    BY TablesStep, FlameStep, SandwichStep
  <1>3. FlameInv /\ SandwichInv => SandwichExact
    BY SandwichShown
  <1>4. QED
    BY <1>1, <1>2, <1>3, PTL DEF ViewsSpec

-----------------------------------------------------------------------------
(* A query of the top functions comes to its end.                           *)

(* Only finitely many locations have been counted.                          *)
Occurring == {l \in Locations : withChildren[l] > 0}
FewOccur == IsFiniteSet(Occurring)

(* However many locations there are and however their counts are ordered,    *)
(* there is a table of the largest ones to show.                             *)
LEMMA CutExists ==
    ASSUME FewOccur, NEW field \in [Locations -> Nat]
    PROVE  Cut(field) # {}
  <1> DEFINE all == Occurring
             n == Min({Cardinality(all), MaxLocations})
             Upper(s) == \A l \in s, m \in all \ s : field[l] >= field[m]
             F == {s \in SUBSET all : n <= Cardinality(s) /\ Upper(s)}
  <1>1. IsFiniteSet(all) /\ all \subseteq Locations
    BY DEF FewOccur, Occurring
  <1>2. n \in Nat /\ n <= Cardinality(all)
    BY <1>1, FS_CardinalityType, MinOfTwo, TopFuncsAssumption
  <1>3. Cut(field) = {s \in SUBSET all : Cardinality(s) = n /\ Upper(s)}
    BY DEF Cut, Occurring
  <1> HIDE DEF all, n
  <1>4. all \in F
    BY <1>2
  <1>5. \A s \in F : IsFiniteSet(s)
    BY <1>1, FS_Subset
  <1>6. PICK s \in F : \A t \in SUBSET s : t # s => t \notin F
    BY <1>4, <1>5, SmallestSet
  <1>7. IsFiniteSet(s) /\ Cardinality(s) \in Nat /\ n <= Cardinality(s) /\ Upper(s) /\ s \subseteq all
    BY <1>5, FS_CardinalityType
  <1>8. ASSUME Cardinality(s) # n PROVE FALSE
    <2>1. s # {}
      BY <1>2, <1>7, <1>8, FS_EmptySet
    <2>2. {field[l] : l \in s} \in SUBSET Nat /\ {field[l] : l \in s} # {}
      BY <1>1, <1>7, <2>1
    <2>3. PICK v \in {field[l] : l \in s} : \A w \in {field[l] : l \in s} : v <= w
      BY <2>2, LeastNatural
    <2>4. PICK l \in s : \A a \in s : field[l] <= field[a]
      BY <2>3
    <2> DEFINE t == s \ {l}
    <2>5. Cardinality(t) = Cardinality(s) - 1
      BY <1>7, FS_RemoveElement
    <2>6. n <= Cardinality(t)
      BY <1>2, <1>7, <1>8, <2>5
    <2>7. ASSUME NEW a \in t, NEW m \in all \ t PROVE field[a] >= field[m]
      <3>1. CASE m = l
        BY <2>4, <3>1, <1>1, <1>7
      <3>2. CASE m # l
        BY <1>7, <3>2
      <3>3. QED
        BY <3>1, <3>2
    <2>8. t \in F
      BY <1>7, <2>6, <2>7
    <2>9. QED
      BY <1>6, <2>8
  <1>9. s \in Cut(field)
    BY <1>3, <1>7, <1>8
  <1>10. QED
    BY <1>9

(* Only a count makes a location occur.                                     *)
LEMMA OccurStep ==
    ASSUME TopTypes, FewOccur, [ViewsNext]_<<vars, views, apart>>
    PROVE  FewOccur'
  <1>1. ASSUME UNCHANGED withChildren PROVE FewOccur'
    BY <1>1 DEF FewOccur, Occurring
  <1>2. CASE UNCHANGED topFuncs
    BY <1>1, <1>2 DEF topFuncs, counts
  <1>3. CASE TopNext
    <2>1. ASSUME NEW q \in Ranges, NEW s \in Filters, AskTop(q, s) PROVE FewOccur'
      BY <1>1, <2>1 DEF AskTop, counts
    <2>2. CASE SendEvent \/ LookupTrace \/ SendFrame \/ SymbolizeFrame \/ SendLocation \/ ShowTop
      BY <1>1, <2>2 DEF SendEvent, LookupTrace, SendFrame, SymbolizeFrame, SendLocation, ShowTop,
                        counts
    <2>3. CASE Count
      <3> DEFINE l == Head(locChan).loc
      <3>1. withChildren' \in {withChildren, [withChildren EXCEPT ![l] = @ + 1]}
        BY <2>3 DEF Count
      <3>2. Occurring' \subseteq Occurring \cup {l}
        BY <3>1 DEF Occurring, TopTypes
      <3>3. IsFiniteSet(Occurring \cup {l})
        BY FS_AddElement DEF FewOccur
      <3>4. QED
        BY <3>2, <3>3, FS_Subset DEF FewOccur
    <2>4. CASE DropTop
      <3>1. Occurring' = {}
        BY <2>4 DEF DropTop, Occurring, Zero
      <3>2. QED
        BY <3>1, FS_EmptySet DEF FewOccur
    <2>5. QED
      BY <1>2, <1>3, <2>1, <2>2, <2>3, <2>4 DEF TopNext, Threads
  <1>4. QED
    BY <1>2, <1>3 DEF ViewsNext, TablesNext, views

(* A thread that has nothing to take or no room to send leaves it to another, *)
(* in the end to the last one, which only takes; and when nothing is left, the *)
(* table is shown.                                                           *)
LEMMA SomeThreadCan ==
    ASSUME TopTypes, FewOccur
    PROVE  QueryGoesOn
  <1> SUFFICES ASSUME tpc = "query",
                      ~CanSendEvent, ~CanLookup, ~CanSendFrame, ~CanSymbolize,
                      ~CanSendLocation, ~CanCount
               PROVE  CanShow
    BY DEF QueryGoesOn
  <1>1. /\ eventChan \in Seq(EventKeys) /\ frames \in Seq(FrameItems)
        /\ frameChan \in Seq(FrameItems) /\ locs \in Seq(Locations)
        /\ withChildren \in [Locations -> Nat]
    BY DEF TopTypes
  <1>2. Len(<<>>) < ChanSize
    BY TopFuncsAssumption
  <1>3. locChan = <<>> /\ locs = <<>>
    BY <1>2 DEF CanCount, CanSendLocation
  <1>4. frameChan = <<>> /\ frames = <<>>
    BY <1>2, <1>3 DEF CanSymbolize, CanSendFrame
  <1>5. eventChan = <<>> /\ unread = {}
    BY <1>2, <1>4 DEF CanLookup, CanSendEvent
  <1>6. Cut(withChildren) # {}
    BY <1>1, CutExists
  <1>7. QED
    BY <1>3, <1>4, <1>5, <1>6 DEF CanShow, Finished

(* A query of the top functions always goes on until its table is shown: its   *)
(* threads never wait for each other in a circle, and there is always a table. *)
THEOREM QueryAlwaysGoesOn == ViewsSpec => []QueryGoesOn
  <1>1. ViewsInit => FewOccur
    <2>1. ASSUME TopInit PROVE Occurring = {}
      BY <2>1 DEF TopInit, Occurring, Zero
    <2>2. QED
      BY <2>1, FS_EmptySet DEF ViewsInit, FewOccur
  <1>2. TopInv /\ FewOccur /\ [ViewsNext]_<<vars, views, apart>> => FewOccur'
    BY OccurStep DEF TopInv
  <1>3. TopInv /\ FewOccur => QueryGoesOn
    BY SomeThreadCan DEF TopInv
  <1>4. QED
    BY <1>1, <1>2, <1>3, TopInvariant, PTL DEF ViewsSpec

(* What a query has still to do are six numbers.                            *)
LEMMA SixNumbers ==
    /\ DOMAIN StillToDo = 1 .. 6
    /\ StillToDo[1] = Cardinality(unread) /\ StillToDo[2] = Len(eventChan)
    /\ StillToDo[3] = Len(frames) /\ StillToDo[4] = Len(frameChan)
    /\ StillToDo[5] = Len(locs) /\ StillToDo[6] = Len(locChan)
  BY DEF StillToDo

(* Six numbers of which the first that changes has become smaller.            *)
LEMMA FirstSmaller ==
    ASSUME NEW i \in 1 .. 6, StillToDo'[i] < StillToDo[i],
           \A j \in 1 .. 6 : j < i => StillToDo'[j] = StillToDo[j]
    PROVE  \E k \in DOMAIN StillToDo :
              /\ StillToDo'[k] < StillToDo[k]
              /\ \A j \in 1 .. k - 1 : StillToDo'[j] = StillToDo[j]
  BY SixNumbers

(* Each thread takes what it takes from its channel or its hands.              *)
LEMMA ThreadShrinks ==
    ASSUME TopTypes, Threads, UNCHANGED tpc
    PROVE  \E i \in DOMAIN StillToDo :
              /\ StillToDo'[i] < StillToDo[i]
              /\ \A j \in 1 .. i - 1 : StillToDo'[j] = StillToDo[j]
  <1>1. /\ StillToDo[1] = Cardinality(unread) /\ StillToDo[2] = Len(eventChan)
        /\ StillToDo[3] = Len(frames) /\ StillToDo[4] = Len(frameChan)
        /\ StillToDo[5] = Len(locs) /\ StillToDo[6] = Len(locChan)
        /\ StillToDo'[1] = Cardinality(unread') /\ StillToDo'[2] = Len(eventChan')
        /\ StillToDo'[3] = Len(frames') /\ StillToDo'[4] = Len(frameChan')
        /\ StillToDo'[5] = Len(locs') /\ StillToDo'[6] = Len(locChan')
    BY DEF StillToDo
  <1>2. /\ unread \in SUBSET EventKeys /\ eventChan \in Seq(EventKeys)
        /\ frames \in Seq(FrameItems) /\ frameChan \in Seq(FrameItems)
        /\ locs \in Seq(Locations) /\ locChan \in Seq(LocItems)
    BY DEF TopTypes
  <1>3. \A S : \A q \in Seq(S) : q # <<>> => Len(Tail(q)) < Len(q)
    OBVIOUS
  <1>4. CASE SendEvent
    <2>1. IsFiniteSet(unread)
      BY <1>2, FS_Subset, EventQueriesAssumption
    <2>2. unread # {}
      BY <1>4 DEF SendEvent, CanSendEvent
    <2>3. unread \in SUBSET EventKeys
      BY <1>2
    <2>4. First(unread) \in unread
      BY <2>2, <2>3, FirstIsKey
    <2>5. Cardinality(unread) \in Nat
      BY <2>1, FS_CardinalityType
    <2>6. Cardinality(unread \ {First(unread)}) = Cardinality(unread) - 1
      BY <2>1, <2>4, FS_RemoveElement
    <2>7. StillToDo'[1] < StillToDo[1]
      BY <1>4, <1>1, <2>5, <2>6 DEF SendEvent
    <2>8. QED
      BY <2>7, FirstSmaller
  <1>5. CASE LookupTrace
    <2>1. StillToDo'[2] < StillToDo[2] /\ StillToDo'[1] = StillToDo[1]
      BY <1>5, <1>1, <1>2, <1>3 DEF LookupTrace, CanLookup
    <2>2. QED
      BY <2>1, FirstSmaller
  <1>6. CASE SendFrame
    <2>1. /\ StillToDo'[3] < StillToDo[3] /\ StillToDo'[1] = StillToDo[1]
          /\ StillToDo'[2] = StillToDo[2]
      BY <1>6, <1>1, <1>2, <1>3 DEF SendFrame, CanSendFrame
    <2>2. QED
      BY <2>1, FirstSmaller
  <1>7. CASE SymbolizeFrame
    <2>1. /\ StillToDo'[4] < StillToDo[4] /\ StillToDo'[1] = StillToDo[1]
          /\ StillToDo'[2] = StillToDo[2] /\ StillToDo'[3] = StillToDo[3]
      BY <1>7, <1>1, <1>2, <1>3 DEF SymbolizeFrame, CanSymbolize
    <2>2. QED
      BY <2>1, FirstSmaller
  <1>8. CASE SendLocation
    <2>1. /\ StillToDo'[5] < StillToDo[5] /\ StillToDo'[1] = StillToDo[1]
          /\ StillToDo'[2] = StillToDo[2] /\ StillToDo'[3] = StillToDo[3]
          /\ StillToDo'[4] = StillToDo[4]
      BY <1>8, <1>1, <1>2, <1>3 DEF SendLocation, CanSendLocation
    <2>2. QED
      BY <2>1, FirstSmaller
  <1>9. CASE Count
    <2>1. /\ StillToDo'[6] < StillToDo[6] /\ StillToDo'[1] = StillToDo[1]
          /\ StillToDo'[2] = StillToDo[2] /\ StillToDo'[3] = StillToDo[3]
          /\ StillToDo'[4] = StillToDo[4] /\ StillToDo'[5] = StillToDo[5]
      BY <1>9, <1>1, <1>2, <1>3 DEF Count, CanCount
    <2>2. QED
      BY <2>1, FirstSmaller
  <1>10. CASE ShowTop
    BY <1>10 DEF ShowTop, CanShow
  <1>11. QED
    BY <1>4, <1>5, <1>6, <1>7, <1>8, <1>9, <1>10 DEF Threads

(* No step of a query is in vain: with QueryAlwaysGoesOn, a query whose threads *)
(* are scheduled comes to its end.                                           *)
THEOREM QueryWorkShrinks == ViewsSpec => WorkShrinks
  <1>1. ASSUME TopTypes, [ViewsNext]_<<vars, views, apart>>, tpc = "query", UNCHANGED tpc
        PROVE  \/ UNCHANGED topFuncs
               \/ \E i \in DOMAIN StillToDo :
                     /\ StillToDo'[i] < StillToDo[i]
                     /\ \A j \in 1 .. i - 1 : StillToDo'[j] = StillToDo[j]
    <2>1. TopNext \/ UNCHANGED topFuncs
      BY <1>1 DEF ViewsNext, TablesNext, views
    <2>2. ASSUME NEW q \in Ranges, NEW s \in Filters PROVE ~AskTop(q, s)
      BY <1>1 DEF AskTop
    <2>3. ~DropTop
      BY <1>1 DEF DropTop
    <2>4. QED
      BY <1>1, <2>1, <2>2, <2>3, ThreadShrinks DEF TopNext
  <1> DEFINE A == tpc = "query" /\ UNCHANGED tpc =>
                    \/ UNCHANGED topFuncs
                    \/ \E i \in DOMAIN StillToDo :
                          /\ StillToDo'[i] < StillToDo[i]
                          /\ \A j \in 1 .. i - 1 : StillToDo'[j] = StillToDo[j]
  <1>2. TopTypes /\ [ViewsNext]_<<vars, views, apart>> => [A]_topFuncs
    BY <1>1
  <1>3. TopInv => TopTypes
    BY DEF TopInv
  <1>4. WorkShrinks <=> [][A]_topFuncs
    BY DEF WorkShrinks
  <1> HIDE DEF A
  <1>5. QED
    BY <1>2, <1>3, <1>4, TopInvariant, PTL DEF ViewsSpec

-----------------------------------------------------------------------------
(* The views together.                                                      *)

(* Every range query, plot, ring, list and queue is as it should be in every *)
(* behaviour of the views, whatever else is drawn or built meanwhile.        *)
THEOREM ViewsAlwaysExact ==
    ViewsSpec => /\ RangeExact /\ WorkShrinks
                 /\ [](/\ PlotsExact /\ TopExact /\ QueryGoesOn /\ FreqExact
                       /\ SearchExact /\ FlameExact /\ SandwichExact
                       /\ RingsKeepNewest /\ DropsKept)
  BY PartsImplemented, RangesAreExact, PlotsAlwaysExact, TopAlwaysExact, QueryAlwaysGoesOn,
     QueryWorkShrinks, FreqAlwaysExact, SearchAlwaysExact, FlameAlwaysExact,
     SandwichAlwaysExact, RingsNewest, DropsAlwaysKept, PTL
=============================================================================
