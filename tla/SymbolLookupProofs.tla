-------------------------- MODULE SymbolLookupProofs --------------------------
(***************************************************************************)
(* Proofs for SymbolLookup: the point query of the interval tree yields    *)
(* the symbols that cover the address and no others, and the frames made   *)
(* of them are the inline trace.  What update_max computes is shown by     *)
(* induction on the length of the segment, written as the absence of a     *)
(* shortest segment for which it fails; the rest is an invariant of the    *)
(* search, conjunct by conjunct, and one step per action.                  *)
(***************************************************************************)
EXTENDS SymbolLookup, SequenceTheorems, FiniteSetTheorems, WellFoundedInduction, TLAPS

(* Every set of naturals has a least member: what the inductions below use,  *)
(* each on the set of its counterexamples.                                   *)
LEMMA LeastNatural ==
    ASSUME NEW S \in SUBSET Nat, S # {}
    PROVE  \E n \in S : \A m \in S : n <= m
  <1> DEFINE R == OpToRel(<, Nat)
  <1>1. IsWellFoundedOn(R, Nat)
    BY NatLessThanWellFounded
  <1>2. R = {ss \in Nat \X Nat : ss[1] < ss[2]}
    BY DEF OpToRel
  <1> HIDE DEF R
  <1>3. PICK n \in S : \A m \in S : <<m, n>> \notin R
    BY <1>1, WFMin
  <1>4. \A k, m \in Nat : k < m => <<k, m>> \in R
    BY <1>2
  <1>5. \A m \in S : ~(m < n)
    BY <1>3, <1>4
  <1>6. QED
    BY <1>5

(* A bounded set of naturals has a maximum. *)
LEMMA MaxOfBounded ==
    ASSUME NEW S \in SUBSET Nat, S # {}, NEW b \in Nat, \A x \in S : x <= b
    PROVE  Max(S) \in S /\ \A x \in S : x <= Max(S)
  <1> DEFINE U == {u \in Nat : \A x \in S : x <= u}
  <1>1. PICK u \in U : \A v \in U : u <= v
    <2>1. U \in SUBSET Nat /\ b \in U
      OBVIOUS
    <2>2. QED
      BY <2>1, LeastNatural
  <1>2. u \in S
    <2> SUFFICES ASSUME u \notin S PROVE FALSE
      OBVIOUS
    <2>1. u \in Nat /\ \A x \in S : x \in Nat /\ x <= u /\ x # u
      BY <1>1
    <2>2. u # 0
      <3>1. PICK x \in S : TRUE
        OBVIOUS
      <3>2. QED
        BY <2>1, <3>1
    <2>3. u - 1 \in U
      <3>1. u - 1 \in Nat /\ \A x \in S : x <= u - 1
        BY <2>1, <2>2
      <3>2. QED
        BY <3>1
    <2>4. QED
      BY <1>1, <2>3
  <1>3. \E x \in S : \A y \in S : x >= y
    BY <1>1, <1>2
  <1>4. Max(S) \in S /\ \A y \in S : Max(S) >= y
    BY <1>3 DEF Max
  <1>5. QED
    BY <1>4

(* A sequence ordered at each step is ordered. *)
LEMMA OrderedPairs ==
    ASSUME NEW n \in Nat, NEW d \in [1 .. n -> Nat], NEW gap \in Nat,
           \A i \in 1 .. n : i > 1 => d[i - 1] + gap <= d[i]
    PROVE  \A i, j \in 1 .. n : i < j => d[i] + gap <= d[j]
  <1> DEFINE Bad == {j \in 1 .. n : \E i \in 1 .. n : i < j /\ ~(d[i] + gap <= d[j])}
  <1>1. SUFFICES ASSUME Bad # {} PROVE FALSE
    OBVIOUS
  <1>2. PICK j \in Bad : \A m \in Bad : j <= m
    <2>1. Bad \in SUBSET Nat
      OBVIOUS
    <2>2. QED
      BY <1>1, <2>1, LeastNatural
  <1>3. PICK i \in 1 .. n : i < j /\ ~(d[i] + gap <= d[j])
    OBVIOUS
  <1>4. j - 1 \in 1 .. n /\ j \in 1 .. n /\ d[j - 1] + gap <= d[j]
    BY <1>3
  <1>5. i = j - 1 \/ d[i] + gap <= d[j - 1]
    BY <1>2, <1>3, <1>4
  <1>6. d[i] \in Nat /\ d[j] \in Nat /\ d[j - 1] \in Nat
    BY <1>3, <1>4
  <1>7. d[i] + gap <= d[j]
    <2>1. CASE i = j - 1
      BY <1>4, <2>1
    <2>2. CASE d[i] + gap <= d[j - 1]
      BY <1>4, <1>6, <2>2
    <2>3. QED
      BY <1>5, <2>1, <2>2
  <1>8. QED
    BY <1>3, <1>7

-----------------------------------------------------------------------------
(* The tree.                                                               *)

(* The symbols in the tree: what Build leaves. *)
DataOK ==
    /\ data \in Seq(Symbols)
    /\ \A i, j \in DOMAIN data : i < j => data[i].start <= data[j].start

Indices == 0 .. Len(data) - 1

(* What TypeOK says of the node at an index. *)
LEMMA Nodes ==
    ASSUME DataOK, NEW i \in Indices
    PROVE  /\ Node(i) \in Symbols
           /\ Node(i).start \in Nat /\ Node(i).end \in Nat /\ Node(i).depth \in Nat
  <1>1. Len(data) \in Nat /\ i + 1 \in 1 .. Len(data)
    BY DEF DataOK, Indices
  <1>2. Node(i) \in Symbols
    BY <1>1 DEF DataOK, Node
  <1>3. QED
    BY <1>2, SymbolLookupAssumption

(* The root of a segment is in it and parts it. *)
LEMMA PartsOfPart ==
    ASSUME NEW n \in Nat, NEW g \in Parts(n), g[2] # 0
    PROVE  /\ Root(g) \in 0 .. n - 1
           /\ Left(g) \in Parts(n) /\ Left(g)[2] < g[2]
           /\ Right(g) \in Parts(n) /\ Right(g)[2] < g[2]
           /\ \A i \in Nat : Within(i, g) <=> \/ i = Root(g)
                                              \/ Within(i, Left(g))
                                              \/ Within(i, Right(g))
           /\ \A i \in Nat : Within(i, Left(g)) => i < Root(g)
           /\ \A i \in Nat : Within(i, Right(g)) => Root(g) < i
           /\ \A i \in Nat : Within(i, g) => i < n
  <1>1. g[1] \in Nat /\ g[2] \in Nat /\ g[2] >= 1 /\ g[1] + g[2] <= n
    BY DEF Parts
  <1>2. g[2] \div 2 \in Nat /\ g[2] \div 2 < g[2]
    BY <1>1
  <1>3. Root(g) \in Nat /\ g[1] <= Root(g) /\ Root(g) < g[1] + g[2]
    BY <1>1, <1>2 DEF Root
  <1>4. /\ Left(g) = <<g[1], Root(g) - g[1]>>
        /\ Right(g) = <<Root(g) + 1, g[1] + g[2] - Root(g) - 1>>
    BY DEF Left, Right
  <1>5. Left(g) \in Parts(n) /\ Right(g) \in Parts(n)
    BY <1>1, <1>3, <1>4 DEF Parts
  <1>6. /\ Left(g)[1] = g[1] /\ Left(g)[2] = Root(g) - g[1]
        /\ Right(g)[1] = Root(g) + 1 /\ Right(g)[2] = g[1] + g[2] - Root(g) - 1
    BY <1>4
  <1>7. QED
    BY <1>1, <1>3, <1>5, <1>6 DEF Within

(* A finite tree has a largest end. *)
LEMMA EndsBounded ==
    ASSUME DataOK
    PROVE  \E u \in Nat : \A i \in Indices : Node(i).end <= u
  <1> DEFINE Bounded(k) == \E u \in Nat : \A i \in 0 .. k - 1 : Node(i).end <= u
             Bad == {k \in 0 .. Len(data) : ~Bounded(k)}
  <1>1. Len(data) \in Nat
    BY DEF DataOK
  <1>2. ASSUME NEW k \in 0 .. Len(data), k # 0, Bounded(k - 1)
        PROVE  Bounded(k)
    <2>1. PICK u \in Nat : \A i \in 0 .. k - 1 - 1 : Node(i).end <= u
      BY <1>2
    <2> DEFINE e == Node(k - 1).end
               v == IF u <= e THEN e ELSE u
    <2>2. k - 1 \in Indices /\ \A i \in 0 .. k - 1 - 1 : i \in Indices
      BY <1>1, <1>2 DEF Indices
    <2>3. e \in Nat /\ \A i \in 0 .. k - 1 - 1 : Node(i).end \in Nat
      BY <2>2, Nodes
    <2>4. v \in Nat /\ u <= v /\ e <= v
      BY <2>3
    <2>5. \A i \in 0 .. k - 1 : i = k - 1 \/ i \in 0 .. k - 1 - 1
      BY <1>1, <1>2
    <2> HIDE DEF v
    <2>6. \A i \in 0 .. k - 1 : Node(i).end <= v
      BY <2>1, <2>3, <2>4, <2>5
    <2>7. QED
      BY <2>4, <2>6
  <1>3. Bounded(0)
    <2>1. 0 \in Nat /\ 0 .. 0 - 1 = {}
      OBVIOUS
    <2>2. QED
      BY <2>1
  <1> HIDE DEF Bounded
  <1>4. Bad = {}
    <2> SUFFICES ASSUME Bad # {} PROVE FALSE
      OBVIOUS
    <2>1. Bad \in SUBSET Nat
      OBVIOUS
    <2>2. PICK k \in Bad : \A m \in Bad : k <= m
      BY <2>1, LeastNatural
    <2>3. k \in 0 .. Len(data) /\ ~Bounded(k) /\ k # 0
      BY <1>3
    <2>4. k - 1 \in 0 .. Len(data) /\ k - 1 \notin Bad
      BY <1>1, <2>2, <2>3
    <2>5. QED
      BY <1>2, <2>3, <2>4
  <1>5. Bounded(Len(data))
    BY <1>1, <1>4
  <1>6. QED
    BY <1>5 DEF Bounded, Indices

(* The three that update_max compares. *)
LEMMA MaxOfThree ==
    ASSUME NEW a \in Nat, NEW b \in Nat, NEW c \in Nat
    PROVE  /\ Max({a, b, c}) \in {a, b, c}
           /\ a <= Max({a, b, c}) /\ b <= Max({a, b, c}) /\ c <= Max({a, b, c})
  <1>1. \E x \in {a, b, c} : \A y \in {a, b, c} : x >= y
    OBVIOUS
  <1>2. Max({a, b, c}) \in {a, b, c} /\ \A y \in {a, b, c} : Max({a, b, c}) >= y
    BY <1>1 DEF Max
  <1>3. QED
    BY <1>2

(* update_max computes what it is to compute: there is a function as MaxEnd  *)
(* is defined, the largest end of each segment, ...                          *)
LEMMA MaxEndDefined ==
    ASSUME DataOK
    PROVE  MaxEnd = [g \in Parts(Len(data)) |->
                       IF g[2] = 0 THEN 0
                       ELSE Max({Node(Root(g)).end, MaxEnd[Left(g)], MaxEnd[Right(g)]})]
  <1> DEFINE P == Parts(Len(data))
             Ends(g) == {0} \cup {Node(i).end : i \in {j \in Indices : Within(j, g)}}
             h == [g \in P |-> Max(Ends(g))]
             Next3(f, g) == IF g[2] = 0 THEN 0
                            ELSE Max({Node(Root(g)).end, f[Left(g)], f[Right(g)]})
             Eq(f) == f = [g \in P |-> Next3(f, g)]
  <1>1. Len(data) \in Nat
    BY DEF DataOK
  <1>2. \A i \in Indices : Node(i).end \in Nat
    BY Nodes
  <1>3. ASSUME NEW g \in P
        PROVE  /\ h[g] = Max(Ends(g)) /\ h[g] \in Nat
               /\ h[g] \in Ends(g) /\ \A x \in Ends(g) : x <= h[g]
    <2>1. PICK u \in Nat : \A i \in Indices : Node(i).end <= u
      BY EndsBounded
    <2>2. Ends(g) \in SUBSET Nat /\ Ends(g) # {} /\ \A x \in Ends(g) : x <= u
      BY <1>2, <2>1
    <2> HIDE DEF Ends
    <2>3. Max(Ends(g)) \in Ends(g) /\ \A x \in Ends(g) : x <= Max(Ends(g))
      BY <2>2, MaxOfBounded
    <2>4. QED
      BY <2>2, <2>3
  <1>4. ASSUME NEW g \in P
        PROVE  h[g] = Next3(h, g)
    <2>1. CASE g[2] = 0
      <3>1. g[1] \in Nat /\ \A j \in Indices : ~Within(j, g)
        BY <1>1, <2>1 DEF Within, Indices, Parts
      <3>2. Ends(g) = {0}
        BY <3>1
      <3>3. QED
        BY <1>3, <2>1, <3>2
    <2>2. CASE g[2] # 0
      <3> DEFINE e == Node(Root(g)).end
                 l == h[Left(g)]
                 r == h[Right(g)]
      <3>1. /\ Root(g) \in Indices /\ Left(g) \in P /\ Right(g) \in P
            /\ \A i \in Indices : Within(i, g) <=> \/ i = Root(g)
                                                   \/ Within(i, Left(g))
                                                   \/ Within(i, Right(g))
        BY <1>1, <2>2, PartsOfPart DEF Indices
      <3>2. Ends(g) = {e} \cup Ends(Left(g)) \cup Ends(Right(g))
        BY <3>1
      <3>3. /\ e \in Nat /\ l \in Nat /\ r \in Nat
            /\ l \in Ends(Left(g)) /\ \A x \in Ends(Left(g)) : x <= l
            /\ r \in Ends(Right(g)) /\ \A x \in Ends(Right(g)) : x <= r
        BY <1>2, <1>3, <3>1
      <3>4. h[g] \in Nat /\ h[g] \in Ends(g) /\ \A x \in Ends(g) : x <= h[g]
        BY <1>3
      <3> HIDE DEF e, l, r, h, Ends
      <3>5. /\ Max({e, l, r}) \in {e, l, r}
            /\ e <= Max({e, l, r}) /\ l <= Max({e, l, r}) /\ r <= Max({e, l, r})
        BY <3>3, MaxOfThree
      <3>6. h[g] <= Max({e, l, r})
        BY <3>2, <3>3, <3>4, <3>5
      <3>7. Max({e, l, r}) <= h[g]
        BY <3>2, <3>3, <3>4, <3>5
      <3>8. h[g] = Max({e, l, r})
        BY <3>3, <3>4, <3>5, <3>6, <3>7
      <3>9. QED
        BY <2>2, <3>8 DEF e, l, r
    <2>3. QED
      BY <2>1, <2>2
  <1>5. Eq(h)
    <2> HIDE DEF Next3
    <2>1. h = [g \in P |-> h[g]]
      OBVIOUS
    <2>2. QED
      BY <1>4, <2>1
  <1>6. MaxEnd = CHOOSE f : Eq(f)
    BY DEF MaxEnd
  <1> HIDE DEF Eq
  <1>7. Eq(MaxEnd)
    BY <1>5, <1>6
  <1>8. QED
    BY <1>7 DEF Eq

(* ... so that no symbol of a segment ends after MaxEnd of it. *)
LEMMA MaxEndBounds ==
    ASSUME DataOK, NEW g \in Parts(Len(data))
    PROVE  /\ MaxEnd[g] \in Nat
           /\ \A i \in Indices : Within(i, g) => Node(i).end <= MaxEnd[g]
  <1> DEFINE P == Parts(Len(data))
             Good(s) == /\ MaxEnd[s] \in Nat
                        /\ \A i \in Indices : Within(i, s) => Node(i).end <= MaxEnd[s]
             Bad == {m \in Nat : \E s \in P : s[2] = m /\ ~Good(s)}
  <1>1. Len(data) \in Nat /\ \A s \in P : s[2] \in Nat
    BY DEF DataOK, Parts
  <1>2. SUFFICES ASSUME Bad # {} PROVE FALSE
    <2>1. Bad = {} => Good(g)
      BY <1>1
    <2>2. QED
      BY <2>1
  <1>3. PICK m \in Bad : \A k \in Bad : m <= k
    <2>1. Bad \in SUBSET Nat
      OBVIOUS
    <2> HIDE DEF Bad
    <2>2. QED
      BY <1>2, <2>1, LeastNatural
  <1>4. PICK s \in P : s[2] = m /\ ~Good(s)
    BY <1>3
  <1>5. \A t \in P : t[2] < m => Good(t)
    BY <1>1, <1>3
  <1>6. MaxEnd[s] = IF s[2] = 0 THEN 0
                    ELSE Max({Node(Root(s)).end, MaxEnd[Left(s)], MaxEnd[Right(s)]})
    BY MaxEndDefined
  <1>7. CASE s[2] = 0
    <2>1. \A i \in Indices : ~Within(i, s)
      BY <1>1, <1>7 DEF Within, Indices, Parts
    <2>2. QED
      BY <1>4, <1>6, <1>7, <2>1
  <1>8. CASE s[2] # 0
    <2>1. /\ Root(s) \in Indices /\ Left(s) \in P /\ Right(s) \in P
          /\ Left(s)[2] < m /\ Right(s)[2] < m
          /\ \A i \in Indices : Within(i, s) <=> \/ i = Root(s)
                                                 \/ Within(i, Left(s))
                                                 \/ Within(i, Right(s))
      BY <1>1, <1>4, <1>8, PartsOfPart DEF Indices
    <2>2. Good(Left(s)) /\ Good(Right(s)) /\ Node(Root(s)).end \in Nat
      BY <1>5, <2>1, Nodes
    <2> DEFINE e == Node(Root(s)).end
               l == MaxEnd[Left(s)]
               r == MaxEnd[Right(s)]
    <2>3. e \in Nat /\ l \in Nat /\ r \in Nat
      BY <2>2
    <2>4. MaxEnd[s] = Max({e, l, r})
      BY <1>6, <1>8
    <2>5. /\ MaxEnd[s] \in Nat
          /\ e <= MaxEnd[s] /\ l <= MaxEnd[s] /\ r <= MaxEnd[s]
      <3> HIDE DEF e, l, r
      <3>1. QED
        BY <2>3, <2>4, MaxOfThree
    <2>6. ASSUME NEW i \in Indices, Within(i, s) PROVE Node(i).end <= MaxEnd[s]
      <3>1. Node(i).end \in Nat
        BY Nodes
      <3>2. \/ i = Root(s)
            \/ Within(i, Left(s)) /\ Node(i).end <= l
            \/ Within(i, Right(s)) /\ Node(i).end <= r
        BY <2>1, <2>2, <2>6
      <3>3. QED
        BY <2>3, <2>5, <3>1, <3>2
    <2>7. QED
      BY <1>4, <2>5, <2>6
  <1>9. QED
    BY <1>7, <1>8

-----------------------------------------------------------------------------
(* The query.                                                              *)

Members(s) == {s[j] : j \in DOMAIN s}

(* The segments on two stacks put together. *)
LEMMA MembersOfConcat ==
    ASSUME NEW S, NEW s \in Seq(S), NEW t \in Seq(S)
    PROVE  s \o t \in Seq(S) /\ Members(s \o t) = Members(s) \cup Members(t)
  <1>1. /\ s \o t \in Seq(S)
        /\ Len(s \o t) = Len(s) + Len(t)
        /\ \A i \in 1 .. Len(s) + Len(t) :
              (s \o t)[i] = IF i <= Len(s) THEN s[i] ELSE t[i - Len(s)]
    BY ConcatProperties
  <1>2. /\ Len(s) \in Nat /\ Len(t) \in Nat
        /\ DOMAIN s = 1 .. Len(s) /\ DOMAIN t = 1 .. Len(t)
        /\ DOMAIN (s \o t) = 1 .. Len(s) + Len(t)
    BY <1>1
  <1>3. ASSUME NEW x \in Members(s) PROVE x \in Members(s \o t)
    <2>1. PICK j \in 1 .. Len(s) : x = s[j]
      BY <1>2 DEF Members
    <2>2. j \in 1 .. Len(s) + Len(t) /\ (s \o t)[j] = s[j]
      BY <1>1, <1>2
    <2>3. QED
      BY <1>2, <2>1, <2>2 DEF Members
  <1>4. ASSUME NEW x \in Members(t) PROVE x \in Members(s \o t)
    <2>1. PICK j \in 1 .. Len(t) : x = t[j]
      BY <1>2 DEF Members
    <2>2. j + Len(s) \in 1 .. Len(s) + Len(t) /\ (s \o t)[j + Len(s)] = t[j]
      BY <1>1, <1>2
    <2>3. QED
      BY <1>2, <2>1, <2>2 DEF Members
  <1>5. ASSUME NEW x \in Members(s \o t) PROVE x \in Members(s) \cup Members(t)
    <2>1. PICK j \in 1 .. Len(s) + Len(t) : x = (s \o t)[j]
      BY <1>2 DEF Members
    <2>2. CASE j <= Len(s)
      BY <1>1, <1>2, <2>1, <2>2 DEF Members
    <2>3. CASE j > Len(s)
      <3>1. j - Len(s) \in 1 .. Len(t) /\ x = t[j - Len(s)]
        BY <1>1, <1>2, <2>1, <2>3
      <3>2. QED
        BY <1>2, <3>1 DEF Members
    <2>4. QED
      BY <1>2, <2>2, <2>3
  <1>6. QED
    BY <1>1, <1>3, <1>4, <1>5

(* A stack and what is left of it when its top is taken. *)
LEMMA MembersOfRest ==
    ASSUME NEW S, NEW s \in Seq(S), s # <<>>
    PROVE  /\ s[Len(s)] \in S
           /\ SubSeq(s, 1, Len(s) - 1) \in Seq(S)
           /\ Members(s) = Members(SubSeq(s, 1, Len(s) - 1)) \cup {s[Len(s)]}
  <1> DEFINE n == Len(s)
             r == SubSeq(s, 1, n - 1)
  <1>1. n \in Nat \ {0} /\ DOMAIN s = 1 .. n /\ \A j \in 1 .. n : s[j] \in S
    BY EmptySeq
  <1>2. r = [j \in 1 .. n - 1 |-> s[j]]
    BY <1>1
  <1>3. r \in Seq(S) /\ DOMAIN r = 1 .. n - 1
    BY <1>1, <1>2
  <1>4. 1 .. n = (1 .. n - 1) \cup {n}
    BY <1>1
  <1> HIDE DEF r, n
  <1>5. Members(s) = Members(r) \cup {s[n]}
    BY <1>1, <1>2, <1>3, <1>4 DEF Members
  <1>6. QED
    BY <1>1, <1>3, <1>5 DEF r, n

(* The segments that one half puts on the stack: itself, if it is not empty. *)
LEMMA MembersOfOne ==
    ASSUME NEW n \in Nat, NEW g \in Parts(n)
    PROVE  /\ NonEmpty(g) \in Seq(Segments(n))
           /\ g[2] > 0 => Members(NonEmpty(g)) = {g}
  <1>1. CASE g[2] > 0
    <2>1. NonEmpty(g) = <<g>> /\ g \in Segments(n)
      BY <1>1 DEF NonEmpty, Segments
    <2>2. Members(<<g>>) = {g}
      BY DEF Members
    <2>3. QED
      BY <2>1, <2>2
  <1>2. CASE ~(g[2] > 0)
    BY <1>2 DEF NonEmpty
  <1>3. QED
    BY <1>1, <1>2

(* Nothing is looked at but symbols that cover the address, and none of these *)
(* is lost: it has been found or is in a segment still to search.             *)
FoundCover ==
    \A j \in DOMAIN found : found[j] \in Indices /\ Covers(Node(found[j]))

NothingLost ==
    pc # "build" =>
       \A i \in Indices : Covers(Node(i)) =>
          i \in Members(found) \/ \E g \in Members(todo) : Within(i, g)

QueryInv ==
    /\ FoundCover
    /\ NothingLost
    /\ pc = "build" => found = <<>>
    /\ pc \in {"build", "query"} => out = <<>>
    /\ pc \in {"walk", "done"} => todo = <<>>

(* from_iter establishes the invariant of the search: the whole tree is     *)
(* still to search.                                                         *)
LEMMA BuiltTree ==
    ASSUME TypeOK, QueryInv,
           NEW n \in 0 .. MaxSymbols, NEW S \in kSubset(n, Symbols), Build(S)
    PROVE  TypeOK' /\ QueryInv'
  <1>1. S \subseteq Symbols /\ Cardinality(S) = n /\ n \in Nat
    BY SymbolLookupAssumption DEF kSubset
  <1>2. /\ data' \in [1 .. n -> S]
        /\ {data'[i] : i \in 1 .. n} = S
        /\ \A i \in 1 .. n : i > 1 => data'[i - 1].start <= data'[i].start
    BY <1>1 DEF Build
  <1>3. data' \in Seq(Symbols) /\ Len(data') = n /\ DOMAIN data' = 1 .. n
    BY <1>1, <1>2
  <1>4. \A i, j \in 1 .. n : i < j => data'[i].start <= data'[j].start
    <2> DEFINE d == [i \in 1 .. n |-> data'[i].start]
    <2>1. d \in [1 .. n -> Nat]
      BY <1>1, <1>2, SymbolLookupAssumption
    <2>2. \A i \in 1 .. n : i > 1 => d[i - 1] + 0 <= d[i]
      <3>1. ASSUME NEW i \in 1 .. n, i > 1 PROVE d[i - 1] + 0 <= d[i]
        <4>1. i - 1 \in 1 .. n /\ d[i - 1] \in Nat
          BY <1>1, <2>1, <3>1
        <4>2. QED
          BY <1>2, <3>1, <4>1
      <3>2. QED
        BY <3>1
    <2> HIDE DEF d
    <2>3. \A i, j \in 1 .. n : i < j => d[i] + 0 <= d[j]
      BY <1>1, <2>1, <2>2, OrderedPairs
    <2>4. \A i, j \in 1 .. n : i < j => d[i] <= d[j]
      BY <2>1, <2>3
    <2>5. QED
      BY <2>4 DEF d
  <1>5. /\ pc = "build" /\ pc' = "query" /\ found = <<>> /\ out = <<>>
        /\ UNCHANGED <<va, inline, found, syms, out>>
    BY DEF Build, QueryInv
  <1>6. /\ todo' \in Seq(Segments(n))
        /\ \A i \in 0 .. n - 1 : \E g \in Members(todo') : Within(i, g)
    <2>1. CASE n = 0
      <3>1. S = {}
        BY <1>2, <2>1
      <3>2. todo' = <<>>
        BY <3>1 DEF Build
      <3>3. QED
        BY <2>1, <3>2
    <2>2. CASE n # 0
      <3>1. S # {}
        BY <1>1, <1>2, <2>2
      <3>2. todo' = <<<<0, n>>>>
        BY <1>1, <3>1 DEF Build
      <3>3. <<0, n>> \in Segments(n)
        BY <1>1, <2>2 DEF Segments, Parts
      <3>4. Members(todo') = {<<0, n>>}
        BY <3>2 DEF Members
      <3>5. \A i \in 0 .. n - 1 : Within(i, <<0, n>>)
        BY <1>1 DEF Within
      <3>6. QED
        BY <3>2, <3>3, <3>4, <3>5
    <2>3. QED
      BY <2>1, <2>2
  <1>7. TypeOK'
    BY <1>1, <1>3, <1>4, <1>5, <1>6 DEF TypeOK
  <1>8. QueryInv'
    <2>1. FoundCover'
      BY <1>5 DEF FoundCover
    <2>2. NothingLost'
      BY <1>3, <1>6 DEF NothingLost, Indices
    <2>3. QED
      BY <1>5, <2>1, <2>2 DEF QueryInv
  <1>9. QED
    BY <1>7, <1>8

(* One step of QueryIter::next keeps it: a symbol of the segment taken from  *)
(* the stack that covers the address is found or in a half put back, and a  *)
(* segment is dropped only when MaxEnd shows that nothing in it covers it.  *)
LEMMA SearchStep ==
    ASSUME TypeOK, QueryInv, Search
    PROVE  TypeOK' /\ QueryInv'
  <1> DEFINE n == Len(data)
             g == todo[Len(todo)]
             rest == SubSeq(todo, 1, Len(todo) - 1)
             i0 == Root(g)
             more == IF GoRight(i0) THEN NonEmpty(Right(g)) ELSE <<>>
  <1>1. DataOK /\ n \in Nat /\ n <= MaxSymbols /\ todo \in Seq(Segments(n)) /\ todo # <<>>
    BY SymbolLookupAssumption DEF TypeOK, DataOK, Search
  <1>2. /\ pc = "query"
        /\ UNCHANGED <<data, va, inline, pc, syms, out>>
    BY DEF Search, question
  <1>3. /\ g \in Segments(n) /\ rest \in Seq(Segments(n))
        /\ Members(todo) = Members(rest) \cup {g}
    BY <1>1, MembersOfRest
  <1>4. g \in Parts(n) /\ g[2] # 0
    BY <1>3 DEF Segments
  <1>5. /\ i0 \in Indices
        /\ Left(g) \in Parts(n) /\ Right(g) \in Parts(n)
        /\ \A i \in Indices : Within(i, g) <=> \/ i = i0
                                               \/ Within(i, Left(g))
                                               \/ Within(i, Right(g))
        /\ \A i \in Indices : Within(i, Right(g)) => i0 < i
    BY <1>1, <1>4, PartsOfPart DEF Indices
  <1>6. CASE va >= MaxEnd[g]
    <2>1. todo' = rest /\ found' = found
      BY <1>6 DEF Search
    <2>2. \A i \in Indices : Within(i, g) => ~Covers(Node(i))
      <3>1. MaxEnd[g] \in Nat /\ \A i \in Indices : Within(i, g) => Node(i).end <= MaxEnd[g]
        BY <1>1, <1>4, MaxEndBounds
      <3>2. va \in Nat /\ \A i \in Indices : Node(i).end \in Nat
        BY <1>1, Nodes, SymbolLookupAssumption DEF TypeOK
      <3>3. QED
        BY <1>6, <3>1, <3>2 DEF Covers
    <2>3. TypeOK'
      BY <1>2, <1>3, <2>1 DEF TypeOK
    <2>4. FoundCover'
      BY <1>2, <2>1 DEF QueryInv, FoundCover, Indices, Node, Covers
    <2>5. NothingLost'
      BY <1>2, <1>3, <2>1, <2>2 DEF QueryInv, NothingLost, Indices, Node, Covers, Within
    <2>6. QED
      BY <1>2, <2>3, <2>4, <2>5 DEF QueryInv
  <1>7. CASE ~(va >= MaxEnd[g])
    <2>1. /\ todo' = (rest \o NonEmpty(Left(g))) \o more
          /\ found' = IF GoRight(i0) /\ Intersects(i0) THEN Append(found, i0) ELSE found
      BY <1>7 DEF Search
    <2>2. NonEmpty(Left(g)) \in Seq(Segments(n)) /\ more \in Seq(Segments(n))
      BY <1>1, <1>5, MembersOfOne
    <2>3. /\ todo' \in Seq(Segments(n))
          /\ Members(todo') = Members(rest) \cup Members(NonEmpty(Left(g))) \cup Members(more)
      <3> HIDE DEF rest, more, g
      <3>1. /\ rest \o NonEmpty(Left(g)) \in Seq(Segments(n))
            /\ Members(rest \o NonEmpty(Left(g))) = Members(rest) \cup Members(NonEmpty(Left(g)))
        BY <1>3, <2>2, MembersOfConcat
      <3> DEFINE u == rest \o NonEmpty(Left(g))
      <3>2. u \in Seq(Segments(n)) /\ todo' = u \o more
        BY <2>1, <3>1
      <3> HIDE DEF u
      <3>3. /\ u \o more \in Seq(Segments(n))
            /\ Members(u \o more) = Members(u) \cup Members(more)
        BY <2>2, <3>2, MembersOfConcat
      <3>4. QED
        BY <3>1, <3>2, <3>3 DEF u
    <2>4. i0 \in 0 .. MaxSymbols
      BY <1>1, <1>5, SymbolLookupAssumption DEF Indices
    <2>5. found \in Seq(0 .. MaxSymbols)
      BY DEF TypeOK
    <2>6. /\ found' \in Seq(0 .. MaxSymbols)
          /\ Members(found') = Members(found) \cup
                (IF GoRight(i0) /\ Intersects(i0) THEN {i0} ELSE {})
      <3>1. CASE GoRight(i0) /\ Intersects(i0)
        <4>1. found' = Append(found, i0)
          BY <2>1, <3>1
        <4>2. /\ Append(found, i0) \in Seq(0 .. MaxSymbols)
              /\ DOMAIN Append(found, i0) = 1 .. Len(found) + 1
              /\ DOMAIN found = 1 .. Len(found) /\ Len(found) \in Nat
              /\ \A j \in 1 .. Len(found) : Append(found, i0)[j] = found[j]
              /\ Append(found, i0)[Len(found) + 1] = i0
          BY <2>4, <2>5, AppendProperties
        <4>3. 1 .. Len(found) + 1 = (1 .. Len(found)) \cup {Len(found) + 1}
          BY <4>2
        <4>4. QED
          BY <3>1, <4>1, <4>2, <4>3 DEF Members
      <3>2. CASE ~(GoRight(i0) /\ Intersects(i0))
        BY <2>1, <2>5, <3>2
      <3>3. QED
        BY <3>1, <3>2
    <2>7. TypeOK'
      BY <1>2, <2>3, <2>6 DEF TypeOK
    <2>8. va \in Nat /\ \A i \in Indices : Node(i).start \in Nat /\ Node(i).end \in Nat
      BY <1>1, Nodes, SymbolLookupAssumption DEF TypeOK
    <2>9. GoRight(i0) /\ Intersects(i0) <=> Covers(Node(i0))
      BY <1>5, <2>8 DEF GoRight, Intersects, Covers
    <2>10. \A i \in Indices : Within(i, Right(g)) /\ Covers(Node(i)) => GoRight(i0)
      <3>1. ASSUME NEW i \in Indices, Within(i, Right(g)), Covers(Node(i))
            PROVE  GoRight(i0)
        <4>1. i0 + 1 \in DOMAIN data /\ i + 1 \in DOMAIN data /\ i0 + 1 < i + 1
          BY <1>1, <1>5, <3>1 DEF Indices, DataOK
        <4>2. Node(i0).start <= Node(i).start
          BY <1>1, <4>1 DEF DataOK, Node
        <4>3. QED
          BY <1>5, <2>8, <3>1, <4>2 DEF Covers, GoRight
      <3>2. QED
        BY <3>1
    <2>11. \A i \in Indices : \A h \in {Left(g), Right(g)} : Within(i, h) => h[2] > 0
      <3>1. \A h \in Parts(n) : h[1] \in Nat /\ h[2] \in Nat
        BY DEF Parts
      <3>2. QED
        BY <1>1, <1>5, <3>1 DEF Within, Indices
    <2>12. FoundCover'
      <3>1. \A x \in Members(found') : x \in Indices /\ Covers(Node(x))
        BY <1>5, <2>6, <2>9 DEF QueryInv, FoundCover, Members
      <3>2. \A j \in DOMAIN found' : found'[j] \in Indices /\ Covers(Node(found'[j]))
        BY <3>1 DEF Members
      <3>3. QED
        BY <1>2, <3>2 DEF FoundCover, Indices, Node, Covers
    <2>13. \A i \in Indices : Covers(Node(i)) =>
             i \in Members(found') \/ \E h \in Members(todo') : Within(i, h)
      <3>1. ASSUME NEW i \in Indices, Covers(Node(i))
            PROVE  i \in Members(found') \/ \E h \in Members(todo') : Within(i, h)
        <4>1. \/ i \in Members(found)
              \/ \E h \in Members(rest) : Within(i, h)
              \/ Within(i, g)
          BY <1>2, <1>3, <3>1 DEF QueryInv, NothingLost
        <4>2. CASE i \in Members(found) \/ \E h \in Members(rest) : Within(i, h)
          BY <2>3, <2>6, <4>2
        <4>3. CASE Within(i, g)
          <5>1. CASE i = i0
            BY <2>6, <2>9, <3>1, <5>1
          <5>2. CASE Within(i, Left(g))
            <6>1. Members(NonEmpty(Left(g))) = {Left(g)}
              BY <1>1, <1>5, <2>11, <5>2, MembersOfOne
            <6>2. QED
              BY <2>3, <5>2, <6>1
          <5>3. CASE Within(i, Right(g))
            <6>1. Members(more) = {Right(g)}
              BY <1>1, <1>5, <2>10, <2>11, <3>1, <5>3, MembersOfOne
            <6>2. QED
              BY <2>3, <5>3, <6>1
          <5>4. QED
            BY <1>5, <4>3, <5>1, <5>2, <5>3
        <4>4. QED
          BY <4>1, <4>2, <4>3
      <3>2. QED
        BY <3>1
    <2>14. NothingLost'
      BY <1>2, <2>13 DEF NothingLost, Indices, Node, Covers, Within
    <2>15. QED
      BY <1>2, <2>7, <2>12, <2>14 DEF QueryInv
  <1>8. QED
    BY <1>6, <1>7

-----------------------------------------------------------------------------
(* The inline frames.                                                      *)

Covering == {i \in Indices : Covers(Node(i))}
Depths == {Node(i).depth : i \in Covering}

(* The search is over when nothing is left to search: all that covers the   *)
(* address has been found, and nothing else.                                *)
LEMMA FoundExactly ==
    ASSUME TypeOK, QueryInv, pc # "build", todo = <<>>
    PROVE  {found[j] : j \in DOMAIN found} = Covering
  <1>1. Members(todo) = {}
    BY DEF Members
  <1>2. \A i \in Covering : i \in Members(found)
    BY <1>1 DEF QueryInv, NothingLost, Covering
  <1>3. \A i \in Members(found) : i \in Covering
    BY DEF QueryInv, FoundCover, Members, Covering
  <1>4. QED
    BY <1>2, <1>3 DEF Members

(* The symbols to walk along, one of each depth that covers the address. *)
SymsInv ==
    pc \in {"walk", "done"} =>
       /\ \A k \in DOMAIN syms : \E i \in Covering : syms[k] = Node(i)
       /\ \A j, k \in DOMAIN syms : j < k => syms[j].depth < syms[k].depth
       /\ {syms[k].depth : k \in DOMAIN syms} = Depths

(* The symbols kept after the sort are one of each depth among those found, *)
(* outermost first.                                                         *)
LEMMA CollectStep ==
    ASSUME TypeOK, QueryInv, Collect
    PROVE  TypeOK' /\ QueryInv' /\ SymsInv'
  <1> DEFINE m == Cardinality({y.depth : y \in Matches})
  <1>1. /\ pc = "query" /\ todo = <<>> /\ pc' = "walk" /\ DataOK
        /\ UNCHANGED <<data, va, inline, todo, found, out>>
    BY DEF Collect, question, TypeOK, DataOK
  <1>2. Matches = {Node(i) : i \in Covering} /\ {y.depth : y \in Matches} = Depths
    <2>1. {found[j] : j \in DOMAIN found} = Covering
      BY <1>1, FoundExactly
    <2>2. Matches = {Node(i) : i \in Covering}
      BY <2>1 DEF Matches
    <2>3. QED
      BY <2>2 DEF Depths
  <1>3. \A y \in Matches : y \in Symbols /\ y.depth \in Nat
    BY <1>1, <1>2, Nodes DEF Covering
  <1>4. IsFiniteSet(Depths) /\ m \in Nat /\ m = Cardinality(Depths)
    <2> DEFINE f == [j \in 1 .. Len(found) |-> Node(found[j]).depth]
    <2>1. Len(found) \in Nat /\ DOMAIN found = 1 .. Len(found)
      BY DEF TypeOK
    <2>2. f \in Surjection(1 .. Len(found), Depths)
      <3>1. {found[j] : j \in 1 .. Len(found)} = Covering
        BY <1>1, <2>1, FoundExactly
      <3>2. f \in [1 .. Len(found) -> Depths]
        BY <3>1 DEF Depths
      <3>3. \A d \in Depths : \E j \in 1 .. Len(found) : f[j] = d
        BY <3>1 DEF Depths
      <3>4. QED
        BY <3>2, <3>3 DEF Surjection
    <2>3. IsFiniteSet(1 .. Len(found))
      BY <2>1, FS_Interval
    <2>4. IsFiniteSet(Depths)
      BY <2>2, <2>3, FS_Surjection
    <2>5. QED
      BY <1>2, <2>4, FS_CardinalityType
  <1> HIDE DEF m
  <1>5. /\ syms' \in [1 .. m -> Matches]
        /\ \A k \in 1 .. m : k > 1 => syms'[k - 1].depth < syms'[k].depth
    BY DEF Collect, m
  <1>6. syms' \in Seq(Symbols) /\ DOMAIN syms' = 1 .. m
    BY <1>3, <1>4, <1>5
  <1> DEFINE d == [k \in 1 .. m |-> syms'[k].depth]
  <1>7. d \in [1 .. m -> Nat] /\ d \in [1 .. m -> Depths]
    BY <1>2, <1>3, <1>5
  <1>8. \A j, k \in 1 .. m : j < k => d[j] < d[k]
    <2>1. ASSUME NEW k \in 1 .. m, k > 1 PROVE d[k - 1] + 1 <= d[k]
      <3>1. k - 1 \in 1 .. m /\ d[k - 1] \in Nat /\ d[k] \in Nat
        BY <1>4, <1>7, <2>1
      <3>2. d[k - 1] < d[k]
        BY <1>5, <2>1, <3>1
      <3>3. QED
        BY <3>1, <3>2
    <2> HIDE DEF d
    <2>2. \A j, k \in 1 .. m : j < k => d[j] + 1 <= d[k]
      BY <1>4, <1>7, <2>1, OrderedPairs
    <2>3. ASSUME NEW j \in 1 .. m, NEW k \in 1 .. m, j < k PROVE d[j] < d[k]
      <3>1. d[j] \in Nat /\ d[k] \in Nat /\ d[j] + 1 <= d[k]
        BY <1>7, <2>2, <2>3
      <3>2. QED
        BY <3>1
    <2>4. QED
      BY <2>3
  <1>9. {d[k] : k \in 1 .. m} = Depths
    <2> HIDE DEF d
    <2>1. \A j, k \in 1 .. m : j # k => d[j] # d[k]
      <3>1. ASSUME NEW j \in 1 .. m, NEW k \in 1 .. m, j # k PROVE d[j] # d[k]
        <4>1. j < k \/ k < j
          BY <1>4, <3>1
        <4>2. d[j] \in Nat /\ d[k] \in Nat
          BY <1>7
        <4>3. QED
          BY <1>8, <4>1, <4>2
      <3>2. QED
        BY <3>1
    <2>2. d \in Injection(1 .. m, Depths)
      BY <1>7, <2>1 DEF Injection, IsInjective
    <2>3. Cardinality(1 .. m) = m /\ IsFiniteSet(1 .. m)
      BY <1>4, FS_Interval
    <2>4. d \in Surjection(1 .. m, Depths)
      BY <1>4, <2>2, <2>3, FS_Injection
    <2>5. QED
      BY <1>7, <2>4 DEF Surjection
  <1>10. SymsInv'
    <2>1. \A k \in 1 .. m : \E i \in Covering : syms'[k] = Node(i)
      BY <1>2, <1>5
    <2>2. \A j, k \in 1 .. m : j < k => syms'[j].depth < syms'[k].depth
      BY <1>8
    <2>3. {syms'[k].depth : k \in 1 .. m} = Depths
      BY <1>9
    <2>4. Covering' = Covering /\ Depths' = Depths /\ \A i : Node(i)' = Node(i)
      BY <1>1 DEF Covering, Depths, Indices, Node, Covers
    <2> HIDE DEF d
    <2>5. QED
      BY <1>6, <2>1, <2>2, <2>3, <2>4 DEF SymsInv
  <1>11. TypeOK'
    BY <1>1, <1>6 DEF TypeOK
  <1>12. QueryInv'
    <2>1. FoundCover'
      BY <1>1 DEF QueryInv, FoundCover, Indices, Node, Covers
    <2>2. NothingLost'
      BY <1>1 DEF QueryInv, NothingLost, Indices, Node, Covers, Within, Members
    <2>3. QED
      BY <1>1, <2>1, <2>2 DEF QueryInv
  <1>13. QED
    BY <1>10, <1>11, <1>12

(* The frames returned so far are the first symbols, each with the line of   *)
(* the next, the last one with one of its line table.                        *)
OutInv ==
    /\ Len(out) <= Len(syms) \/ out = <<>>
    /\ ~inline => Len(out) <= 1
    /\ \A k \in DOMAIN out :
          /\ out[k].func = syms[k]
          /\ k < Len(syms) => out[k].site = {syms[k + 1]}
          /\ k = Len(syms) => out[k].site = {} /\ out[k].line = LineNumberForVa(syms[k])
    /\ pc = "done" => Len(out) = Len(syms) \/ (~inline /\ out # <<>>)

(* line_number_for_va finds the number of entries up to the address, and     *)
(* these come first.                                                         *)
LEMMA LineOfAddress ==
    ASSUME NEW y \in Symbols, va \in Addresses, y.start <= va
    PROVE  /\ LineNumberForVa(y) \in Nat
           /\ \A i \in DOMAIN y.table :
                 i <= LineNumberForVa(y) <=> y.start + y.table[i] <= va
  <1> DEFINE t == y.table
             o == va - y.start
             N == {n \in 0 .. Len(t) : \A i \in 1 .. n : t[i] <= o}
  <1>1. /\ y.start \in Nat /\ va \in Nat /\ o \in Nat
        /\ t \in Seq(Nat) /\ Len(t) \in Nat /\ DOMAIN t = 1 .. Len(t)
        /\ \A i \in 1 .. Len(t) : t[i] \in Nat
        /\ \A i, j \in DOMAIN t : i < j => t[i] <= t[j]
    BY SymbolLookupAssumption
  <1>2. LineNumberForVa(y) = Max(N)
    BY DEF LineNumberForVa
  <1> DEFINE l == Max(N)
  <1>3. l \in N /\ \A n \in N : n <= l
    <2>1. 0 \in N /\ N \in SUBSET Nat /\ \A n \in N : n <= Len(t)
      BY <1>1
    <2> HIDE DEF N
    <2>2. QED
      BY <1>1, <2>1, MaxOfBounded
  <1>4. ASSUME NEW i \in 1 .. Len(t)
        PROVE  i <= l <=> t[i] <= o
    <2>1. CASE i <= l
      <3>1. l \in 0 .. Len(t) /\ \A j \in 1 .. l : t[j] <= o
        BY <1>3
      <3>2. i \in 1 .. l
        BY <1>1, <2>1, <3>1
      <3>3. QED
        BY <2>1, <3>1, <3>2
    <2>2. CASE ~(i <= l) /\ t[i] <= o
      <3>1. \A j \in 1 .. i : t[j] <= o
        <4>1. ASSUME NEW j \in 1 .. i PROVE t[j] <= o
          <5>1. j \in 1 .. Len(t) /\ i \in 1 .. Len(t)
            BY <1>1
          <5>2. j = i \/ (j < i /\ t[j] <= t[i])
            <6>1. j = i \/ j < i
              BY <1>1
            <6>2. j \in DOMAIN t /\ i \in DOMAIN t
              BY <1>1, <5>1
            <6>3. j < i => t[j] <= t[i]
              BY <1>1, <6>2
            <6> HIDE DEF t
            <6>4. QED
              BY <6>1, <6>3
          <5>3. t[j] \in Nat /\ t[i] \in Nat
            BY <1>1, <5>1
          <5>4. t[i] <= o /\ o \in Nat
            BY <1>1, <2>2
          <5> HIDE DEF t, o
          <5>5. QED
            BY <5>2, <5>3, <5>4
        <4>2. QED
          BY <4>1
      <3>2. i \in N
        <4>1. i \in 0 .. Len(t)
          BY <1>1
        <4> HIDE DEF t, o
        <4>2. QED
          BY <3>1, <4>1
      <3>3. QED
        BY <1>3, <2>2, <3>2
    <2>3. QED
      BY <2>1, <2>2
  <1>5. l \in Nat
    <2>1. N \subseteq Nat
      BY <1>1
    <2> HIDE DEF N, l
    <2>2. QED
      BY <1>3, <2>1
  <1> HIDE DEF l, N
  <1>6. \A i \in 1 .. Len(t) : t[i] <= o <=> y.start + t[i] <= va
    BY <1>1
  <1>7. QED
    BY <1>1, <1>2, <1>4, <1>5, <1>6 DEF l

(* The inductive invariant: the search, the symbols kept, the frames made. *)
IInv == TypeOK /\ QueryInv /\ SymsInv /\ OutInv

(* One more frame of the inline trace. *)
LEMMA WalkStep ==
    ASSUME IInv, Walk
    PROVE  TypeOK' /\ OutInv'
  <1> DEFINE k == Len(out) + 1
             x == IF k < Len(syms)
                  THEN [func |-> syms[k], site |-> {syms[k + 1]}, line |-> 0]
                  ELSE [func |-> syms[k], site |-> {}, line |-> LineNumberForVa(syms[k])]
             X == [func : Symbols, site : SUBSET Symbols, line : Nat]
  <1>1. /\ pc = "walk" /\ Len(out) < Len(syms) /\ (inline \/ out = <<>>)
        /\ out' = Append(out, x)
        /\ UNCHANGED <<data, va, inline, pc, todo, found, syms>>
    BY DEF Walk, question
  <1>2. /\ out \in Seq(X) /\ syms \in Seq(Symbols) /\ va \in Addresses
        /\ Len(out) \in Nat /\ Len(syms) \in Nat /\ DOMAIN out = 1 .. Len(out)
        /\ k \in 1 .. Len(syms) /\ DOMAIN syms = 1 .. Len(syms)
    BY <1>1 DEF IInv, TypeOK
  <1>3. syms[k] \in Symbols /\ (k < Len(syms) => syms[k + 1] \in Symbols)
    BY <1>2
  <1>12. /\ k < Len(syms) \/ k = Len(syms)
        /\ ~(k < Len(syms) /\ k = Len(syms))
    <2>1. k \in 1 .. Len(syms) /\ Len(syms) \in Nat
      BY <1>2
    <2> HIDE DEF k
    <2>2. QED
      BY <2>1
  <1>4. LineNumberForVa(syms[k]) \in Nat
    <2>1. \E i \in Covering : syms[k] = Node(i)
      BY <1>1, <1>2 DEF IInv, SymsInv
    <2>2. syms[k].start <= va
      BY <2>1 DEF Covering, Covers
    <2>3. QED
      BY <1>2, <1>3, <2>2, LineOfAddress
  <1>5. /\ x \in X /\ x.func = syms[k]
        /\ k < Len(syms) => x.site = {syms[k + 1]}
        /\ k = Len(syms) => x.site = {} /\ x.line = LineNumberForVa(syms[k])
    <2>1. CASE k < Len(syms)
      <3>1. x = [func |-> syms[k], site |-> {syms[k + 1]}, line |-> 0] /\ k # Len(syms)
        <4>1. k # Len(syms)
          BY <1>12, <2>1
        <4> HIDE DEF k
        <4>2. QED
          BY <2>1, <4>1
      <3> HIDE DEF x
      <3>2. QED
        BY <1>3, <2>1, <3>1
    <2>2. CASE k = Len(syms)
      <3>1. /\ x = [func |-> syms[k], site |-> {}, line |-> LineNumberForVa(syms[k])]
            /\ ~(k < Len(syms))
        <4>1. ~(k < Len(syms))
          BY <1>12, <2>2
        <4> HIDE DEF k
        <4>2. QED
          BY <4>1
      <3> HIDE DEF x
      <3>2. QED
        BY <1>3, <1>4, <3>1
    <2>3. QED
      BY <1>12, <2>1, <2>2
  <1> HIDE DEF x
  <1>6. Cardinality(x.site) <= 1
    <2>1. x.site = {} \/ x.site = {syms[k + 1]}
      BY <1>12, <1>5
    <2>2. Cardinality({}) = 0 /\ Cardinality({syms[k + 1]}) = 1
      BY FS_EmptySet, FS_Singleton
    <2>3. CASE x.site = {}
      BY <2>2, <2>3
    <2>4. CASE x.site = {syms[k + 1]}
      BY <2>2, <2>4
    <2>5. QED
      BY <2>1, <2>3, <2>4
  <1>7. /\ out' \in Seq(X) /\ Len(out') = k /\ DOMAIN out' = 1 .. k
        /\ \A j \in 1 .. Len(out) : out'[j] = out[j]
        /\ out'[k] = x
    <2>1. x \in X
      BY <1>5
    <2> HIDE DEF X
    <2>2. out' \in Seq(X) /\ Len(out') = k
      BY <1>1, <1>2, <2>1
    <2>3. DOMAIN out' = 1 .. k
      BY <2>2
    <2>4. \A j \in 1 .. Len(out) : out'[j] = out[j]
      BY <1>1, <1>2, <2>1
    <2>5. out'[k] = x
      BY <1>1, <1>2, <2>1
    <2>6. QED
      BY <2>2, <2>3, <2>4, <2>5
  <1>8. \A j \in 1 .. k : j \in 1 .. Len(out) \/ j = k
    BY <1>2
  <1>9. TypeOK'
    <2>1. \A j \in 1 .. k : Cardinality(out'[j].site) <= 1
      BY <1>2, <1>6, <1>7, <1>8 DEF IInv, TypeOK
    <2> HIDE DEF k
    <2>2. QED
      BY <1>1, <1>7, <2>1 DEF IInv, TypeOK
  <1>10. OutInv'
    <2>1. Len(out') <= Len(syms)
      BY <1>2, <1>7
    <2>2. ~inline => Len(out') <= 1
      BY <1>1, <1>7
    <2>3. \A j \in 1 .. k :
             /\ out'[j].func = syms[j]
             /\ j < Len(syms) => out'[j].site = {syms[j + 1]}
             /\ j = Len(syms) => /\ out'[j].site = {}
                                 /\ out'[j].line = LineNumberForVa(syms[j])
      BY <1>2, <1>5, <1>7, <1>8 DEF IInv, OutInv
    <2>4. \A y : LineNumberForVa(y)' = LineNumberForVa(y)
      BY <1>1 DEF LineNumberForVa
    <2> HIDE DEF k
    <2>5. QED
      BY <1>1, <1>7, <2>1, <2>2, <2>3, <2>4 DEF OutInv
  <1>11. QED
    BY <1>9, <1>10

(* It holds of every state of a lookup. *)
LEMMA LookupInvariant == Spec => []IInv
  <1>1. Init => IInv
    <2> SUFFICES ASSUME Init PROVE IInv
      OBVIOUS
    <2>1. TypeOK
      BY SymbolLookupAssumption DEF Init, TypeOK
    <2>2. QueryInv
      BY DEF Init, QueryInv, FoundCover, NothingLost
    <2>3. SymsInv /\ OutInv
      BY DEF Init, SymsInv, OutInv
    <2>4. QED
      BY <2>1, <2>2, <2>3 DEF IInv
  <1>2. IInv /\ [Next]_vars => IInv'
    <2> SUFFICES ASSUME IInv, [Next]_vars PROVE IInv'
      OBVIOUS
    <2>1. TypeOK /\ QueryInv /\ SymsInv /\ OutInv
      BY DEF IInv
    <2>2. ASSUME NEW n \in 0 .. MaxSymbols, NEW S \in kSubset(n, Symbols), Build(S)
          PROVE  IInv'
      <3>1. TypeOK' /\ QueryInv'
        BY <2>1, <2>2, BuiltTree
      <3>2. pc' = "query" /\ out' = <<>>
        BY <2>1, <2>2 DEF Build, QueryInv
      <3>3. SymsInv' /\ OutInv'
        BY <3>1, <3>2 DEF SymsInv, OutInv, TypeOK
      <3>4. QED
        BY <3>1, <3>3 DEF IInv
    <2>3. CASE Search
      <3>1. TypeOK' /\ QueryInv'
        BY <2>1, <2>3, SearchStep
      <3>2. pc = "query" /\ pc' = "query" /\ out' = <<>>
        BY <2>1, <2>3 DEF Search, QueryInv
      <3>3. SymsInv' /\ OutInv'
        BY <3>1, <3>2 DEF SymsInv, OutInv, TypeOK
      <3>4. QED
        BY <3>1, <3>3 DEF IInv
    <2>4. CASE Collect
      <3>1. TypeOK' /\ QueryInv' /\ SymsInv'
        BY <2>1, <2>4, CollectStep
      <3>2. pc' = "walk" /\ out' = <<>>
        BY <2>1, <2>4 DEF Collect, QueryInv
      <3>3. OutInv'
        BY <3>1, <3>2 DEF OutInv, TypeOK
      <3>4. QED
        BY <3>1, <3>3 DEF IInv
    <2>5. ASSUME UNCHANGED <<data, va, inline, todo, found, syms>>,
                 pc \in {"walk", "done"}, pc' \in {"walk", "done"}
          PROVE  QueryInv' /\ SymsInv'
      <3>1. /\ Indices' = Indices /\ Covering' = Covering /\ Depths' = Depths
            /\ \A i : Node(i)' = Node(i)
        BY <2>5 DEF Covering, Depths, Indices, Node, Covers
      <3>2. SymsInv'
        BY <2>1, <2>5, <3>1 DEF SymsInv
      <3>3. FoundCover' /\ NothingLost'
        BY <2>1, <2>5 DEF QueryInv, FoundCover, NothingLost, Indices, Node, Covers, Within,
                          Members
      <3>4. QED
        BY <2>1, <2>5, <3>2, <3>3 DEF QueryInv
    <2>6. CASE Walk
      <3>1. TypeOK' /\ OutInv'
        BY <2>6, WalkStep
      <3>2. QueryInv' /\ SymsInv'
        BY <2>5, <2>6 DEF Walk, question
      <3>3. QED
        BY <3>1, <3>2 DEF IInv
    <2>7. CASE WalkDone
      <3>1. QueryInv' /\ SymsInv'
        BY <2>5, <2>7 DEF WalkDone, question
      <3>2. TypeOK'
        BY <2>1, <2>7 DEF WalkDone, question, TypeOK
      <3>3. \A y : LineNumberForVa(y)' = LineNumberForVa(y)
        BY <2>7 DEF WalkDone, question, LineNumberForVa
      <3>4. OutInv'
        BY <2>1, <2>7, <3>3 DEF WalkDone, question, OutInv
      <3>5. QED
        BY <3>1, <3>2, <3>4 DEF IInv
    <2>8. CASE UNCHANGED vars
      <3>1. \A y : LineNumberForVa(y)' = LineNumberForVa(y)
        BY <2>8 DEF vars, LineNumberForVa
      <3>2. TypeOK' /\ OutInv'
        BY <2>1, <2>8, <3>1 DEF vars, TypeOK, OutInv
      <3>3. QueryInv'
        BY <2>1, <2>8 DEF vars, QueryInv, FoundCover, NothingLost, Indices, Node, Covers,
                          Within, Members
      <3>4. SymsInv'
        <4>1. Covering' = Covering /\ Depths' = Depths /\ \A i : Node(i)' = Node(i)
          BY <2>8 DEF vars, Covering, Depths, Indices, Node, Covers
        <4>2. QED
          BY <2>1, <2>8, <4>1 DEF vars, SymsInv
      <3>5. QED
        BY <3>2, <3>3, <3>4 DEF IInv
    <2>9. QED
      BY <2>2, <2>3, <2>4, <2>6, <2>7, <2>8 DEF Next
  <1>3. QED
    BY <1>1, <1>2, PTL DEF Spec

(* The tree stays sorted by start, the stack holds segments of it, and a    *)
(* frame has at most one call site.                                         *)
THEOREM TypeCorrect == Spec => []TypeOK
  <1>1. IInv => TypeOK
    BY DEF IInv
  <1>2. QED
    BY <1>1, LookupInvariant, PTL

(* query_point of storage/rkyvtree.rs yields exactly the elements          *)
(* that contain the point, for every tree, whatever the ends and the order  *)
(* of equal starts.                                                         *)
THEOREM QueryAlwaysExact == Spec => []QueryExact
  <1>1. IInv => QueryExact
    <2> SUFFICES ASSUME IInv, pc \in {"walk", "done"}
                 PROVE  {found[j] : j \in DOMAIN found} = Covering
      BY DEF QueryExact, Covering, Indices
    <2>1. QED
      BY FoundExactly DEF IInv, QueryInv
  <1>2. QED
    BY <1>1, LookupInvariant, PTL

(* The frames that are done, in terms of the symbols walked along. *)
LEMMA DoneFrames ==
    ASSUME IInv, pc = "done"
    PROVE  /\ Len(out) \in Nat /\ DOMAIN out = 1 .. Len(out)
           /\ Len(syms) \in Nat /\ DOMAIN syms = 1 .. Len(syms)
           /\ Len(out) <= Len(syms)
           /\ inline => Len(out) = Len(syms)
           /\ ~inline => Len(out) <= 1 /\ (Len(syms) # 0 => Len(out) = 1)
           /\ \A k \in 1 .. Len(out) : out[k].func = syms[k]
           /\ \A k \in 1 .. Len(syms) :
                 syms[k] \in Symbols /\ syms[k].depth \in Nat /\ Covers(syms[k])
           /\ \A j, k \in 1 .. Len(syms) : j < k => syms[j].depth < syms[k].depth
           /\ {syms[k].depth : k \in 1 .. Len(syms)} = Depths
  <1>1. TypeOK /\ SymsInv /\ OutInv
    BY DEF IInv
  <1>2. /\ Len(out) \in Nat /\ DOMAIN out = 1 .. Len(out)
        /\ Len(syms) \in Nat /\ DOMAIN syms = 1 .. Len(syms)
        /\ \A k \in 1 .. Len(syms) : syms[k] \in Symbols
        /\ out = <<>> <=> Len(out) = 0
    BY <1>1 DEF TypeOK
  <1>3. \A k \in 1 .. Len(syms) : syms[k].depth \in Nat /\ Covers(syms[k])
    <2>1. \A k \in 1 .. Len(syms) : Covers(syms[k])
      BY <1>1, <1>2 DEF SymsInv, Covering
    <2>2. QED
      BY <1>2, <2>1, SymbolLookupAssumption
  <1>4. /\ Len(out) <= Len(syms)
        /\ inline => Len(out) = Len(syms)
        /\ ~inline => Len(out) <= 1 /\ (Len(syms) # 0 => Len(out) = 1)
    <2>1. /\ Len(out) <= Len(syms) \/ Len(out) = 0
          /\ ~inline => Len(out) <= 1
          /\ Len(out) = Len(syms) \/ (~inline /\ Len(out) # 0)
          /\ inline \in BOOLEAN
      BY <1>1, <1>2 DEF OutInv, TypeOK
    <2>2. Len(out) \in Nat /\ Len(syms) \in Nat
      BY <1>2
    <2>3. CASE inline
      BY <2>1, <2>2, <2>3
    <2>4. CASE ~inline
      <3>1. Len(out) <= 1
        BY <2>1, <2>4, Zenon
      <3>2. Len(out) = Len(syms) \/ Len(out) # 0
        BY <2>1, Zenon
      <3>3. /\ Len(out) <= Len(syms)
            /\ Len(syms) # 0 => Len(out) = 1
        <4>1. Len(out) <= Len(syms) \/ Len(out) = 0
          BY <2>1, Zenon
        <4>2. ASSUME NEW n \in Nat, NEW m \in Nat,
                     n <= 1, n = m \/ n # 0, n <= m \/ n = 0
              PROVE  n <= m /\ (m # 0 => n = 1)
          BY <4>2
        <4>3. QED
          BY <2>2, <3>1, <3>2, <4>1, <4>2, Zenon
      <3>4. QED
        BY <2>4, <3>1, <3>3
    <2>5. QED
      BY <2>3, <2>4
  <1>5. \A k \in 1 .. Len(out) : out[k].func = syms[k]
    BY <1>1, <1>2 DEF OutInv
  <1>6. /\ \A j, k \in 1 .. Len(syms) : j < k => syms[j].depth < syms[k].depth
        /\ {syms[k].depth : k \in 1 .. Len(syms)} = Depths
    BY <1>1, <1>2 DEF SymsInv
  <1>7. QED
    BY <1>2, <1>3, <1>4, <1>5, <1>6

(* symbolize_native_frame returns one frame for each depth there is,        *)
(* outermost first, or the outermost only when inline frames are not asked  *)
(* for; none exactly if no symbol covers the address.                       *)
THEOREM FramesAlwaysComplete == Spec => []FramesComplete
  <1>1. IInv => FramesComplete
    <2> SUFFICES ASSUME IInv, pc = "done"
                 PROVE  /\ {out[k].func.depth : k \in DOMAIN out} =
                             IF inline THEN Depths
                             ELSE {d \in Depths : \A e \in Depths : d <= e}
                        /\ \A j, k \in DOMAIN out :
                             j < k => out[j].func.depth < out[k].func.depth
      BY DEF FramesComplete, Depths, Covering, Indices
    <2> DEFINE m == Len(syms)
               n == Len(out)
    <2>1. /\ n \in Nat /\ DOMAIN out = 1 .. n /\ m \in Nat /\ n <= m
          /\ \A k \in 1 .. n : out[k].func = syms[k]
          /\ \A k \in 1 .. m : syms[k].depth \in Nat
          /\ \A j, k \in 1 .. m : j < k => syms[j].depth < syms[k].depth
          /\ {syms[k].depth : k \in 1 .. m} = Depths
      BY DoneFrames
    <2>2. inline => n = m
      BY DoneFrames
    <2>3. ~inline => n <= 1 /\ (m # 0 => n = 1)
      BY DoneFrames
    <2> HIDE DEF m, n
    <2>4. \A j, k \in DOMAIN out : j < k => out[j].func.depth < out[k].func.depth
      BY <2>1
    <2>5. CASE inline
      BY <2>1, <2>2, <2>5
    <2>6. CASE ~inline /\ m = 0
      <3>1. Depths = {} /\ DOMAIN out = {}
        BY <2>1, <2>6
      <3>2. QED
        BY <2>4, <2>6, <3>1
    <2>7. CASE ~inline /\ m # 0
      <3>1. n = 1 /\ DOMAIN out = {1} /\ 1 \in 1 .. m
        BY <2>1, <2>3, <2>7
      <3>2. {out[k].func.depth : k \in DOMAIN out} = {syms[1].depth}
        BY <2>1, <3>1
      <3>3. \A k \in 1 .. m : syms[1].depth <= syms[k].depth
        BY <2>1, <3>1
      <3>4. {d \in Depths : \A e \in Depths : d <= e} = {syms[1].depth}
        <4>1. syms[1].depth \in Depths /\ \A e \in Depths : syms[1].depth <= e
          BY <2>1, <3>1, <3>3
        <4>2. ASSUME NEW d \in Depths, \A e \in Depths : d <= e PROVE d = syms[1].depth
          <5>1. d \in Nat /\ syms[1].depth \in Nat
            BY <2>1, <3>1
          <5>2. d <= syms[1].depth /\ syms[1].depth <= d
            BY <4>1, <4>2
          <5>3. QED
            BY <5>1, <5>2
        <4>3. QED
          BY <4>1, <4>2
      <3>5. QED
        BY <2>4, <2>7, <3>2, <3>4
    <2>8. QED
      BY <2>4, <2>5, <2>6, <2>7
  <1>2. QED
    BY <1>1, LookupInvariant, PTL

(* symbolize_native_frame gives each frame the call site of the next frame  *)
(* inwards, with no depth between the two whether or not that frame is      *)
(* returned, and the innermost one the entry of its line table nearest      *)
(* before the address.                                                      *)
THEOREM LinesAlwaysExact == Spec => []LinesExact
  <1>1. IInv => LinesExact
    <2> SUFFICES ASSUME IInv, pc = "done", NEW k \in DOMAIN out
                 PROVE  LET y == out[k].func
                        IN  IF out[k].site = {}
                            THEN /\ \A i \in 0 .. Len(data) - 1 :
                                       Covers(Node(i)) => Node(i).depth <= y.depth
                                 /\ \A i \in DOMAIN y.table :
                                       i <= out[k].line <=> y.start + y.table[i] <= va
                            ELSE \A z \in out[k].site :
                                    /\ Covers(z)
                                    /\ z.depth > y.depth
                                    /\ \A i \in 0 .. Len(data) - 1 :
                                          Covers(Node(i)) =>
                                             \/ Node(i).depth <= y.depth
                                             \/ Node(i).depth >= z.depth
                                    /\ k < Len(out) => z = out[k + 1].func
      BY DEF LinesExact
    <2> DEFINE y == out[k].func
               m == Len(syms)
    <2>1. /\ Len(out) \in Nat /\ m \in Nat /\ Len(out) <= m
          /\ k \in 1 .. Len(out)
          /\ \A j \in 1 .. Len(out) : out[j].func = syms[j]
          /\ \A j \in 1 .. m : syms[j] \in Symbols /\ syms[j].depth \in Nat /\ Covers(syms[j])
          /\ \A i, j \in 1 .. m : i < j => syms[i].depth < syms[j].depth
          /\ {syms[j].depth : j \in 1 .. m} = Depths
      BY DoneFrames
    <2>2. /\ k < m => out[k].site = {syms[k + 1]}
          /\ k = m => out[k].site = {} /\ out[k].line = LineNumberForVa(syms[k])
      BY DEF IInv, OutInv
    <2>3. y = syms[k] /\ k \in 1 .. m
      BY <2>1
    <2>4. CASE k = m
      <3>1. \A i \in Indices : Covers(Node(i)) => Node(i).depth <= y.depth
        <4>1. ASSUME NEW i \in Indices, Covers(Node(i)) PROVE Node(i).depth <= y.depth
          <5>1. Node(i).depth \in Depths
            BY <4>1 DEF Depths, Covering
          <5>2. PICK j \in 1 .. m : Node(i).depth = syms[j].depth
            BY <2>1, <5>1
          <5>3. j = k \/ j < k
            BY <2>1, <2>4
          <5>4. QED
            BY <2>1, <2>3, <5>2, <5>3
        <4>2. QED
          BY <4>1
      <3>2. \A i \in DOMAIN y.table : i <= out[k].line <=> y.start + y.table[i] <= va
        <4>1. y \in Symbols /\ y.start <= va /\ va \in Addresses
          BY <2>1, <2>3 DEF Covers, IInv, TypeOK
        <4>2. out[k].line = LineNumberForVa(y)
          BY <2>2, <2>3, <2>4
        <4> HIDE DEF y
        <4>3. QED
          BY <4>1, <4>2, LineOfAddress
      <3>3. out[k].site = {}
        BY <2>2, <2>4
      <3> HIDE DEF m
      <3>4. QED
        BY <3>1, <3>2, <3>3 DEF Indices
    <2>5. CASE k # m
      <3>1. k < m /\ k + 1 \in 1 .. m
        BY <2>1, <2>3, <2>5
      <3>2. out[k].site = {syms[k + 1]}
        BY <2>2, <3>1
      <3>3. /\ Covers(syms[k + 1]) /\ syms[k + 1].depth > y.depth
            /\ k < Len(out) => syms[k + 1] = out[k + 1].func
        BY <2>1, <2>3, <3>1
      <3>4. ASSUME NEW i \in Indices, Covers(Node(i))
            PROVE  \/ Node(i).depth <= y.depth
                   \/ Node(i).depth >= syms[k + 1].depth
        <4>1. Node(i).depth \in Depths
          BY <3>4 DEF Depths, Covering
        <4>2. PICK j \in 1 .. m : Node(i).depth = syms[j].depth
          BY <2>1, <4>1
        <4>3. j < k \/ j = k \/ j = k + 1 \/ k + 1 < j
          BY <2>1
        <4>4. QED
          BY <2>1, <2>3, <3>1, <4>2, <4>3
      <3> HIDE DEF m
      <3>5. QED
        BY <3>2, <3>3, <3>4 DEF Indices
    <2>6. QED
      BY <2>4, <2>5
  <1>2. QED
    BY <1>1, LookupInvariant, PTL
=============================================================================
