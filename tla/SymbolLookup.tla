---------------------------- MODULE SymbolLookup ----------------------------
(***************************************************************************)
(* How a native frame gets its symbols: the interval tree of an executable *)
(* (storage/rkyvtree.rs), the point query over it, and the walk along the  *)
(* inline frames it finds (symbolize_native_frame, storage/symdb/mod.rs).  *)
(*                                                                         *)
(* The tree is a vector sorted by the start of the ranges.  A segment      *)
(* <<s, l>> of it, l nodes from index s, is a subtree: its root is the     *)
(* node in the middle, which also holds the largest end of the segment.    *)
(* The query keeps a stack of segments still to search.                    *)
(*                                                                         *)
(* A symbol is its range and its depth in the inline trace; function, file *)
(* and call site are fields nobody computes with.  Its line table is a     *)
(* sequence of offsets; the line is the place in the table, 0 for none.    *)
(* Both sorts are unstable: equal keys come in any order.  Two identical   *)
(* elements of a file are one here: a query yields both and Collect keeps  *)
(* one symbol of a depth.                                                  *)
(***************************************************************************)
EXTENDS Naturals, Sequences, FiniteSets, FiniteSetsExt

CONSTANTS
    Symbols,     \* what a symbol file may hold: start, end, depth, table
    MaxSymbols,  \* bound on how many of them
    Addresses    \* addresses of frames

ASSUME SymbolLookupAssumption ==
    /\ \A y \in Symbols :
          /\ y.start \in Nat /\ y.end \in Nat /\ y.depth \in Nat
          /\ y.table \in Seq(Nat)
          /\ \A i, j \in DOMAIN y.table : i < j => y.table[i] <= y.table[j]
    /\ MaxSymbols \in Nat
    /\ Addresses \subseteq Nat

VARIABLES
    data,    \* the elements of the tree, data[i + 1] at index i
    pc,      \* "build", "query", "walk" or "done"
    va,      \* the address looked up
    inline,  \* are inline frames asked for?
    todo,    \* the segments the query has still to search, the next one last
    found,   \* the indices it has yielded
    syms,    \* the symbols to walk along, outermost first
    out      \* the frames to return: the function's symbol, the symbol whose
             \* call site gives the line (none: the line table), and the line

vars == <<data, pc, va, inline, todo, found, syms, out>>
question == <<data, va, inline>>

Parts(n) == {g \in (0 .. n) \X (0 .. n) : g[1] + g[2] <= n}
Segments(n) == {g \in Parts(n) : g[2] > 0}

TypeOK ==
    /\ data \in Seq(Symbols) /\ Len(data) <= MaxSymbols
    /\ \A i, j \in DOMAIN data : i < j => data[i].start <= data[j].start
    /\ pc \in {"build", "query", "walk", "done"}
    /\ va \in Addresses
    /\ inline \in BOOLEAN
    /\ todo \in Seq(Segments(Len(data)))
    /\ found \in Seq(0 .. MaxSymbols)
    /\ syms \in Seq(Symbols)
    /\ out \in Seq([func : Symbols, site : SUBSET Symbols, line : Nat])
    /\ \A k \in DOMAIN out : Cardinality(out[k].site) <= 1

-----------------------------------------------------------------------------
(* The tree.                                                               *)

Node(i) == data[i + 1]
Root(g) == g[1] + g[2] \div 2
Left(g) == <<g[1], Root(g) - g[1]>>
Right(g) == <<Root(g) + 1, g[1] + g[2] - Root(g) - 1>>

\* Mutant of MaxEnd: the right half is passed over.
MaxEndLeft ==
    LET f[g \in Parts(Len(data))] ==
           IF g[2] = 0 THEN 0 ELSE Max({Node(Root(g)).end, f[Left(g)]})
    IN  f

\* update_max: the largest end in a segment, which its root holds.
MaxEnd ==
    LET f[g \in Parts(Len(data))] ==
           IF g[2] = 0 THEN 0
           ELSE Max({Node(Root(g)).end, f[Left(g)], f[Right(g)]})
    IN  f

\* Mutant of Build: the symbols stay in the order of the file.
BuildUnsorted(S) ==
    /\ pc = "build"
    /\ data' \in {d \in [1 .. Cardinality(S) -> S] : {d[i] : i \in DOMAIN d} = S}
    /\ pc' = "query"
    /\ todo' = IF S = {} THEN <<>> ELSE <<<<0, Cardinality(S)>>>>
    /\ UNCHANGED <<va, inline, found, syms, out>>

\* from_iter: the symbols of the file, sorted by start.
Build(S) ==
    /\ pc = "build"
    /\ data' \in {d \in [1 .. Cardinality(S) -> S] :
                     /\ {d[i] : i \in DOMAIN d} = S
                     /\ \A i \in DOMAIN d :
                           i > 1 => d[i - 1].start <= d[i].start}
    /\ pc' = "query"
    /\ todo' = IF S = {} THEN <<>> ELSE <<<<0, Cardinality(S)>>>>
    /\ UNCHANGED <<va, inline, found, syms, out>>

-----------------------------------------------------------------------------
(* The query.                                                              *)

NonEmpty(g) == IF g[2] > 0 THEN <<g>> ELSE <<>>

\* Query::go_right of a point.
GoRight(i) == va >= Node(i).start

\* Mutant of Intersects: the end of a range belongs to it.
IntersectsEnd(i) == va <= Node(i).end

\* Query::intersect of a point, after go_right.
Intersects(i) == va < Node(i).end

\* QueryIter::next, one segment: none of it ends after the address, or the
\* left half is to be searched, and if the root starts early enough the
\* right half and the root.
Search ==
    /\ pc = "query"
    /\ todo # <<>>
    /\ LET g == todo[Len(todo)]
           rest == SubSeq(todo, 1, Len(todo) - 1)
           i == Root(g)
       IN  IF va >= MaxEnd[g]
           THEN todo' = rest /\ UNCHANGED found
           ELSE /\ todo' = rest \o NonEmpty(Left(g))
                              \o (IF GoRight(i) THEN NonEmpty(Right(g)) ELSE <<>>)
                /\ found' = IF GoRight(i) /\ Intersects(i) THEN Append(found, i)
                            ELSE found
    /\ UNCHANGED <<question, pc, syms, out>>

-----------------------------------------------------------------------------
(* The inline frames.                                                      *)

Matches == {Node(found[j]) : j \in DOMAIN found}

\* Mutant of Collect: symbols of one depth are all kept.
CollectAll ==
    /\ pc = "query"
    /\ todo = <<>>
    /\ syms' \in {q \in [1 .. Cardinality(Matches) -> Matches] :
                     /\ {q[i] : i \in DOMAIN q} = Matches
                     /\ \A i \in DOMAIN q : i > 1 => q[i - 1].depth <= q[i].depth}
    /\ pc' = "walk"
    /\ UNCHANGED <<question, todo, found, out>>

\* Sorted by depth, and one symbol kept of each depth: any of them, as the
\* sort is unstable.
Collect ==
    /\ pc = "query"
    /\ todo = <<>>
    /\ LET depths == {y.depth : y \in Matches}
       IN  syms' \in {q \in [1 .. Cardinality(depths) -> Matches] :
                         \A i \in DOMAIN q : i > 1 => q[i - 1].depth < q[i].depth}
    /\ pc' = "walk"
    /\ UNCHANGED <<question, todo, found, out>>

\* Mutant of LineNumberForVa: an entry that starts at the address is left out.
LineNumberBefore(y) ==
    Max({n \in 0 .. Len(y.table) :
           \A i \in 1 .. n : y.table[i] < va - y.start})

\* line_number_for_va: the last entry before the first one past the address.
LineNumberForVa(y) ==
    Max({n \in 0 .. Len(y.table) :
           \A i \in 1 .. n : y.table[i] <= va - y.start})

\* Mutant of Walk: every frame has the call site of the innermost one.
WalkInnermost ==
    /\ pc = "walk"
    /\ Len(out) < Len(syms)
    /\ inline \/ out = <<>>
    /\ LET k == Len(out) + 1
       IN  out' = Append(out, IF k < Len(syms)
                    THEN [func |-> syms[k], site |-> {syms[Len(syms)]}, line |-> 0]
                    ELSE [func |-> syms[k], site |-> {},
                          line |-> LineNumberForVa(syms[k])])
    /\ UNCHANGED <<question, pc, todo, found, syms>>

\* The next frame: it is where the one it inlines is called from, the
\* innermost one where its line table says.
Walk ==
    /\ pc = "walk"
    /\ Len(out) < Len(syms)
    /\ inline \/ out = <<>>
    /\ LET k == Len(out) + 1
       IN  out' = Append(out, IF k < Len(syms)
                    THEN [func |-> syms[k], site |-> {syms[k + 1]}, line |-> 0]
                    ELSE [func |-> syms[k], site |-> {},
                          line |-> LineNumberForVa(syms[k])])
    /\ UNCHANGED <<question, pc, todo, found, syms>>

\* No frame means that the frame is returned unsymbolized.
WalkDone ==
    /\ pc = "walk"
    /\ Len(out) = Len(syms) \/ (~inline /\ out # <<>>)
    /\ pc' = "done"
    /\ UNCHANGED <<question, todo, found, syms, out>>

Init ==
    /\ data = <<>>
    /\ pc = "build"
    /\ va \in Addresses
    /\ inline \in BOOLEAN
    /\ todo = <<>>
    /\ found = <<>>
    /\ syms = <<>>
    /\ out = <<>>

Next ==
    \/ \E n \in 0 .. MaxSymbols : \E S \in kSubset(n, Symbols) : Build(S)
    \/ Search \/ Collect \/ Walk \/ WalkDone

Spec == Init /\ [][Next]_vars

-----------------------------------------------------------------------------
(* Properties.                                                             *)

Covers(y) == y.start <= va /\ va < y.end
Within(i, g) == g[1] <= i /\ i < g[1] + g[2]

\* "Queries the interval tree for all elements containing a given point":
\* those and no others, whatever the ends and the order of equal starts.
QueryExact ==
    pc \in {"walk", "done"} =>
       {found[j] : j \in DOMAIN found} =
          {i \in 0 .. Len(data) - 1 : Covers(Node(i))}

\* The frames are one for each depth there is, outermost first; without
\* inline frames the outermost only; none exactly if no symbol covers the
\* address.
FramesComplete ==
    pc = "done" =>
       LET depths == {Node(i).depth : i \in {j \in 0 .. Len(data) - 1 :
                                               Covers(Node(j))}}
       IN  /\ {out[k].func.depth : k \in DOMAIN out} =
                 IF inline THEN depths ELSE {d \in depths : \A e \in depths : d <= e}
           /\ \A j, k \in DOMAIN out :
                 j < k => out[j].func.depth < out[k].func.depth

\* A frame's line is that of the next frame inwards, returned or not: no depth
\* lies between the two.  The innermost one's is the entry of its line table
\* nearest before the address.
LinesExact ==
    pc = "done" =>
       \A k \in DOMAIN out :
          LET y == out[k].func
          IN  IF out[k].site = {}
              THEN /\ \A i \in 0 .. Len(data) - 1 :
                         Covers(Node(i)) => Node(i).depth <= y.depth
                   /\ \A i \in DOMAIN y.table :
                         i <= out[k].line <=> y.start + y.table[i] <= va
              ELSE \A z \in out[k].site :
                      /\ Covers(z)
                      /\ z.depth > y.depth
                      /\ \A i \in 0 .. Len(data) - 1 :
                            Covers(Node(i)) => \/ Node(i).depth <= y.depth
                                               \/ Node(i).depth >= z.depth
                      /\ k < Len(out) => z = out[k + 1].func
=============================================================================
