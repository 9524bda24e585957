----------------------------- MODULE FlameGraph -----------------------------
(***************************************************************************)
(* The flame graph (ui/tabs/flamegraph.rs).  build_flame_graph merges the  *)
(* events of a range, one trace after the other and frame by frame, into a *)
(* tree below one node per comm; build_sandwich_view takes the tree apart  *)
(* again into what is above and what is below one frame.                   *)
(*                                                                         *)
(* A node is the path of IDs that leads to it from the root.  The ID of a  *)
(* comm's node is the number of comms before it, the root's is 0.  All     *)
(* nodes of an inlined chain carry the ID of their frame, so a frame that  *)
(* calls itself and a frame with an inlined function have the same paths;  *)
(* what tells them apart is inline_skip.  The order of children, their     *)
(* texts and colors are left out.                                          *)
(***************************************************************************)
EXTENDS Profile, Sums

\* A comm's node has file ID 0 and a number, which is no frame's ID: file IDs are
\* hashes or build IDs, and (1, 1) for an abort marker (service.rs:205).
ASSUME FlameAssumption == Frames \cap Nat = {}

VARIABLES
    fpc,      \* "idle", "build", "shown" or "sandwich"
    inline,   \* are inlined functions shown?
    left,     \* the events still to come from the table task
    comms,    \* the comms in the order of their nodes
    weight,   \* weight[p], for every node p but the root
    skip,     \* skip[p]: inline_skip
    at,       \* the node insert_trace has come to
    rest,     \* the frames it has still to insert, from the root's side
    taken,    \* (history) the events merged so far
    target,   \* the frame of the sandwich view
    callers,  \* its trees, from paths to weights
    callees

graph == <<inline, comms, weight, skip>>
walk == <<left, at, rest, taken>>
sandwich == <<target, callers, callees>>
flame == <<fpc, graph, walk, sandwich>>

Nodes == DOMAIN weight
RootId == 0
CommId(comm) == CHOOSE i \in 0 .. Len(comms) - 1 : comms[i + 1] = comm
Id(p) == IF p = <<>> THEN RootId ELSE Last(p)

FlameTypeOK ==
    /\ fpc \in {"idle", "build", "shown", "sandwich"}
    /\ inline \in BOOLEAN
    /\ left \subseteq snap \cup EventKeys
    /\ Range(comms) \subseteq Comms /\ IsInjective(comms)
    /\ DOMAIN skip = Nodes
    /\ \A p \in Nodes : weight[p] \in Nat \ {0} /\ skip[p] \in Nat
    /\ at # <<>> => at \in Nodes
    /\ rest \in Seq(Frames)
    /\ taken \cap left = {}

\* The nodes that hang below node p.
Children(p) == {q \in Nodes : q # <<>> /\ Front(q) = p}

\* children.first_mut(): there is only one child where it is used.
FirstChild(p) == CHOOSE q \in Children(p) : TRUE

\* The node for a frame below node p, and the nodes of the functions inlined
\* in it: as many as inline_skip says.
Chain(p, f) ==
    LET first == Append(p, f)
        node[i \in 0 .. skip[first]] ==
            IF i = 0 THEN first ELSE FirstChild(node[i - 1])
    IN  [i \in 1 .. skip[first] + 1 |-> node[i - 1]]

Known(p, f) == Append(p, f) \in Nodes

\* One more event comes by these nodes, some of them new.
Counted(nodes) ==
    [p \in Nodes \cup nodes |->
        (IF p \in Nodes THEN weight[p] ELSE 0) + IF p \in nodes THEN 1 ELSE 0]

-----------------------------------------------------------------------------
\* The tab is drawn and there is no tree for the range.
AskFlame(q, i) ==
    /\ fpc = "idle"
    /\ fpc' = "build"
    /\ inline' = i
    /\ left' = TimeRange(events, q.kind, q.start, q.end)
    /\ Opened
    /\ UNCHANGED <<comms, weight, skip, at, rest, taken, sandwich>>

\* The next event from the channel: one without a trace is skipped, ...
SkipEvent ==
    /\ fpc = "build" /\ rest = <<>> /\ left # {}
    /\ LET k == First(left)
       IN  /\ Sample[k].trace \notin stored
           /\ left' = left \ {k}
    /\ UNCHANGED <<fpc, graph, at, rest, taken, sandwich, tables>>

\* ... another begins at the node of its comm, a new one if need be.
InsertTrace ==
    /\ fpc = "build" /\ rest = <<>> /\ left # {}
    /\ LET k == First(left)
           known == Sample[k].comm \in Range(comms)
           id == IF known THEN CommId(Sample[k].comm) ELSE Len(comms)
       IN  /\ Sample[k].trace \in stored
           /\ left' = left \ {k}
           /\ taken' = taken \cup {k}
           /\ comms' = IF known THEN comms ELSE Append(comms, Sample[k].comm)
           /\ weight' = Counted({<<id>>})
           /\ skip' = [p \in DOMAIN weight' |-> IF p \in Nodes THEN skip[p] ELSE 0]
           /\ at' = <<id>>
           /\ rest' = Reverse(Sample[k].trace)
    /\ UNCHANGED <<fpc, inline, sandwich, tables>>

\* Mutant of PassFrame: the inlined functions of a known frame are not passed.
PassFrameOnly ==
    /\ fpc = "build" /\ rest # <<>>
    /\ Known(at, Head(rest))
    /\ at' = Append(at, Head(rest))
    /\ weight' = [weight EXCEPT ![at'] = @ + 1]
    /\ rest' = Tail(rest)
    /\ UNCHANGED <<fpc, inline, comms, skip, left, taken, sandwich, tables>>

\* A frame that is known here: the weight is added to its node and to those
\* of its inlined functions, whatever its symbols are by now.
PassFrame ==
    /\ fpc = "build" /\ rest # <<>>
    /\ Known(at, Head(rest))
    /\ LET nodes == Chain(at, Head(rest))
       IN  /\ weight' = Counted(Range(nodes))
           /\ at' = Last(nodes)
    /\ rest' = Tail(rest)
    /\ UNCHANGED <<fpc, inline, comms, skip, left, taken, sandwich, tables>>

\* A frame that is new here gets a node, and a chain of nodes below it for
\* what is inlined.
AddFrame ==
    /\ fpc = "build" /\ rest # <<>>
    /\ ~Known(at, Head(rest))
    /\ LET n == Len(Symbolize(Head(rest), inline))
           node(i) == at \o [j \in 1 .. i |-> Head(rest)]
           new == {node(i) : i \in 1 .. n}
       IN  /\ weight' = Counted(new)
           /\ skip' = [p \in Nodes \cup new |-> IF p \in Nodes THEN skip[p]
                                               ELSE IF p = node(1) THEN n - 1 ELSE 0]
           /\ at' = node(n)
    /\ rest' = Tail(rest)
    /\ UNCHANGED <<fpc, inline, comms, left, taken, sandwich, tables>>

\* The root gets the comms' nodes and the tree is shown.
ShowGraph ==
    /\ fpc = "build" /\ rest = <<>> /\ left = {}
    /\ fpc' = "shown"
    /\ at' = <<>>
    /\ UNCHANGED <<graph, left, rest, taken, sandwich, tables>>

-----------------------------------------------------------------------------
(* The sandwich view.                                                      *)

Suffix(p, n) == SubSeq(p, n + 1, Len(p))

\* Mutant of Hits: the search goes on below a hit.
HitsAll(id) == {p \in Nodes \cup {<<>>} : Id(p) = id}

\* collect_paths_through_frame does not look below a node it has found.
Hits(id) ==
    {p \in Nodes \cup {<<>>} :
        /\ Id(p) = id
        /\ \A i \in 0 .. Len(p) - 1 : Id(SubSeq(p, 1, i)) # id}

\* path_above, from the immediate caller down.  What has the root's ID is not
\* in it: the root, and the first comm, which only a path's head can be.
Above(p) ==
    LET first == IF p # <<>> /\ p[1] = RootId THEN 2 ELSE 1
    IN  Reverse(SubSeq(p, first, Len(p) - 1))

\* insert_caller_path, for every hit that has callers: a path from the
\* immediate caller up.
CallerTree(hits) ==
    LET called == {h \in hits : Above(h) # <<>>}
        paths == UNION {Prefixes(Above(h)) : h \in called}
    IN  [q \in paths \cup {<<>>} |->
            Total({h \in called : IsPrefix(q, Above(h))}, weight)]

\* insert_callee_subtree, for every hit: the nodes below it.
CalleeTree(hits) ==
    LET below(h) == {p \in Nodes : IsStrictPrefix(h, p)}
        paths == UNION {{Suffix(p, Len(h)) : p \in below(h)} : h \in hits}
    IN  [q \in paths \cup {<<>>} |->
            IF q = <<>> THEN Total(UNION {Children(h) : h \in hits}, weight)
            ELSE Total({p \in Nodes : \E h \in hits : p = h \o q}, weight)]

\* Ctrl+click on a node.
Sandwich(p) ==
    /\ fpc = "shown"
    /\ fpc' = "sandwich"
    /\ target' = Id(p)
    /\ callers' = CallerTree(Hits(Id(p)))
    /\ callees' = CalleeTree(Hits(Id(p)))
    /\ UNCHANGED <<graph, walk, tables>>

\* A double-click leaves the view.
LeaveSandwich ==
    /\ fpc = "sandwich"
    /\ fpc' = "shown"
    /\ target' = RootId
    /\ callers' = <<>>
    /\ callees' = <<>>
    /\ UNCHANGED <<graph, walk, tables>>

\* Another range is selected and the tree dropped.
DropGraph ==
    /\ fpc = "shown"
    /\ fpc' = "idle"
    /\ inline' = FALSE
    /\ comms' = <<>>
    /\ weight' = <<>>
    /\ skip' = <<>>
    /\ taken' = {}
    /\ stored' = Traces
    /\ chain' = AnyChain
    /\ UNCHANGED <<left, at, rest, sandwich>>

FlameInit ==
    /\ fpc = "idle"
    /\ inline = FALSE
    /\ comms = <<>>
    /\ weight = <<>>
    /\ skip = <<>>
    /\ left = {}
    /\ at = <<>>
    /\ rest = <<>>
    /\ taken = {}
    /\ target = RootId
    /\ callers = <<>>
    /\ callees = <<>>

FlameNext ==
    \/ \E q \in Ranges, i \in BOOLEAN : AskFlame(q, i)
    \/ SkipEvent \/ InsertTrace \/ PassFrame \/ AddFrame \/ ShowGraph
    \/ \E p \in Nodes \cup {<<>>} : Sandwich(p)
    \/ LeaveSandwich \/ DropGraph
    \/ fpc = "build" /\ TablesChange /\ UNCHANGED flame

-----------------------------------------------------------------------------
(* Properties.                                                             *)

Calls(k) == Reverse(Sample[k].trace)

\* place[i]: the node an event's first i frames lead to.
Place(k) ==
    LET place[i \in 0 .. Len(Calls(k))] ==
            IF i = 0 THEN <<CommId(Sample[k].comm)>>
            ELSE Last(Chain(place[i - 1], Calls(k)[i]))
    IN  place

\* The events that share event k's comm and first i frames.
Sharing(k, i) ==
    {j \in taken : /\ Sample[j].comm = Sample[k].comm
                   /\ Len(Calls(j)) >= i
                   /\ SubSeq(Calls(j), 1, i) = SubSeq(Calls(k), 1, i)}

\* Whatever symbols come while the tree is built and however frames recur, one
\* node, with its inlined functions, counts the events that have a sequence
\* of callers in common, and there are no other nodes.
FlameExact ==
    rest = <<>> =>
       LET nodes(k, i) == IF i = 0 THEN <<Place(k)[0]>>
                          ELSE Chain(Place(k)[i - 1], Calls(k)[i])
       IN  /\ \A k \in taken : \A i \in 0 .. Len(Calls(k)) :
                 \A p \in Range(nodes(k, i)) :
                    p \in Nodes /\ weight[p] = Cardinality(Sharing(k, i))
           /\ Nodes = UNION {UNION {Range(nodes(k, i)) :
                                      i \in 0 .. Len(Calls(k))} : k \in taken}

\* The frame above frame id where it is first met, from the root's side, in
\* event k, and the first other one below, if there is one.
Top(k, id) == CHOOSE i \in DOMAIN Calls(k) :
                 Calls(k)[i] = id /\ \A j \in 1 .. i - 1 : Calls(k)[j] # id
Caller(k, id) == IF Top(k, id) = 1 THEN CommId(Sample[k].comm)
                 ELSE Calls(k)[Top(k, id) - 1]
Callees(k, id) == {Calls(k)[i] : i \in
                     {j \in Top(k, id) + 1 .. Len(Calls(k)) :
                         /\ Calls(k)[j] # id
                         /\ \A h \in Top(k, id) .. j - 1 : Calls(k)[h] = id}}

\* Both halves of a sandwich view weigh every caller and callee by the events
\* it appears in, counting an event of a recursive frame once, and no node
\* weighs less than its children (weight_self subtracts them).  The first
\* comm is not counted as a caller.
SandwichExact ==
    fpc = "sandwich" /\ target \in Frames =>
       LET with == {k \in taken : target \in Range(Calls(k))}
           Weight(tree, q) == IF q \in DOMAIN tree THEN tree[q] ELSE 0
           Up(g) == {k \in with : Caller(k, target) = g}
           Down(g) == {k \in with : g \in Callees(k, target)}
           run(g) == {q \in DOMAIN callees :
                         /\ q # <<>> /\ Last(q) = g
                         /\ \A i \in 1 .. Len(q) - 1 : q[i] = target}
       IN  /\ callers[<<>>] = Cardinality(with \ Up(RootId))
           /\ \A g \in Frames \cup (1 .. Len(comms) - 1) :
                 Weight(callers, <<g>>) = Cardinality(Up(g))
           /\ \A g \in Frames \ {target} :
                 Total(run(g), callees) = Cardinality(Down(g))
           /\ \A tree \in {callers, callees} : \A q \in DOMAIN tree :
                 Total({p \in DOMAIN tree : p # <<>> /\ Front(p) = q}, tree)
                    <= tree[q]
=============================================================================
