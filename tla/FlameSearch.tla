----------------------------- MODULE FlameSearch -----------------------------
(***************************************************************************)
(* Moving about in a flame graph (FlameGraphWidget): zoom and scroll       *)
(* position, the filter, the frames that match it and the one in focus,    *)
(* and the sandwich view.  The matches are gathered while the graph is     *)
(* drawn, in the frame in which the filter is edited and in no other, so   *)
(* only from what is drawn then: not what lies outside the window or is    *)
(* too narrow, and of a sandwich view the callees alone.  They outlive the *)
(* tree and the view they are of.                                          *)
(*                                                                         *)
(* A frame of the UI handles an edit, then an input, then draws; here it   *)
(* handles one input, and Enter perhaps together with an edit.  Lengths    *)
(* are in units of which the window is 10 * Unit wide and divide exactly,  *)
(* zooms are in tenths.  The vertical position selects nothing and is left *)
(* out, match_count is the number of matches, cached_filter the filter of  *)
(* the last frame, and rebuild_matches set where they differ.              *)
(***************************************************************************)
EXTENDS Integers, Sequences, Functions, Sums

CONSTANTS
    Trees,      \* the trees a range may have: total, the weight of the
                \* root, and nodes in preorder, each with the index of its
                \* parent, its frame's ID, weight and text
    CalleesOf,  \* CalleesOf[t][id]: the lower half of t's sandwich view of
                \* id, nodes without a parent being those right below id
    TextsWith,  \* TextsWith[f]: the texts that contain filter f
    NoFilter,   \* a filter of less than three characters
    NoSandwich,
    Unit,
    MinWidth,   \* narrower frames are not drawn
    Moves       \* bound on zooms and positions: where keys and mouse lead

\* The default tree, and the callees of a leaf.
Empty == [total |-> 0, nodes |-> <<>>]

\* A tree as FlameGraph builds it: a node weighs at least as much as the nodes
\* below it together.
IsTree(v) ==
    /\ v.nodes \in Seq(Range(v.nodes))
    /\ v.total \in Nat
    /\ \A i \in DOMAIN v.nodes :
          LET node == v.nodes[i]
              below == {j \in DOMAIN v.nodes : v.nodes[j].up = i}
          IN  /\ node.up \in 0 .. i - 1
              /\ node.weight \in 1 .. v.total
              /\ Total(below, [j \in DOMAIN v.nodes |-> v.nodes[j].weight]) <= node.weight

ASSUME SearchAssumption ==
    /\ \A t \in Trees :
          /\ IsTree(t)
          /\ \A i \in DOMAIN t.nodes : t.nodes[i].id \in DOMAIN CalleesOf[t]
          /\ \A id \in DOMAIN CalleesOf[t] : IsTree(CalleesOf[t][id])
    /\ NoFilter \notin DOMAIN TextsWith
    /\ Unit \in Nat \ {0} /\ MinWidth \in Nat \ {0}
    /\ Moves \subseteq [zoom : Nat \ {0}, origin : Int]

VARIABLES
    tree,
    sandwiched,  \* the callees of the sandwich view, NoSandwich outside of it
    zoom,        \* x_zoom
    origin,      \* where the window begins
    flameFilter,
    matches,     \* matching_frames
    current,     \* current_match_index
    searched     \* (history) what was drawn, and where, for the matches

window == <<zoom, origin>>
search == <<tree, sandwiched, window, flameFilter, matches, current, searched>>

Shown == IF sandwiched = NoSandwich THEN tree ELSE sandwiched

-----------------------------------------------------------------------------
(* draw_level: a node, then its children from left to right.               *)

NodeWidth(v, i, z) == (v.nodes[i].weight * Unit * z) \div v.total

\* Where the nodes begin.
Edges(v, z) ==
    LET x[i \in DOMAIN v.nodes] ==
            LET p == v.nodes[i].up
                before == {j \in 1 .. i - 1 : v.nodes[j].up = p}
            IN  (IF p = 0 THEN 0 ELSE x[p])
                   + Total(before, [j \in DOMAIN v.nodes |-> NodeWidth(v, j, z)])
    IN  x

\* A node that is too narrow or outside the window hides what is below it.
Drawn(v, z, o) ==
    LET x == Edges(v, z)
        drawn[i \in DOMAIN v.nodes] ==
            /\ v.nodes[i].up = 0 \/ drawn[v.nodes[i].up]
            /\ NodeWidth(v, i, z) >= MinWidth
            /\ x[i] < o + 10 * Unit
            /\ x[i] + NodeWidth(v, i, z) > o
    IN  {i \in DOMAIN v.nodes : drawn[i]}

\* Each callee of a sandwich view is drawn as the root of its own tree.
RootOf(v) ==
    LET root[i \in DOMAIN v.nodes] ==
            IF v.nodes[i].up = 0 THEN i ELSE root[v.nodes[i].up]
    IN  root

\* Mutant of Match: the position is kept as it is on the screen.
MatchScaled(v, i, z) ==
    [id |-> v.nodes[i].id, x |-> Edges(v, z)[i],
     weight |-> v.nodes[i].weight, of |-> v.nodes[RootOf(v)[i]].weight]

\* A matching node: where it is when not zoomed, its share of its root.
Match(v, i, z) ==
    [id |-> v.nodes[i].id, x |-> Edges(v, z)[i] \div z,
     weight |-> v.nodes[i].weight, of |-> v.nodes[RootOf(v)[i]].weight]

\* In the order in which they are drawn.
InOrder(set) ==
    [n \in 1 .. Cardinality(set) |->
        CHOOSE i \in set : Cardinality({j \in set : j <= i}) = n]

Found(v, z, o, f) ==
    IF f = NoFilter THEN <<>>
    ELSE LET hits == {i \in Drawn(v, z, o) : v.nodes[i].text \in TextsWith[f]}
             order == InOrder(hits)
         IN  [n \in DOMAIN order |-> Match(v, order[n], z)]

-----------------------------------------------------------------------------
(* The frames of the UI.                                                   *)

Clamp(o, z) == Max({0, Min({o, Unit * (z - 10)})})

\* center_on_current_match: a narrow frame is enlarged to three tenths of the
\* window, by 20 at most.
Readable(m) ==
    IF 10 * m.weight < 3 * m.of THEN Min({(3 * m.of) \div m.weight, 200}) ELSE 10

Centre(m, z) ==
    Clamp(m.x * z + (m.weight * Unit * z) \div (2 * m.of) - 5 * Unit, z)

Focus(i) ==
    IF i \in DOMAIN matches
    THEN /\ zoom' = Readable(matches[i])
         /\ origin' = Centre(matches[i], zoom')
    ELSE UNCHANGED window

\* Mutant of Draw: the old matches are not cleared.
DrawKeeps(f) ==
    /\ flameFilter' = f
    /\ IF f = flameFilter THEN UNCHANGED <<matches, searched>>
       ELSE /\ matches' = matches \o Found(Shown, zoom', origin', f)
            /\ searched' = [view |-> Shown, zoom |-> zoom', origin |-> origin']
    /\ UNCHANGED <<tree, sandwiched>>

\* The end of a frame: the matches are gathered anew if the filter differs.
Draw(f) ==
    /\ flameFilter' = f
    /\ IF f = flameFilter THEN UNCHANGED <<matches, searched>>
       ELSE /\ matches' = Found(Shown, zoom', origin', f)
            /\ searched' = [view |-> Shown, zoom |-> zoom', origin |-> origin']
    /\ UNCHANGED <<tree, sandwiched>>

\* The filter is edited: the first match will be the current one.
Edit(f) ==
    /\ f # flameFilter
    /\ current' = 0
    /\ UNCHANGED window
    /\ Draw(f)

\* Enter, or Shift+Enter to go back, perhaps after an edit in the same frame,
\* which has reset the index but not yet the matches.
Enter(f, back) ==
    /\ f # NoFilter
    /\ matches # <<>>
    /\ LET i == IF f = flameFilter THEN current ELSE 0
           n == Len(matches)
       IN  current' = IF ~back THEN (i + 1) % n ELSE IF i = 0 THEN n - 1 ELSE i - 1
    /\ Focus(current' + 1)
    /\ Draw(f)

\* Keys, wheel, drag.
Move(z, o) ==
    /\ zoom' = z
    /\ origin' = Clamp(o, z)
    /\ UNCHANGED <<tree, sandwiched, flameFilter, matches, current, searched>>

\* A click zooms to the frame it hits, ...
Click(i) ==
    /\ zoom' = (10 * tree.total) \div tree.nodes[i].weight
    /\ origin' = (Edges(tree, zoom)[i] \div zoom) * zoom'
    /\ UNCHANGED <<tree, sandwiched, flameFilter, matches, current, searched>>

ResetWindow == zoom' = 10 /\ origin' = 0

\* ... with Ctrl it opens the frame's sandwich view, in which clicks do nothing.
CtrlClick(i) ==
    /\ sandwiched' = CalleesOf[tree][tree.nodes[i].id]
    /\ ResetWindow
    /\ UNCHANGED <<tree, flameFilter, matches, current, searched>>

DoubleClick ==
    /\ sandwiched' = NoSandwich
    /\ ResetWindow
    /\ UNCHANGED <<tree, flameFilter, matches, current, searched>>

\* The range, the kind of samples or the data has changed.
NewTree(t) ==
    /\ tree' = t
    /\ UNCHANGED <<sandwiched, window, flameFilter, matches, current, searched>>

SearchInit ==
    /\ tree = Empty
    /\ sandwiched = NoSandwich
    /\ zoom = 10
    /\ origin = 0
    /\ flameFilter = NoFilter
    /\ matches = <<>>
    /\ current = 0
    /\ searched = [view |-> tree, zoom |-> zoom, origin |-> origin]

SearchNext ==
    \/ \E f \in DOMAIN TextsWith \cup {NoFilter} :
          Edit(f) \/ \E back \in BOOLEAN : Enter(f, back)
    \/ \E m \in Moves : Move(m.zoom, m.origin)
    \/ /\ sandwiched = NoSandwich
       /\ \E i \in Drawn(tree, zoom, origin) : Click(i) \/ CtrlClick(i)
    \/ DoubleClick
    \/ \E t \in Trees : NewTree(t)

-----------------------------------------------------------------------------
(* Properties.                                                             *)

\* The nodes that match the filter, were wide enough and inside the window
\* when it was edited, in preorder.
Sought ==
    LET v == searched.view
        x == Edges(v, searched.zoom)
        w(i) == NodeWidth(v, i, searched.zoom)
    IN  InOrder({i \in DOMAIN v.nodes :
                    /\ v.nodes[i].text \in TextsWith[flameFilter]
                    /\ w(i) >= MinWidth
                    /\ x[i] < searched.origin + 10 * Unit
                    /\ x[i] + w(i) > searched.origin})

\* Whatever was zoomed, clicked or replaced before, between and after edits of
\* the filter, the list of matches is that of the last edit: each node once,
\* in preorder, though the graph is drawn in every frame and what is narrow or out
\* of sight cuts the drawing short.
SearchExact ==
    IF flameFilter = NoFilter THEN matches = <<>>
    ELSE [n \in DOMAIN matches |-> matches[n].id]
            = [n \in DOMAIN Sought |-> searched.view.nodes[Sought[n]].id]

\* "Center the view on the currently selected match", "Make sure text in frame
\* is readable": a match that Enter goes to is brought into the window, however
\* it was zoomed when the match was found, and all of it, wide enough to be
\* read or as wide as zooming by 20 makes it.  In a sandwich view only its left
\* edge is.  No promise is made once the view is another than the searched one,
\* or after Enter in the frame of an edit, which may leave the index past the
\* end.
FocusShown ==
    [][/\ flameFilter' = flameFilter
       /\ current' # current /\ current < Len(matches)
       /\ Shown = searched.view
       => /\ current' < Len(matches)
          /\ LET i == Sought[current' + 1]
                 x == Edges(Shown, zoom')[i]
                 w == NodeWidth(Shown, i, zoom')
             IN  /\ x \in origin' .. origin' + 10 * Unit - 1
                 /\ sandwiched = NoSandwich =>
                       /\ x + w <= origin' + 10 * Unit
                       /\ w >= 3 * Unit \/ zoom' = 200]_search
=============================================================================
