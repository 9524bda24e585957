------------------------------- MODULE MCViews -------------------------------
(* Model constants for Views. *)
EXTENDS Views

CONSTANTS
    main, work, raw,  \* frames: symbolized, with an inlined function once its
                      \* symbols are there, never symbolized
    Main, Work, Util  \* locations

Event(t, i, k) == [ts |-> t, id |-> i, kind |-> k]

SomeEvents ==
    {Event(2, 0, Unknown), Event(3, 2, OnCPU), Event(4, 1, OffCPU),
     Event(4, 3, OnCPU), Event(6, 1, OnCPU)}

FewBounds == {0, 2, 4, 5, 8}

SomeChains ==
    [f \in Frames |-> CASE f = main -> {<<Main>>}
                        [] f = work -> {<<NoFunc>>, <<Work, Util>>}
                        [] f = raw  -> {<<NoFunc>>}]

\* A frame twice in a trace, one location in several frames, a leaf without a
\* symbol, one trace of two comms.
SomeSamples ==
    [k \in EventKeys |->
        CASE k.ts = 2 -> [comm |-> "a", trace |-> <<work, main>>]
          [] k.ts = 3 -> [comm |-> "b", trace |-> <<work, work, main>>]
          [] k.id = 1 -> [comm |-> "a", trace |-> <<main, work, main>>]
          [] k.id = 3 -> [comm |-> "b", trace |-> <<raw, work, main>>]]

SomeRanges == {[kind |-> Mixed, start |-> 2, end |-> 8],
               [kind |-> OnCPU, start |-> 4, end |-> 8],
               [kind |-> Mixed, start |-> 8, end |-> 2]}

SomeFilters == {Locations, {Main, Util}}

-----------------------------------------------------------------------------
(* A flame graph that is drawn.                                            *)

Node(u, i, w, t) == [up |-> u, id |-> i, weight |-> w, text |-> t]
Graph(w, n) == [total |-> w, nodes |-> n]

\* Two comms (the first has the ID of the root), functions that occur below
\* both of them, one match that is hardly ever wide enough to be drawn ...
Wide ==
    Graph(256,
       <<Node(0, 0, 256, "root"),
         Node(1, 0, 128, "a"), Node(2, 10, 128, "main"), Node(3, 11, 64, "work"),
         Node(4, 12, 32, "workers"),
         Node(1, 1, 128, "b"), Node(6, 10, 128, "main"), Node(7, 12, 64, "workers"),
         Node(8, 11, 1, "work")>>)

\* ... and a tree of another range.
Small ==
    Graph(2, <<Node(0, 0, 2, "root"), Node(1, 0, 2, "a"),
               Node(2, 11, 1, "work"), Node(2, 13, 1, "read")>>)

SomeTrees == {Wide, Small}

\* The root without itself.
BelowRoot(t) ==
    Graph(t.total, [i \in 1 .. Len(t.nodes) - 1 |->
                       [t.nodes[i + 1] EXCEPT !.up = @ - 1]])

SomeCallees ==
    Wide :> (0 :> BelowRoot(Wide)
          @@ 1 :> Graph(128, <<Node(0, 10, 128, "main"), Node(1, 12, 64, "workers"),
                               Node(2, 11, 1, "work")>>)
          @@ 10 :> Graph(128, <<Node(0, 11, 64, "work"), Node(1, 12, 32, "workers"),
                                Node(0, 12, 64, "workers"), Node(3, 11, 1, "work")>>)
          @@ 11 :> Graph(32, <<Node(0, 12, 32, "workers")>>)
          @@ 12 :> Graph(1, <<Node(0, 11, 1, "work")>>))
 @@ Small :> (0 :> BelowRoot(Small) @@ 11 :> Empty @@ 13 :> Empty)

SomeTexts ==
    "work" :> {"work", "workers"} @@ "workers" :> {"workers"} @@ "read" :> {"read"}

\* Unzoomed, zoomed to where nothing matches, to the narrowest match.
SomeMoves == {[zoom |-> 10, origin |-> 0], [zoom |-> 80, origin |-> 5120],
              [zoom |-> 2560, origin |-> 327000]}
=============================================================================
