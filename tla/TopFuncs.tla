------------------------------ MODULE TopFuncs ------------------------------
(***************************************************************************)
(* The table of top functions (query_top_funcs, ui/tabs/top_funcs.rs): the *)
(* events of a range pass through four threads joined by bounded channels. *)
(* The first reads the events, the second looks up their traces, the third *)
(* the symbols of their frames, the fourth counts.  That a trace begins is *)
(* told from the third to the fourth by a flag on the first location sent. *)
(*                                                                         *)
(* A location (kind, function and file) is a place of a chain.  The filter *)
(* is the set of locations that match it.  Heat maps are left out.         *)
(***************************************************************************)
EXTENDS Profile

CONSTANTS
    Filters,       \* what the user may filter by
    ChanSize,      \* capacity of a channel (4096)
    MaxLocations   \* MAX_LOCATIONS (500)

Locations == (UNION {Range(c) : c \in UNION {Chains[f] : f \in Frames}}) \ {NoFunc}

ASSUME TopFuncsAssumption ==
    /\ Filters \subseteq SUBSET Locations
    /\ ChanSize \in Nat \ {0} /\ MaxLocations \in Nat

VARIABLES
    tpc,       \* "idle", "query" or "done"
    filter,
    unread,    \* thread 1: the events still to read
    samples,   \* their number so far
    eventChan, \* from thread 1 to thread 2: events
    frames,    \* thread 2: frames still to send, each with its index
    frameChan, \* from thread 2 to thread 3
    cached,    \* thread 3: the chains it has looked up
    newTrace,  \* its flag
    locs,      \* locations still to send
    locChan,   \* from thread 3 to thread 4: locations and flags
    seen,      \* thread 4: the locations of this trace
    zelf,      \* its counts
    withChildren,
    top,       \* the locations shown
    counted    \* (history) the events whose trace was found

pipe == <<unread, samples, eventChan, frames, frameChan, cached, newTrace,
          locs, locChan>>
counts == <<seen, zelf, withChildren>>
topFuncs == <<tpc, filter, pipe, counts, top, counted>>

Zero == [l \in Locations |-> 0]

TopTypeOK ==
    /\ tpc \in {"idle", "query", "done"}
    /\ filter \in Filters \cup {Locations}
    /\ unread \subseteq EventKeys
    /\ samples \in Nat
    /\ Len(eventChan) <= ChanSize /\ Range(eventChan) \subseteq EventKeys
    /\ Len(frameChan) <= ChanSize
    /\ \A x \in Range(frames \o frameChan) : x.frame \in Frames /\ x.idx \in Nat
    /\ \A f \in DOMAIN cached : cached[f] \in Chains[f]
    /\ newTrace \in BOOLEAN
    /\ Range(locs) \subseteq Locations
    /\ Len(locChan) <= ChanSize
    /\ \A x \in Range(locChan) : x.loc \in filter /\ x.new \in BOOLEAN
    /\ seen \subseteq filter
    /\ zelf \in [Locations -> Nat] /\ withChildren \in [Locations -> Nat]
    /\ top \subseteq Locations

-----------------------------------------------------------------------------
\* The range is empty if it ends before it starts; the sample kind selected
\* is not used.
AskTop(q, set) ==
    /\ tpc = "idle"
    /\ tpc' = IF q.end < q.start THEN "done" ELSE "query"
    /\ filter' = set
    /\ unread' = IF q.end < q.start THEN {}
                 ELSE TimeRange(events, Mixed, q.start, q.end)
    /\ Opened
    /\ UNCHANGED <<samples, eventChan, frames, frameChan, cached, newTrace,
                   locs, locChan, counts, top, counted>>

\* Thread 1.
CanSendEvent == unread # {} /\ Len(eventChan) < ChanSize

SendEvent ==
    /\ CanSendEvent
    /\ eventChan' = Append(eventChan, First(unread))
    /\ unread' = unread \ {First(unread)}
    /\ samples' = samples + 1
    /\ UNCHANGED <<tpc, filter, frames, frameChan, cached, newTrace, locs,
                   locChan, counts, top, counted, tables>>

\* Mutant of CanLookup: the thread waits until the trace is there.
CanLookupStored ==
    frames = <<>> /\ eventChan # <<>> /\ Sample[Head(eventChan)].trace \in stored

CanLookup == frames = <<>> /\ eventChan # <<>>

\* Mutant of LookupTrace: an event without a trace is tried again later.
LookupTraceAgain ==
    /\ CanLookup
    /\ LET k == Head(eventChan)
           t == Sample[k].trace
       IN  IF t \in stored
           THEN /\ frames' = [i \in DOMAIN t |-> [frame |-> t[i], idx |-> i - 1]]
                /\ counted' = counted \cup {k}
                /\ UNCHANGED unread
           ELSE /\ unread' = unread \cup {k}
                /\ UNCHANGED <<frames, counted>>
    /\ eventChan' = Tail(eventChan)
    /\ UNCHANGED <<tpc, filter, samples, frameChan, cached, newTrace, locs,
                   locChan, counts, top, tables>>

\* Thread 2: an event without a trace is skipped.
LookupTrace ==
    /\ CanLookup
    /\ LET k == Head(eventChan)
           t == Sample[k].trace
       IN  IF t \in stored
           THEN /\ frames' = [i \in DOMAIN t |-> [frame |-> t[i], idx |-> i - 1]]
                /\ counted' = counted \cup {k}
           ELSE UNCHANGED <<frames, counted>>
    /\ eventChan' = Tail(eventChan)
    /\ UNCHANGED <<tpc, filter, unread, samples, frameChan, cached, newTrace,
                   locs, locChan, counts, top, tables>>

CanSendFrame == frames # <<>> /\ Len(frameChan) < ChanSize

SendFrame ==
    /\ CanSendFrame
    /\ frameChan' = Append(frameChan, Head(frames))
    /\ frames' = Tail(frames)
    /\ UNCHANGED <<tpc, filter, unread, samples, eventChan, cached, newTrace,
                   locs, locChan, counts, top, counted, tables>>

\* What is sent of a chain: the functions that match, innermost first.
Sent(places, set) ==
    LET sent[i \in 0 .. Len(places)] ==
            IF i = 0 THEN <<>>
            ELSE IF places[i] # NoFunc /\ places[i] \in set
                 THEN <<places[i]>> \o sent[i - 1]
                 ELSE sent[i - 1]
    IN  sent[Len(places)]

CanSymbolize == locs = <<>> /\ frameChan # <<>>

\* Thread 3: a frame's symbols are looked up once.
SymbolizeFrame ==
    /\ CanSymbolize
    /\ LET x == Head(frameChan)
       IN  /\ cached' = [f \in DOMAIN cached \cup {x.frame} |->
                            IF f \in DOMAIN cached THEN cached[f] ELSE Symbolize(f, TRUE)]
           /\ locs' = Sent(cached'[x.frame], filter)
           /\ newTrace' = (newTrace \/ x.idx = 0)
    /\ frameChan' = Tail(frameChan)
    /\ UNCHANGED <<tpc, filter, unread, samples, eventChan, frames, locChan,
                   counts, top, counted, tables>>

CanSendLocation == locs # <<>> /\ Len(locChan) < ChanSize

\* Mutant of SendLocation: the flag is not taken.
SendLocationFlagged ==
    /\ CanSendLocation
    /\ locChan' = Append(locChan, [loc |-> Head(locs), new |-> newTrace])
    /\ locs' = Tail(locs)
    /\ UNCHANGED <<tpc, filter, unread, samples, eventChan, frames, frameChan,
                   cached, newTrace, counts, top, counted, tables>>

SendLocation ==
    /\ CanSendLocation
    /\ locChan' = Append(locChan, [loc |-> Head(locs), new |-> newTrace])
    /\ newTrace' = FALSE
    /\ locs' = Tail(locs)
    /\ UNCHANGED <<tpc, filter, unread, samples, eventChan, frames, frameChan,
                   cached, counts, top, counted, tables>>

CanCount == locChan # <<>>

\* Thread 4: a location counts once for a trace, and as its own the first.
Count ==
    /\ CanCount
    /\ LET x == Head(locChan)
           before == IF x.new THEN {} ELSE seen
       IN  /\ seen' = before \cup {x.loc}
           /\ IF x.loc \in before
              THEN UNCHANGED <<zelf, withChildren>>
              ELSE /\ withChildren' = [withChildren EXCEPT ![x.loc] = @ + 1]
                   /\ zelf' = IF x.new THEN [zelf EXCEPT ![x.loc] = @ + 1]
                              ELSE zelf
    /\ locChan' = Tail(locChan)
    /\ UNCHANGED <<tpc, filter, unread, samples, eventChan, frames, frameChan,
                   cached, newTrace, locs, top, counted, tables>>

\* The channels are closed one after the other; the table is sorted and cut.
\* Which field it is sorted by is the user's choice, ties are left open.
Finished == /\ unread = {} /\ eventChan = <<>> /\ frames = <<>>
            /\ frameChan = <<>> /\ locs = <<>> /\ locChan = <<>>

Cut(field) ==
    LET all == {l \in Locations : withChildren[l] > 0}
    IN  {s \in SUBSET all :
            /\ Cardinality(s) = Min({Cardinality(all), MaxLocations})
            /\ \A l \in s, m \in all \ s : field[l] >= field[m]}

CanShow == tpc = "query" /\ Finished /\ \E field \in {zelf, withChildren} : Cut(field) # {}

ShowTop ==
    /\ CanShow
    /\ tpc' = "done"
    /\ \E field \in {zelf, withChildren} : top' \in Cut(field)
    /\ UNCHANGED <<filter, pipe, counts, counted, tables>>

\* Another range or filter is selected.
DropTop ==
    /\ tpc = "done"
    /\ tpc' = "idle"
    /\ filter' = Locations
    /\ samples' = 0
    /\ cached' = <<>>
    /\ newTrace' = FALSE
    /\ seen' = {} /\ zelf' = Zero /\ withChildren' = Zero
    /\ top' = {}
    /\ counted' = {}
    /\ stored' = Traces /\ chain' = AnyChain
    /\ UNCHANGED <<unread, eventChan, frames, frameChan, locs, locChan>>

TopInit ==
    /\ tpc = "idle"
    /\ filter = Locations
    /\ unread = {}
    /\ samples = 0
    /\ eventChan = <<>> /\ frames = <<>> /\ frameChan = <<>>
    /\ cached = <<>>
    /\ newTrace = FALSE
    /\ locs = <<>> /\ locChan = <<>>
    /\ seen = {} /\ zelf = Zero /\ withChildren = Zero
    /\ top = {}
    /\ counted = {}

Threads ==
    \/ SendEvent \/ LookupTrace \/ SendFrame \/ SymbolizeFrame \/ SendLocation
    \/ Count \/ ShowTop

TopNext ==
    \/ \E q \in Ranges, s \in Filters : AskTop(q, s)
    \/ Threads \/ DropTop
    \/ tpc = "query" /\ TablesChange /\ UNCHANGED topFuncs

-----------------------------------------------------------------------------
(* Properties.                                                             *)

\* The places of an event, one for each location of each frame's chain, and
\* which of them is called by which.
Places(k) ==
    LET t == Sample[k].trace
    IN  UNION {{i} \X DOMAIN cached[t[i]] : i \in DOMAIN t}
At(k, p) == cached[Sample[k].trace[p[1]]][p[2]]
Inside(p, q) == p[1] < q[1] \/ (p[1] = q[1] /\ p[2] > q[2])

Matching(k) == {p \in Places(k) : At(k, p) # NoFunc /\ At(k, p) \in filter}

\* However the threads interleave, at whatever moment symbols and flushes
\* come in and however functions recur in a trace or in several frames of it,
\* an event whose trace was there counts once for each matching function on
\* its stack, and once as self: for the innermost one that matches.
TopExact ==
    tpc = "done" =>
       \A l \in Locations :
          LET own(k) == {p \in Matching(k) : At(k, p) = l}
          IN  /\ withChildren[l] = Cardinality({k \in counted : own(k) # {}})
              /\ zelf[l] =
                    Cardinality({k \in counted :
                       \E p \in own(k) : \A q \in Matching(k) : ~Inside(q, p)})

\* A query always goes on until its table is shown: the four threads never
\* wait for each other in a circle, though every channel may be full, whatever
\* is skipped on the way and however little the range holds.
QueryGoesOn ==
    tpc = "query" =>
       \/ CanSendEvent \/ CanLookup \/ CanSendFrame \/ CanSymbolize
       \/ CanSendLocation \/ CanCount \/ CanShow

\* And it comes to an end, since no step is in vain: what a thread takes it
\* does not put back, it only adds to what the threads after it have to do.
StillToDo == <<Cardinality(unread), Len(eventChan), Len(frames), Len(frameChan),
               Len(locs), Len(locChan)>>

WorkShrinks ==
    [][tpc = "query" /\ UNCHANGED tpc =>
          \/ UNCHANGED topFuncs
          \/ \E i \in DOMAIN StillToDo :
                /\ StillToDo'[i] < StillToDo[i]
                /\ \A j \in 1 .. i - 1 : StillToDo'[j] = StillToDo[j]]_topFuncs
=============================================================================
