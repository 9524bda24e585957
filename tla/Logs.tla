-------------------------------- MODULE Logs --------------------------------
(***************************************************************************)
(* The two rings the UI shows in tabs of their own: the export requests    *)
(* the collector has received (Stats::log_request, the tab GrpcLog) and    *)
(* the messages logged by any thread (log.rs, the tab Log).                *)
(*                                                                         *)
(* A request or message stands for its number in the order in which it     *)
(* was counted or written.  Handlers of several requests run at a time; a  *)
(* request is counted before, and pushed under, the lock of the ring, so   *)
(* the order in the ring need not be that of the time stamps.  A message   *)
(* gets its time under the lock.                                           *)
(***************************************************************************)
EXTENDS Integers, SequencesExt

CONSTANTS
    RingCapacity,  \* of the VecDeque the requests are pushed to: 100
    LogCapacity,   \* LOG_RING_CAP
    TailLimit,     \* how many messages the tab shows: 1000
    MaxLogged      \* bound on requests and on messages

ASSUME LogsAssumption ==
    /\ RingCapacity \in Nat \ {0} /\ LogCapacity \in Nat
    /\ TailLimit \in Nat /\ MaxLogged \in Nat

VARIABLES
    processed,  \* msgs_processed
    arriving,   \* requests counted and not yet pushed
    ring,
    room,       \* its capacity, which a push to a full VecDeque doubles
    pushed,     \* (history) all that was pushed, in this order
    picked,     \* the request selected in the tab, 0 if none is
    messages,   \* the ring of log messages
    written     \* number of messages written so far

logs == <<processed, arriving, ring, room, pushed, picked, messages, written>>

\* log_request counts a request; one that cannot be converted is not kept.
CountRequest(kept) ==
    /\ processed < MaxLogged
    /\ processed' = processed + 1
    /\ arriving' = IF kept THEN arriving \cup {processed'} ELSE arriving
    /\ UNCHANGED <<ring, room, pushed, picked, messages, written>>

Grown(r) == IF Len(r) = room THEN 2 * room ELSE room

\* Mutant of PushRequest: the ring is cut before the push, when it is over its
\* capacity, like the ring of messages.
PushRequestFirst(n) ==
    /\ n \in arriving
    /\ arriving' = arriving \ {n}
    /\ room' = Grown(ring)
    /\ ring' = Append(IF Len(ring) > room' THEN Tail(ring) ELSE ring, n)
    /\ pushed' = Append(pushed, n)
    /\ UNCHANGED <<processed, picked, messages, written>>

\* The push, and the removal of the oldest if the ring is full after it.
PushRequest(n) ==
    /\ n \in arriving
    /\ arriving' = arriving \ {n}
    /\ room' = Grown(ring)
    /\ LET r == Append(ring, n)
       IN  ring' = IF Len(r) = room' THEN Tail(r) ELSE r
    /\ pushed' = Append(pushed, n)
    /\ UNCHANGED <<processed, picked, messages, written>>

\* A click on a request of the list, which is kept though it leaves the ring.
PickRequest(n) ==
    /\ n \in Range(ring)
    /\ picked' = n
    /\ UNCHANGED <<processed, arriving, ring, room, pushed, messages, written>>

\* Collector::on_event: the oldest message goes before the new one comes.
WriteMessage ==
    /\ written < MaxLogged
    /\ written' = written + 1
    /\ messages' = Append(IF Len(messages) > LogCapacity THEN Tail(messages)
                          ELSE messages, written')
    /\ UNCHANGED <<processed, arriving, ring, room, pushed, picked>>

\* The tabs are drawn: the rings are read, the one of the messages copied.
DrawLogs == UNCHANGED logs

LogsInit ==
    /\ processed = 0
    /\ arriving = {}
    /\ ring = <<>>
    /\ room = RingCapacity
    /\ pushed = <<>>
    /\ picked = 0
    /\ messages = <<>>
    /\ written = 0

LogsNext ==
    \/ \E kept \in BOOLEAN : CountRequest(kept)
    \/ \E n \in arriving : PushRequest(n)
    \/ \E n \in Range(ring) : PickRequest(n)
    \/ WriteMessage
    \/ DrawLogs

LogsSpec == LogsInit /\ [][LogsNext]_logs

-----------------------------------------------------------------------------
(* What the tabs list, newest first.                                       *)

RequestList == Reverse(ring)
LogTail == LET newest == Reverse(messages)
           IN  SubSeq(newest, 1, Min({TailLimit, Len(newest)}))

\* The newest n of a sequence, newest first.
Newest(s, n) == [i \in 1 .. Min({n, Len(s)}) |-> s[Len(s) + 1 - i]]

\* However requests and messages come, each list is that of the newest, in the
\* order of their pushes and without a gap, a request is listed at most once
\* and counted, and no ring ever outgrows what was reserved for it: the ring of
\* requests holds one less than its capacity, the ring of messages one more.
RingsKeepNewest ==
    /\ RequestList = Newest(pushed, RingCapacity - 1)
    /\ room = RingCapacity
    /\ IsInjective(pushed)
    /\ Range(pushed) \cup arriving \subseteq 1 .. processed
    /\ LogTail = Newest([i \in 1 .. written |-> i],
                        Min({TailLimit, LogCapacity + 1}))
    /\ Len(messages) <= LogCapacity + 1
=============================================================================
