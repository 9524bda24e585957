---------------------------- MODULE IngestProofs ----------------------------
(***************************************************************************)
(* Proofs about Ingest, for every set of requests, any number of handlers  *)
(* and any number of restarts: what the tables hold of each other, the      *)
(* order in which a request is stored, what a flush leaves, and what an     *)
(* event says of its sample.                                               *)
(***************************************************************************)
EXTENDS Ingest, SequenceTheorems, WellFoundedInduction, TLAPS

(* What a decoded request is made of: whatever the request says, frames for *)
(* its locations, and traces of these for its samples.                      *)
LEMMA RequestParts ==
    ASSUME NEW r \in Requests
    PROVE  /\ Decoded[r].locs \in Seq(Frames \cup {BadFrame})
           /\ DOMAIN Decoded[r].locs = 1 .. Len(Decoded[r].locs)
           /\ Len(Decoded[r].locs) \in Nat
           /\ DOMAIN Decoded[r].samples = 1 .. Len(Decoded[r].samples)
           /\ Len(Decoded[r].samples) \in Nat
           /\ \A i \in 1 .. Len(Decoded[r].samples) :
                 /\ Decoded[r].samples[i].trace \in Seq(Frames)
                 /\ FramesOf(Decoded[r].samples[i].trace)
                       \subseteq FramesOf(Decoded[r].locs)
  <1> DEFINE body == Carried[r]
             locs == FramesOfLocations(body)
             samples == body.samples
             trace(i) == IF \/ Flaw(body, samples[i]) = "location"
                            \/ BadFrame \in FramesOf(locs)
                         THEN <<>> ELSE FrameList(body, samples[i])
             n == Len(body.locations)
             m == Len(samples)
  <1>1. n \in Nat /\ m \in Nat /\ DOMAIN samples = 1 .. m
    BY IngestAssumption DEF IsSequence
  <1>2. /\ Decoded[r].locs = locs
        /\ Decoded[r].samples =
              [i \in DOMAIN samples |->
                 [trace |-> trace(i), flaw |-> Flaw(body, samples[i])]]
    BY DEF Decoded
  <1>3. /\ locs = [i \in 1 .. n |-> FrameOf(body, body.locations[i])]
        /\ DOMAIN locs = 1 .. n
    BY DEF FramesOfLocations
  <1>4. \A i \in 1 .. n : locs[i] \in Frames \cup {BadFrame}
    <2>1. FramesOf(locs) \subseteq Frames \cup {BadFrame}
      BY <1>2 DEF Frames
    <2>2. QED
      BY <1>3, <2>1 DEF FramesOf
  <1>5. locs \in Seq(Frames \cup {BadFrame}) /\ Len(locs) = n
    <2> HIDE DEF locs
    <2>1. locs \in [1 .. n -> Frames \cup {BadFrame}]
      BY <1>3, <1>4
    <2>2. QED
      BY <1>1, <2>1
  <1>6. /\ DOMAIN Decoded[r].samples = 1 .. m
        /\ Len(Decoded[r].samples) = m
        /\ \A i \in 1 .. m : Decoded[r].samples[i].trace = trace(i)
    <2> HIDE DEF trace, samples
    <2>1. /\ DOMAIN Decoded[r].samples = 1 .. m
          /\ \A i \in 1 .. m : Decoded[r].samples[i].trace = trace(i)
      BY <1>1, <1>2
    <2>2. Len(Decoded[r].samples) = m
      BY <1>1, <1>2
    <2>3. QED
      BY <2>1, <2>2
  <1>7. ASSUME NEW i \in 1 .. m
        PROVE  trace(i) \in Seq(Frames) /\ FramesOf(trace(i)) \subseteq FramesOf(locs)
    <2>1. CASE \/ Flaw(body, samples[i]) = "location"
               \/ BadFrame \in FramesOf(locs)
      BY <2>1 DEF FramesOf
    <2>2. CASE /\ Flaw(body, samples[i]) # "location"
               /\ BadFrame \notin FramesOf(locs)
      <3> DEFINE k == samples[i].stack
                 stack == body.stacks[k]
      <3>1. /\ k \in DOMAIN body.stacks
            /\ \A j \in DOMAIN stack : stack[j] \in DOMAIN locs
        BY <2>2 DEF Flaw, BadLocation
      <3>2. Len(stack) \in Nat /\ DOMAIN stack = 1 .. Len(stack)
        <4>1. IsSequence(stack)
          BY <3>1, IngestAssumption
        <4> HIDE DEF stack
        <4>2. QED
          BY <4>1 DEF IsSequence
      <3>3. trace(i) = [j \in DOMAIN stack |-> locs[stack[j]]]
        BY <2>2 DEF FrameList
      <3>4. \A j \in DOMAIN stack :
               locs[stack[j]] \in Frames /\ locs[stack[j]] \in FramesOf(locs)
        <4> HIDE DEF locs, stack
        <4>1. \A j \in DOMAIN stack : locs[stack[j]] \in FramesOf(locs)
          BY <3>1 DEF FramesOf
        <4>2. QED
          BY <2>2, <3>1, <1>3, <1>4, <4>1
      <3>5. trace(i) \in [1 .. Len(stack) -> Frames]
        BY <3>2, <3>3, <3>4
      <3>6. trace(i) \in Seq(Frames)
        <4> HIDE DEF trace, stack
        <4>1. QED
          BY <3>2, <3>5
      <3>7. FramesOf(trace(i)) \subseteq FramesOf(locs)
        <4> HIDE DEF trace, stack, locs
        <4>1. \A j \in DOMAIN trace(i) : trace(i)[j] \in FramesOf(locs)
          BY <3>3, <3>4
        <4>2. QED
          BY <4>1 DEF FramesOf
      <3>8. QED
        BY <3>6, <3>7
    <2>3. QED
      BY <2>1, <2>2
  <1>8. QED
    <2> HIDE DEF locs, trace, n, m
    <2>1. QED
      BY <1>1, <1>2, <1>3, <1>5, <1>6, <1>7

(* The metadata a request's frames come with.                              *)
LEMMA RequestMetaData ==
    ASSUME TypeOK, NEW e \in Exports
    PROVE  MetaData(Carried[req[e]]) = FramesOf(Locs(e)) \cap Described
  <1>1. req[e] \in Requests
    BY DEF TypeOK
  <1>2. QED
    BY <1>1, IngestAssumption DEF Locs

(* No table loses a record, and none becomes stale.                         *)
Grows ==
    /\ executables \subseteq executables' /\ stackFrames \subseteq stackFrames'
    /\ stackTraces \subseteq stackTraces' /\ traceEvents \subseteq traceEvents'
    /\ stale' \subseteq stale

(* The records a flush found and has not come to are still there.           *)
LEMMA StaleStep ==
    ASSUME TypeOK, [Next]_vars
    PROVE  stale' \subseteq Records'
  <1> USE DEF tables, handlers, flusher, reader
  <1>1. ASSUME Grows PROVE stale' \subseteq Records'
    BY <1>1 DEF Grows, TypeOK, Records
  <1>2. ASSUME NEW e \in Exports, Handle(e) PROVE stale' \subseteq Records'
    <2>1. Grows
      BY <1>2 DEF Handle, Start, ReadLocation, CommitFrames, StoreTrace, StoreEvents,
                  Reject, Accept, Written, Grows
    <2>2. QED
      BY <1>1, <2>1
  <1>3. ASSUME NEW x, OutcomeRead(x) \/ OutcomeStore \/ DropIngested(x)
        PROVE  stale' \subseteq Records'
    <2>1. Grows
      BY <1>3 DEF OutcomeRead, OutcomeStore, DropIngested, Written, Grows
    <2>2. QED
      BY <1>1, <2>1
  <1>4. CASE FlushStart
    <2>1. Records' = Records
      BY <1>4 DEF FlushStart, Records
    <2>2. QED
      BY <1>4, <2>1 DEF FlushStart
  <1>5. CASE FlushKey
    <2>1. PICK k \in doomed :
             /\ traceEvents' = IF flushing = "traceEvents" THEN traceEvents \ {k}
                               ELSE traceEvents
             /\ stackTraces' = IF flushing = "stackTraces" THEN stackTraces \ {k}
                               ELSE stackTraces
             /\ stackFrames' = IF flushing = "stackFrames" THEN stackFrames \ {k}
                               ELSE stackFrames
             /\ executables' = IF flushing = "executables" THEN executables \ {k}
                               ELSE executables
             /\ stale' = stale \ {<<flushing, k>>}
      BY <1>5 DEF FlushKey
    <2>2. Records \ {<<flushing, k>>} \subseteq Records'
      BY <2>1 DEF Records
    <2>3. QED
      BY <2>1, <2>2 DEF TypeOK
  <1>6. CASE Restart
    BY <1>6 DEF Restart
  <1>7. CASE FlushTable \/ SampleStart \/ SampleEvent \/ UNCHANGED vars
    <2>1. Grows
      BY <1>7 DEF FlushTable, SampleStart, SampleEvent, vars, Grows
    <2>2. QED
      BY <1>1, <2>1
  <1>8. QED
    BY <1>2, <1>3, <1>4, <1>5, <1>6, <1>7 DEF Next

(* Type correctness, with the handlers' places inside their sequences.     *)
THEOREM TypeCorrect == Spec => []TypeOK
  <1>1. Init => TypeOK
    <2> SUFFICES ASSUME Init PROVE TypeOK
      OBVIOUS
    <2>1. (CHOOSE r \in Requests : TRUE) \in Requests
      BY IngestAssumption
    <2>2. req \in [Exports -> Requests]
      BY <2>1 DEF Init
    <2>3. 0 \in 0 .. MaxRestarts
      BY IngestAssumption
    <2>4. /\ pc \in [Exports -> Busy \cup {"new", "ok", "rejected", "lost"}]
          /\ at \in [Exports -> Nat \ {0}]
          /\ \A e \in Exports : pc[e] = "new" /\ at[e] = 1
      BY DEF Init
    <2>5. QED
      BY <2>2, <2>3, <2>4 DEF Init, TypeOK
  <1>2. TypeOK /\ [Next]_vars => TypeOK'
    <2> SUFFICES ASSUME TypeOK, [Next]_vars PROVE TypeOK'
      OBVIOUS
    <2> USE DEF tables, handlers, flusher, reader, Locs, Samples, Busy
    <2>0. /\ \A e \in Exports : Len(Locs(e)) \in Nat /\ Len(Samples(e)) \in Nat
          /\ stale' \subseteq Records'
      BY RequestParts, StaleStep DEF TypeOK
    <2>1. ASSUME NEW e \in Exports, NEW r \in Requests, Start(e, r)
          PROVE  TypeOK'
      <3>1. Len(Decoded[r].locs) \in Nat
        BY RequestParts
      <3>2. req' \in [Exports -> Requests]
        BY <2>1 DEF Start, TypeOK
      <3>3. pc' \in [Exports -> Busy \cup {"new", "ok", "rejected", "lost"}]
        BY <2>1 DEF Start, Goto, TypeOK
      <3>4. \A d \in Exports :
              /\ d # e => pc'[d] = pc[d] /\ req'[d] = req[d]
              /\ pc'[e] = "location" /\ req'[e] = r /\ at[e] = 1
        BY <2>1 DEF Start, Goto, TypeOK
      <3>5. ASSUME NEW d \in Exports
            PROVE  /\ pc'[d] = "new" => at[d] = 1
                   /\ pc'[d] = "location" => at[d] <= Len(Decoded[req'[d]].locs) + 1
                   /\ pc'[d] = "sample" => at[d] <= Len(Decoded[req'[d]].samples) + 1
                   /\ pc'[d] = "event" => at[d] <= Len(Decoded[req'[d]].samples)
        <4>1. CASE d = e
          BY <3>1, <3>4, <4>1
        <4>2. CASE d # e
          BY <3>4, <4>2 DEF TypeOK
        <4>3. QED
          BY <4>1, <4>2
      <3>6. QED
        BY <2>1, <2>0, <3>2, <3>3, <3>5 DEF Start, TypeOK
    <2>2. ASSUME NEW e \in Exports, ReadLocation(e) PROVE TypeOK'
      <3>1. /\ at' \in [Exports -> Nat \ {0}]
            /\ at'[e] <= Len(Locs(e)) + 1
            /\ \A d \in Exports : d # e => at'[d] = at[d]
        BY <2>2, <2>0 DEF ReadLocation, TypeOK
      <3>2. executables' \subseteq Files
        <4>1. Locs(e)[at[e]] \in FramesOf(Locs(e)) \ {BadFrame}
          BY <2>2, RequestParts DEF ReadLocation, FramesOf, TypeOK
        <4>2. Locs(e)[at[e]] \in Frames
          BY <4>1 DEF Frames, Locs, TypeOK
        <4>3. FilesOf({Locs(e)[at[e]]}) \subseteq Files
          BY <4>2 DEF FilesOf, Files
        <4>4. QED
          BY <2>2, <4>3 DEF ReadLocation, TypeOK
      <3>3. QED
        BY <2>2, <2>0, <3>1, <3>2 DEF ReadLocation, TypeOK
    <2>3. ASSUME NEW e \in Exports, CommitFrames(e) PROVE TypeOK'
      <3>1. stackFrames' \subseteq Described
        BY <2>3, RequestMetaData DEF CommitFrames, TypeOK
      <3>2. QED
        BY <2>3, <2>0, <3>1 DEF CommitFrames, Goto, TypeOK
    <2>4. ASSUME NEW e \in Exports, StoreTrace(e) PROVE TypeOK'
      <3>1. Samples(e)[at[e]].trace \in Seq(Frames)
        BY <2>4, <2>0, RequestParts DEF StoreTrace, TypeOK
      <3>2. QED
        BY <2>4, <3>1, <2>0 DEF StoreTrace, Goto, TypeOK
    <2>5. ASSUME NEW e \in Exports, StoreEvents(e) PROVE TypeOK'
      <3>1. /\ at[e] \in Nat \ {0} /\ at' = [at EXCEPT ![e] = at[e] + 1]
            /\ pc' = [pc EXCEPT ![e] = "sample"]
            /\ traceEvents' = traceEvents \cup {<<e, at[e]>>}
        BY <2>5 DEF StoreEvents, Goto, TypeOK
      <3>2. at' \in [Exports -> Nat \ {0}]
        BY <3>1 DEF TypeOK
      <3>3. QED
        BY <2>5, <2>0, <3>1, <3>2 DEF StoreEvents, Goto, TypeOK
    <2>6. ASSUME NEW e \in Exports, Reject(e) \/ Accept(e) PROVE TypeOK'
      BY <2>0, <2>6 DEF Reject, Accept, Goto, TypeOK
    <2>7. CASE FlushStart \/ FlushKey \/ FlushTable
      BY <2>0, <2>7 DEF FlushStart, FlushKey, FlushTable, TypeOK
    <2>8. CASE SampleStart \/ SampleEvent
      BY <2>0, <2>8 DEF SampleStart, SampleEvent, TypeOK
    <2>9. CASE Restart
      <3>1. restarts' \in 0 .. MaxRestarts
        BY <2>9, IngestAssumption DEF Restart, TypeOK
      <3>2. QED
        BY <2>0, <2>9, <3>1 DEF Restart, TypeOK
    <2>10. CASE UNCHANGED vars
      BY <2>0, <2>10 DEF vars, TypeOK
    <2>11. ASSUME NEW x \in executables, OutcomeRead(x) PROVE TypeOK'
      BY <2>0, <2>11 DEF OutcomeRead, TypeOK
    <2>12. CASE OutcomeStore
      BY <2>0, <2>12 DEF OutcomeStore, TypeOK
    <2>13. ASSUME NEW x \in Dropped, DropIngested(x) PROVE TypeOK'
      BY <2>0, <2>13 DEF DropIngested, TypeOK, Files
    <2>14. QED
      BY <2>1, <2>2, <2>3, <2>4, <2>5, <2>6, <2>7, <2>8, <2>9, <2>10, <2>11, <2>12,
         <2>13 DEF Next, Handle
  <1>3. QED
    BY <1>1, <1>2, PTL DEF Spec

-----------------------------------------------------------------------------
(* The tables refer to each other correctly.                               *)

(* A sample's trace is made of the request's frames, none of them bad.     *)
LEMMA TraceFrames ==
    ASSUME TypeOK, NEW e \in Exports, NEW i \in 1 .. Len(Samples(e))
    PROVE  FramesOf(Samples(e)[i].trace) \subseteq FramesOf(Locs(e))
  BY RequestParts DEF TypeOK, Locs, Samples

(* A step that stores no less than before and moves no handler on.         *)
LEMMA GrowingStep ==
    ASSUME Backed, ~flushed, TypeOK,
           executables \subseteq executables', stackFrames \subseteq stackFrames',
           stackTraces' = stackTraces, traceEvents' = traceEvents, req' = req,
           NEW e \in Exports,
           \A d \in Exports : d # e => pc'[d] = pc[d] /\ at'[d] = at[d],
           pc[e] # "new" /\ pc'[e] # "new", todo' = todo
    PROVE  /\ EventsBacked' /\ TracesBacked' /\ ReaderBacked'
           /\ \A d \in Exports \ {e} :
                /\ pc'[d] = "location" => \A i \in 1 .. at'[d] - 1 :
                      FilesOf({Locs(d)'[i]}) \subseteq executables'
                /\ pc'[d] \in {"sample", "event"} =>
                      /\ FilesOf(FramesOf(Locs(d)')) \subseteq executables'
                      /\ FramesOf(Locs(d)') \cap Described \subseteq stackFrames'
                /\ pc'[d] = "event" =>
                      Samples(d)'[at'[d]].trace \in stackTraces'
  <1> USE DEF Backed, Locs, Samples, TraceOf
  <1>1. EventsBacked'
    BY DEF EventsBacked
  <1>2. TracesBacked'
    BY DEF TracesBacked
  <1>3. ReaderBacked'
    <2>1. \A v \in traceEvents \cup todo : v[1] \in Exports
      BY DEF TypeOK
    <2>2. QED
      BY <2>1 DEF ReaderBacked
  <1>4. QED
    BY <1>1, <1>2, <1>3 DEF HandlerBacked

(* Every step of a handler and of a flush keeps what refers to other tables *)
(* backed.                                                                  *)
LEMMA BackedStep ==
    ASSUME ~flushed, ~flushed', TypeOK, TypeOK', Backed, [Next]_vars
    PROVE  Backed'
  <1> USE DEF tables, handlers, flusher, reader
  <1>1. ASSUME NEW e \in Exports, NEW r \in Requests, Start(e, r)
        PROVE  Backed'
    <2>1. /\ pc[e] = "new" /\ pc'[e] = "location" /\ at'[e] = 1
          /\ \A d \in Exports : d # e =>
                pc'[d] = pc[d] /\ at'[d] = at[d] /\ req'[d] = req[d]
          /\ UNCHANGED <<tables, todo>>
      BY <1>1 DEF Start, Goto, TypeOK
    <2>2. \A v \in traceEvents \cup todo :
             v[1] \in Exports /\ v[1] # e /\ TraceOf(v)' = TraceOf(v)
      BY <2>1 DEF TypeOK, Backed, ReaderBacked, TraceOf, Samples
    <2>3. EventsBacked' /\ ReaderBacked' /\ TracesBacked'
      BY <2>1, <2>2 DEF Backed, EventsBacked, ReaderBacked, TracesBacked
    <2>4. HandlerBacked'
      BY <2>1 DEF Backed, HandlerBacked, Locs, Samples
    <2>5. QED
      BY <2>1, <2>3, <2>4 DEF Backed
  <1>2. ASSUME NEW e \in Exports, ReadLocation(e)
        PROVE  Backed'
    <2>1. /\ executables \subseteq executables'
          /\ FilesOf({Locs(e)[at[e]]}) \subseteq executables'
          /\ at'[e] = at[e] + 1 /\ at[e] \in Nat \ {0}
          /\ pc[e] = "location" /\ pc' = pc /\ req' = req
          /\ \A d \in Exports : d # e => at'[d] = at[d]
          /\ UNCHANGED <<stackFrames, stackTraces, traceEvents, todo>>
      BY <1>2 DEF ReadLocation, TypeOK
    <2>2. \A i \in 1 .. at'[e] - 1 : i = at[e] \/ i \in 1 .. at[e] - 1
      BY <2>1
    <2>3. \A i \in 1 .. at'[e] - 1 :
             FilesOf({Locs(e)[i]}) \subseteq executables'
      BY <2>1, <2>2 DEF Backed, HandlerBacked
    <2>4. HandlerBacked'
      BY <2>1, <2>3, GrowingStep DEF HandlerBacked, Locs, Samples
    <2>5. QED
      BY <2>1, <2>4, GrowingStep DEF Backed
  <1>3. ASSUME NEW e \in Exports, CommitFrames(e)
        PROVE  Backed'
    <2>1. /\ stackFrames \subseteq stackFrames'
          /\ FramesOf(Locs(e)) \cap Described \subseteq stackFrames'
          /\ pc[e] = "location" /\ pc'[e] = "sample" /\ req' = req
          /\ at[e] > Len(Locs(e)) /\ at[e] \in Nat
          /\ \A d \in Exports : d # e => pc'[d] = pc[d] /\ at'[d] = at[d]
          /\ UNCHANGED <<executables, stackTraces, traceEvents, todo>>
      <3>1. FramesOf(Locs(e)) \cap Described = MetaData(Carried[req[e]])
        BY RequestMetaData
      <3>2. QED
        BY <1>3, <3>1 DEF CommitFrames, Goto, TypeOK
    <2>2. DOMAIN Locs(e) = 1 .. Len(Locs(e)) /\ Len(Locs(e)) \in Nat
      BY RequestParts, LenProperties DEF Locs, TypeOK
    <2>3. FilesOf(FramesOf(Locs(e))) \subseteq executables
      <3>1. \A i \in 1 .. Len(Locs(e)) : FilesOf({Locs(e)[i]}) \subseteq executables
        BY <2>1, <2>2 DEF Backed, HandlerBacked
      <3>2. QED
        BY <2>2, <3>1 DEF FilesOf, FramesOf
    <2>4. HandlerBacked'
      BY <2>1, <2>3, GrowingStep DEF HandlerBacked, Locs, Samples
    <2>5. QED
      BY <2>1, <2>4, GrowingStep DEF Backed
  <1>4. ASSUME NEW e \in Exports, StoreTrace(e)
        PROVE  Backed'
    <2>1. /\ pc[e] = "sample" /\ pc'[e] = "event"
          /\ at[e] \in 1 .. Len(Samples(e))
          /\ stackTraces' = stackTraces \cup {Samples(e)[at[e]].trace}
          /\ \A d \in Exports : d # e => pc'[d] = pc[d]
          /\ UNCHANGED <<executables, stackFrames, traceEvents, req, at, todo>>
      BY <1>4, RequestParts DEF StoreTrace, Goto, TypeOK, Samples
    <2>2. FramesOf(Samples(e)[at[e]].trace) \subseteq FramesOf(Locs(e))
      BY <2>1, TraceFrames
    <2>3. TracesBacked'
      <3>1. FilesOf(FramesOf(Samples(e)[at[e]].trace)) \subseteq FilesOf(FramesOf(Locs(e)))
        BY <2>2 DEF FilesOf
      <3>2. QED
        BY <2>1, <2>2, <3>1 DEF Backed, TracesBacked, HandlerBacked
    <2>4. EventsBacked' /\ ReaderBacked'
      <3>1. \A v \in traceEvents \cup todo : v[1] \in Exports
        BY DEF TypeOK
      <3>2. QED
        BY <2>1, <3>1 DEF Backed, EventsBacked, ReaderBacked, TraceOf, Samples
    <2>5. HandlerBacked'
      BY <2>1 DEF Backed, HandlerBacked, Locs, Samples
    <2>6. QED
      BY <2>1, <2>3, <2>4, <2>5 DEF Backed
  <1>5. ASSUME NEW e \in Exports, StoreEvents(e)
        PROVE  Backed'
    <2>1. /\ pc[e] = "event" /\ pc'[e] = "sample"
          /\ traceEvents' = traceEvents \cup {<<e, at[e]>>}
          /\ \A d \in Exports : d # e => pc'[d] = pc[d] /\ at'[d] = at[d]
          /\ UNCHANGED <<executables, stackFrames, stackTraces, req, todo>>
      BY <1>5 DEF StoreEvents, Goto, TypeOK
    <2>2. TraceOf(<<e, at[e]>>) \in stackTraces
      BY <2>1 DEF Backed, HandlerBacked, TraceOf
    <2>3. EventsBacked' /\ TracesBacked'
      BY <2>1, <2>2 DEF Backed, EventsBacked, TracesBacked, TraceOf, Samples
    <2>4. ReaderBacked'
      <3>1. \A v \in traceEvents \cup todo : v[1] \in Exports
        BY DEF TypeOK
      <3>2. QED
        BY <2>1, <3>1 DEF Backed, ReaderBacked, TraceOf, Samples
    <2>5. HandlerBacked'
      BY <2>1 DEF Backed, HandlerBacked, Locs, Samples
    <2>6. QED
      BY <2>1, <2>3, <2>4, <2>5 DEF Backed
  <1>6. ASSUME NEW e \in Exports, Reject(e) \/ Accept(e)
        PROVE  Backed'
    <2>1. /\ pc'[e] \in {"rejected", "ok"} /\ pc[e] # "new"
          /\ \A d \in Exports : d # e => pc'[d] = pc[d]
          /\ UNCHANGED <<tables, req, at, todo>>
      BY <1>6 DEF Reject, Accept, Malformed, Goto, TypeOK
    <2>2. HandlerBacked'
      BY <2>1, GrowingStep DEF HandlerBacked, Locs, Samples
    <2>3. QED
      BY <2>1, <2>2, GrowingStep DEF Backed
  <1>7. CASE FlushStart \/ FlushKey \/ FlushTable
    BY <1>7 DEF FlushStart, FlushKey, FlushTable, TypeOK
  <1>8. CASE SampleStart \/ SampleEvent
    <2>1. /\ UNCHANGED <<tables, handlers>>
          /\ todo' \subseteq traceEvents \cup todo
      BY <1>8 DEF SampleStart, SampleEvent
    <2>2. ReaderBacked'
      BY <2>1 DEF Backed, EventsBacked, ReaderBacked, TraceOf, Samples
    <2>3. EventsBacked' /\ TracesBacked' /\ HandlerBacked'
      BY <2>1 DEF Backed, EventsBacked, TracesBacked, HandlerBacked, TraceOf,
                  Samples, Locs
    <2>4. QED
      BY <2>1, <2>2, <2>3 DEF Backed
  <1>9. CASE Restart
    <2>1. /\ pc' = [e \in Exports |-> IF pc[e] \in Busy THEN "lost" ELSE pc[e]]
          /\ todo' = {}
          /\ UNCHANGED <<tables, req, at>>
      BY <1>9 DEF Restart
    <2>2. EventsBacked' /\ TracesBacked'
      BY <2>1 DEF Backed, EventsBacked, TracesBacked, TraceOf, Samples
    <2>3. ReaderBacked'
      <3>1. \A v \in traceEvents : v[1] \in Exports
        BY DEF TypeOK
      <3>2. QED
        BY <2>1, <3>1 DEF Backed, ReaderBacked, Busy
    <2>4. HandlerBacked'
      BY <2>1 DEF Backed, HandlerBacked, Busy
    <2>5. QED
      BY <2>1, <2>2, <2>3, <2>4 DEF Backed
  <1>10. CASE UNCHANGED vars
    BY <1>10 DEF vars, Backed, EventsBacked, TracesBacked, HandlerBacked,
                 ReaderBacked, TraceOf, Samples, Locs
  <1>11. ASSUME NEW x, OutcomeRead(x) \/ OutcomeStore \/ DropIngested(x) PROVE Backed'
    <2>1. /\ executables \subseteq executables'
          /\ UNCHANGED <<stackFrames, stackTraces, traceEvents, handlers, todo>>
      BY <1>11 DEF OutcomeRead, OutcomeStore, DropIngested
    <2>2. EventsBacked' /\ TracesBacked' /\ HandlerBacked' /\ ReaderBacked'
      BY <2>1 DEF Backed, EventsBacked, TracesBacked, HandlerBacked, ReaderBacked,
                  TraceOf, Samples, Locs
    <2>3. QED
      BY <2>2 DEF Backed
  <1>12. QED
    BY <1>1, <1>2, <1>3, <1>4, <1>5, <1>6, <1>7, <1>8, <1>9, <1>10, <1>11
       DEF Next, Handle

(* Once flushed, flushed for good, and no flush runs before the first.     *)
LEMMA FlushedStays == ASSUME TypeOK, [Next]_vars, flushed PROVE flushed'
  BY DEF Next, Handle, Start, ReadLocation, CommitFrames, StoreTrace, StoreEvents,
         Reject, Accept, FlushStart, FlushKey, FlushTable, SampleStart,
         SampleEvent, Restart, OutcomeRead, OutcomeStore, DropIngested, flusher, vars

(* The counts of a report are those of its samples so far.                  *)
LEMMA AggregatedStep ==
    ASSUME ~flushed, TypeOK, Backed, AllAggregated, [Next]_vars
    PROVE  AllAggregated'
  <1>1. ASSUME NEW v \in todo PROVE TraceOf(v) \in stackTraces
    BY <1>1 DEF Backed, ReaderBacked
  <1>2. CASE SampleEvent
    BY <1>1, <1>2 DEF SampleEvent, AllAggregated
  <1>3. CASE SampleStart \/ Restart
    BY <1>3 DEF SampleStart, Restart, AllAggregated
  <1>4. CASE UNCHANGED reader
    BY <1>4 DEF reader, AllAggregated
  <1>5. ASSUME NEW e \in Exports, Handle(e) PROVE UNCHANGED reader
    BY <1>5 DEF Handle, Start, ReadLocation, CommitFrames, StoreTrace,
                StoreEvents, Reject, Accept
  <1>6. FlushStart \/ FlushKey \/ FlushTable => UNCHANGED reader
    BY DEF FlushStart, FlushKey, FlushTable
  <1>7. UNCHANGED vars => UNCHANGED reader
    BY DEF vars
  <1>8. (\E x : OutcomeRead(x) \/ DropIngested(x)) \/ OutcomeStore => UNCHANGED reader
    BY DEF OutcomeRead, OutcomeStore, DropIngested
  <1>9. QED
    BY <1>2, <1>3, <1>4, <1>5, <1>6, <1>7, <1>8 DEF Next

Whole == Backed /\ UnflushedAggregated

(* Until the first flush, an event's trace and a trace's records are there *)
(* and a reader leaves no event out, for any number of handlers that       *)
(* interleave, fail or are cut off.                                        *)
THEOREM RecordsBacked ==
    Spec => [](EventsBacked /\ TracesBacked /\ UnflushedAggregated)
  <1>1. Init => Whole
    BY DEF Init, Whole, Backed, EventsBacked, TracesBacked, HandlerBacked,
           ReaderBacked, AllAggregated, UnflushedAggregated
  <1>2. TypeOK /\ TypeOK' /\ Whole /\ [Next]_vars => Whole'
    <2> SUFFICES ASSUME TypeOK, TypeOK', Whole, [Next]_vars PROVE Whole'
      OBVIOUS
    <2>1. CASE flushed'
      BY <2>1 DEF Whole, Backed, EventsBacked, TracesBacked, HandlerBacked,
                  ReaderBacked, UnflushedAggregated
    <2>2. CASE ~flushed'
      <3>1. ~flushed
        BY <2>2, FlushedStays
      <3>2. QED
        BY <2>2, <3>1, BackedStep, AggregatedStep
           DEF Whole, UnflushedAggregated
    <2>3. QED
      BY <2>1, <2>2
  <1>3. Whole => EventsBacked /\ TracesBacked /\ UnflushedAggregated
    BY DEF Whole, Backed
  <1>4. QED
    BY <1>1, <1>2, <1>3, TypeCorrect, PTL DEF Spec

(* Until the first flush, the records that events and traces refer to are   *)
(* there, also when a handler ended in the middle of its request.           *)
THEOREM RecordsAlwaysLinked == Spec => []RecordsLinked
  BY RecordsBacked, PTL DEF RecordsLinked

(* Until the first flush, no reader leaves an event out, though it looks    *)
(* traces up after it has listed the events.                                *)
THEOREM NoneSkipped == Spec => []UnflushedAggregated
  BY RecordsBacked, PTL

-----------------------------------------------------------------------------
(* Requests are stored in order.                                           *)

StoredOf(e) == {i \in Nat : <<e, i>> \in traceEvents}

(* How much of a request is stored, by how far its handler is.             *)
StoredSoFar ==
    ~flushed =>
       \A e \in Exports :
          /\ pc[e] \in {"new", "location"} => StoredOf(e) = {}
          /\ pc[e] \in {"sample", "event"} => StoredOf(e) = 1 .. at[e] - 1
          /\ pc[e] = "ok" => StoredOf(e) = 1 .. Len(Samples(e))
          /\ \E n \in Nat : StoredOf(e) = 1 .. n

(* What a handler has gone through is stored.                               *)
LEMMA StoredSoFarStep ==
    ASSUME ~flushed, ~flushed', TypeOK, StoredSoFar, [Next]_vars
    PROVE  StoredSoFar'
  <1> USE DEF tables, handlers, Samples
  <1>1. ASSUME NEW e \in Exports, NEW r \in Requests, Start(e, r)
        PROVE  StoredSoFar'
    <2>1. /\ pc[e] = "new" /\ pc'[e] = "location"
          /\ \A d \in Exports : d # e => pc'[d] = pc[d] /\ req'[d] = req[d]
          /\ UNCHANGED <<traceEvents, at>>
      BY <1>1 DEF Start, Goto, TypeOK
    <2>2. \A d \in Exports : StoredOf(d)' = StoredOf(d)
      BY <2>1 DEF StoredOf
    <2>3. ASSUME NEW d \in Exports, d # e
          PROVE  /\ pc'[d] \in {"new", "location"} => StoredOf(d)' = {}
                 /\ pc'[d] \in {"sample", "event"} =>
                       StoredOf(d)' = 1 .. at'[d] - 1
                 /\ pc'[d] = "ok" => StoredOf(d)' = 1 .. Len(Samples(d)')
                 /\ \E n \in Nat : StoredOf(d)' = 1 .. n
      BY <2>1, <2>2, <2>3 DEF StoredSoFar
    <2>4. /\ StoredOf(e)' = {} /\ pc'[e] = "location"
          /\ \E n \in Nat : StoredOf(e)' = 1 .. n
      BY <2>1, <2>2 DEF StoredSoFar
    <2>5. QED
      BY <2>3, <2>4 DEF StoredSoFar
  <1>2. ASSUME NEW e \in Exports, ReadLocation(e) PROVE StoredSoFar'
    <2>1. /\ pc[e] = "location" /\ \A d \in Exports : d # e => at'[d] = at[d]
          /\ UNCHANGED <<traceEvents, pc, req>>
      BY <1>2 DEF ReadLocation, TypeOK
    <2>2. \A d \in Exports : StoredOf(d)' = StoredOf(d)
      BY <2>1 DEF StoredOf
    <2>3. QED
      BY <2>1, <2>2 DEF StoredSoFar
  <1>3. ASSUME NEW e \in Exports, CommitFrames(e) PROVE StoredSoFar'
    <2>1. /\ pc[e] = "location" /\ pc'[e] = "sample" /\ at'[e] = 1
          /\ \A d \in Exports : d # e => pc'[d] = pc[d] /\ at'[d] = at[d]
          /\ UNCHANGED <<traceEvents, req>>
      BY <1>3 DEF CommitFrames, Goto, TypeOK
    <2>2. \A d \in Exports : StoredOf(d)' = StoredOf(d)
      BY <2>1 DEF StoredOf
    <2>3. {} = 1 .. 1 - 1
      OBVIOUS
    <2>4. QED
      BY <2>1, <2>2, <2>3 DEF StoredSoFar
  <1>4. ASSUME NEW e \in Exports, StoreTrace(e) PROVE StoredSoFar'
    BY <1>4 DEF StoreTrace, Goto, StoredSoFar, StoredOf, TypeOK
  <1>5. ASSUME NEW e \in Exports, StoreEvents(e) PROVE StoredSoFar'
    <2>1. /\ pc[e] = "event" /\ pc'[e] = "sample" /\ at[e] \in Nat \ {0}
          /\ at'[e] = at[e] + 1 /\ req' = req
          /\ traceEvents' = traceEvents \cup {<<e, at[e]>>}
          /\ \A d \in Exports : d # e => pc'[d] = pc[d] /\ at'[d] = at[d]
      BY <1>5 DEF StoreEvents, Goto, TypeOK
    <2>2. StoredOf(e)' = StoredOf(e) \cup {at[e]}
      BY <2>1 DEF StoredOf
    <2>3. StoredOf(e)' = 1 .. at[e]
      BY <2>1, <2>2 DEF StoredSoFar
    <2>4. \A d \in Exports : d # e => StoredOf(d)' = StoredOf(d)
      BY <2>1 DEF StoredOf
    <2>5. QED
      BY <2>1, <2>3, <2>4 DEF StoredSoFar
  <1>6. ASSUME NEW e \in Exports, Reject(e) PROVE StoredSoFar'
    <2>1. /\ pc'[e] = "rejected" /\ \A d \in Exports : d # e => pc'[d] = pc[d]
          /\ UNCHANGED <<traceEvents, at, req>>
      BY <1>6 DEF Reject, Goto, TypeOK
    <2>2. \A d \in Exports : StoredOf(d)' = StoredOf(d)
      BY <2>1 DEF StoredOf
    <2>3. QED
      BY <2>1, <2>2 DEF StoredSoFar
  <1>7. ASSUME NEW e \in Exports, Accept(e) PROVE StoredSoFar'
    <2>1. /\ pc[e] = "sample" /\ pc'[e] = "ok" /\ at[e] \in Nat \ {0}
          /\ at[e] = Len(Samples(e)) + 1 /\ Len(Samples(e)) \in Nat
          /\ \A d \in Exports : d # e => pc'[d] = pc[d]
          /\ UNCHANGED <<tables, req, at>>
      BY <1>7, RequestParts DEF Accept, Goto, TypeOK
    <2>2. StoredOf(e) = 1 .. Len(Samples(e))
      BY <2>1 DEF StoredSoFar
    <2>3. QED
      BY <2>1, <2>2 DEF StoredSoFar, StoredOf
  <1>8. CASE FlushStart \/ FlushKey \/ FlushTable
    BY <1>8 DEF FlushStart, FlushKey, FlushTable, TypeOK
  <1>9. CASE SampleStart \/ SampleEvent \/ UNCHANGED vars
    BY <1>9 DEF SampleStart, SampleEvent, vars, StoredSoFar, StoredOf
  <1>10. CASE Restart
    BY <1>10 DEF Restart, Busy, StoredSoFar, StoredOf, TypeOK
  <1>11. ASSUME NEW x, OutcomeRead(x) \/ OutcomeStore \/ DropIngested(x)
         PROVE  StoredSoFar'
    BY <1>11 DEF OutcomeRead, OutcomeStore, DropIngested, StoredSoFar, StoredOf
  <1>12. QED
    BY <1>1, <1>2, <1>3, <1>4, <1>5, <1>6, <1>7, <1>8, <1>9, <1>10, <1>11
       DEF Next, Handle

(* Until the first flush, an accepted request is stored whole, and one     *)
(* that was refused or lost up to the sample it failed at.                 *)
THEOREM StoredInOrder == Spec => []NoHoles
  <1>1. Init => StoredSoFar
    <2> SUFFICES ASSUME Init PROVE StoredSoFar
      OBVIOUS
    <2>1. \A e \in Exports : StoredOf(e) = {}
      BY DEF Init, StoredOf
    <2>2. \A e \in Exports : pc[e] = "new"
      BY DEF Init
    <2>3. {} = 1 .. 0
      OBVIOUS
    <2>4. \A e \in Exports : \E n \in Nat : StoredOf(e) = 1 .. n
      BY <2>1, <2>3
    <2>5. QED
      BY <2>1, <2>2, <2>4 DEF StoredSoFar
  <1>2. TypeOK /\ StoredSoFar /\ [Next]_vars => StoredSoFar'
    <2> SUFFICES ASSUME TypeOK, StoredSoFar, [Next]_vars PROVE StoredSoFar'
      OBVIOUS
    <2>1. CASE flushed'
      BY <2>1 DEF StoredSoFar
    <2>2. CASE ~flushed'
      <3>1. ~flushed
        BY <2>2, FlushedStays
      <3>2. QED
        BY <2>2, <3>1, StoredSoFarStep
    <2>3. QED
      BY <2>1, <2>2
  <1>3. TypeOK /\ StoredSoFar => NoHoles
    <2> SUFFICES ASSUME TypeOK, StoredSoFar, ~flushed PROVE NoHoles
      BY DEF NoHoles
    <2>1. ASSUME NEW e \in Exports
          PROVE  DOMAIN Samples(e) = 1 .. Len(Samples(e))
                 /\ Len(Samples(e)) \in Nat
      BY RequestParts, LenProperties DEF Samples, TypeOK
    <2>2. ASSUME NEW e \in Exports, pc[e] = "ok", NEW i \in DOMAIN Samples(e)
          PROVE  <<e, i>> \in traceEvents
      BY <2>1, <2>2 DEF StoredSoFar, StoredOf
    <2>3. ASSUME NEW e \in Exports,
                 NEW i \in DOMAIN Samples(e), <<e, i>> \in traceEvents,
                 NEW j \in DOMAIN Samples(e), j < i
          PROVE  <<e, j>> \in traceEvents
      <3>1. PICK n \in Nat : StoredOf(e) = 1 .. n
        BY DEF StoredSoFar
      <3>2. i \in Nat /\ j \in Nat /\ 1 <= j
        BY <2>1
      <3>3. i \in 1 .. n
        BY <2>3, <3>1, <3>2 DEF StoredOf
      <3>4. j \in StoredOf(e)
        BY <2>3, <3>1, <3>2, <3>3
      <3>5. QED
        BY <3>4 DEF StoredOf
    <2>4. QED
      BY <2>2, <2>3 DEF NoHoles
  <1>4. QED
    BY <1>1, <1>2, <1>3, TypeCorrect, PTL DEF Spec

-----------------------------------------------------------------------------
(* A flush leaves nothing it found.                                        *)

(* The tables a flush has still to come to.                                 *)
Ahead ==
    CASE flushing = "traceEvents" -> {"stackTraces", "stackFrames", "executables"}
      [] flushing = "stackTraces" -> {"stackFrames", "executables"}
      [] flushing = "stackFrames" -> {"executables"}
      [] flushing = "executables" -> {}

(* Whatever was written meanwhile, the records it found that are still      *)
(* there are in those tables, or its iterator has still to yield them.      *)
FlushSoFar ==
    flushing # "no" =>
       \A x \in stale : (x[1] = flushing /\ x[2] \in doomed) \/ x[1] \in Ahead

(* What a flush has gone through is gone.                                   *)
LEMMA FlushSoFarStep ==
    ASSUME TypeOK, FlushSoFar, [Next]_vars
    PROVE  FlushSoFar'
  <1> USE DEF tables, handlers, flusher, reader
  <1>1. ASSUME stale' \subseteq stale, UNCHANGED <<flushing, doomed>> PROVE FlushSoFar'
    BY <1>1 DEF FlushSoFar, Ahead
  <1>2. ASSUME NEW e \in Exports, Handle(e) PROVE FlushSoFar'
    <2>1. stale' \subseteq stale /\ UNCHANGED <<flushing, doomed>>
      BY <1>2 DEF Handle, Start, ReadLocation, CommitFrames, StoreTrace, StoreEvents,
                  Reject, Accept, Written
    <2>2. QED
      BY <1>1, <2>1
  <1>3. ASSUME NEW x, OutcomeRead(x) \/ OutcomeStore \/ DropIngested(x) PROVE FlushSoFar'
    <2>1. stale' \subseteq stale /\ UNCHANGED <<flushing, doomed>>
      BY <1>3 DEF OutcomeRead, OutcomeStore, DropIngested, Written
    <2>2. QED
      BY <1>1, <2>1
  <1>4. CASE FlushStart
    <2>1. /\ flushing' = "traceEvents" /\ doomed' = traceEvents /\ stale' = Records
      BY <1>4 DEF FlushStart
    <2>2. \A x \in Records : \/ x[1] = "traceEvents" /\ x[2] \in traceEvents
                             \/ x[1] \in {"stackTraces", "stackFrames", "executables"}
      BY DEF Records
    <2>3. QED
      BY <2>1, <2>2 DEF FlushSoFar, Ahead
  <1>5. CASE FlushKey
    <2>1. PICK k \in doomed :
             /\ doomed' = doomed \ {k}
             /\ traceEvents' = IF flushing = "traceEvents" THEN traceEvents \ {k}
                               ELSE traceEvents
             /\ stackTraces' = IF flushing = "stackTraces" THEN stackTraces \ {k}
                               ELSE stackTraces
             /\ stackFrames' = IF flushing = "stackFrames" THEN stackFrames \ {k}
                               ELSE stackFrames
             /\ executables' = IF flushing = "executables" THEN executables \ {k}
                               ELSE executables
             /\ flushing' = flushing /\ flushing # "no"
             /\ stale' = stale \ {<<flushing, k>>}
      BY <1>5 DEF FlushKey
    <2>2. flushing \in {"traceEvents", "stackTraces", "stackFrames", "executables"}
      BY <2>1 DEF TypeOK
    <2>3. ASSUME NEW x \in stale', x[1] = flushing PROVE x[2] # k
      <3>1. x \in Records /\ x # <<flushing, k>>
        BY <2>1, <2>3 DEF TypeOK
      <3>2. x = <<x[1], x[2]>>
        BY <3>1 DEF Records
      <3>3. QED
        BY <2>3, <3>1, <3>2
    <2>4. Ahead' = Ahead
      BY <2>1 DEF Ahead
    <2>5. QED
      BY <2>1, <2>3, <2>4 DEF FlushSoFar
  <1>6. CASE FlushTable
    <2>1. /\ flushing # "no" /\ doomed = {} /\ stale' = stale /\ stale \subseteq Records
          /\ \A x \in stale : x[1] \in Ahead
      BY <1>6 DEF FlushTable, FlushSoFar, TypeOK
    <2>2. \A x \in Records : /\ x[1] = "stackTraces" => x[2] \in stackTraces
                             /\ x[1] = "stackFrames" => x[2] \in stackFrames
                             /\ x[1] = "executables" => x[2] \in executables
      BY DEF Records
    <2>3. CASE flushing = "traceEvents" /\ flushing' = "stackTraces" /\ doomed' = stackTraces
      <3>1. Ahead = {"stackTraces"} \cup Ahead'
        BY <2>3 DEF Ahead
      <3>2. ASSUME NEW x \in stale'
            PROVE  (x[1] = flushing' /\ x[2] \in doomed') \/ x[1] \in Ahead'
        <4>1. x \in Records /\ x[1] \in Ahead
          BY <2>1, <3>2
        <4>2. x[1] = "stackTraces" \/ x[1] \in Ahead'
          BY <3>1, <4>1
        <4>3. x[1] = "stackTraces" => x[2] \in stackTraces
          BY <2>2, <4>1
        <4>4. QED
          BY <2>3, <4>2, <4>3
      <3>3. QED
        BY <3>2 DEF FlushSoFar
    <2>4. CASE flushing = "stackTraces" /\ flushing' = "stackFrames" /\ doomed' = stackFrames
      <3>1. Ahead = {"stackFrames"} \cup Ahead'
        BY <2>4 DEF Ahead
      <3>2. ASSUME NEW x \in stale'
            PROVE  (x[1] = flushing' /\ x[2] \in doomed') \/ x[1] \in Ahead'
        <4>1. x \in Records /\ x[1] \in Ahead
          BY <2>1, <3>2
        <4>2. x[1] = "stackFrames" \/ x[1] \in Ahead'
          BY <3>1, <4>1
        <4>3. x[1] = "stackFrames" => x[2] \in stackFrames
          BY <2>2, <4>1
        <4>4. QED
          BY <2>4, <4>2, <4>3
      <3>3. QED
        BY <3>2 DEF FlushSoFar
    <2>5. CASE flushing = "stackFrames" /\ flushing' = "executables" /\ doomed' = executables
      <3>1. Ahead = {"executables"} \cup Ahead'
        BY <2>5 DEF Ahead
      <3>2. ASSUME NEW x \in stale'
            PROVE  (x[1] = flushing' /\ x[2] \in doomed') \/ x[1] \in Ahead'
        <4>1. x \in Records /\ x[1] \in Ahead
          BY <2>1, <3>2
        <4>2. x[1] = "executables" \/ x[1] \in Ahead'
          BY <3>1, <4>1
        <4>3. x[1] = "executables" => x[2] \in executables
          BY <2>2, <4>1
        <4>4. QED
          BY <2>5, <4>2, <4>3
      <3>3. QED
        BY <3>2 DEF FlushSoFar
    <2>6. CASE flushing' = "no"
      BY <2>6 DEF FlushSoFar
    <2>7. QED
      BY <1>6, <2>3, <2>4, <2>5, <2>6 DEF FlushTable
  <1>7. CASE SampleStart \/ SampleEvent \/ UNCHANGED vars
    BY <1>1, <1>7 DEF SampleStart, SampleEvent, vars
  <1>8. CASE Restart
    BY <1>8 DEF Restart, FlushSoFar
  <1>9. QED
    BY <1>2, <1>3, <1>4, <1>5, <1>6, <1>7, <1>8 DEF Next

(* Whatever exports, fetches and dropped files write while flush_events     *)
(* takes the tables one after the other, nothing it found when it began is  *)
(* left unless it was written again.                                        *)
THEOREM FlushAlwaysForgets == Spec => FlushForgets
  <1> DEFINE A == flushing = "executables" /\ flushing' = "no" /\ restarts' = restarts
                  => stale = {}
  <1>1. Init => FlushSoFar
    BY DEF Init, FlushSoFar
  <1>2. TypeOK /\ FlushSoFar /\ [Next]_vars => [A]_vars
    <2> SUFFICES ASSUME TypeOK, FlushSoFar, Next,
                        flushing = "executables", flushing' = "no",
                        restarts' = restarts
                 PROVE  stale = {}
      OBVIOUS
    <2> USE DEF tables, handlers, flusher, reader
    <2>1. CASE FlushTable
      <3>1. doomed = {} /\ Ahead = {}
        BY <2>1 DEF FlushTable, Ahead
      <3>2. QED
        BY <3>1 DEF FlushSoFar
    <2>2. ~Restart
      <3>1. restarts \in 0 .. MaxRestarts
        BY DEF TypeOK
      <3>2. restarts + 1 # restarts
        BY <3>1
      <3>3. Restart => restarts' = restarts + 1
        BY DEF Restart
      <3>4. QED
        BY <3>2, <3>3
    <2>3. ~FlushStart /\ ~FlushKey /\ ~SampleStart /\ ~SampleEvent
      BY DEF FlushStart, FlushKey, SampleStart, SampleEvent
    <2>4. \A e \in Exports : ~Handle(e)
      BY DEF Handle, Start, ReadLocation, CommitFrames, StoreTrace, StoreEvents, Reject,
             Accept
    <2>5. \A x : ~OutcomeRead(x) /\ ~OutcomeStore /\ ~DropIngested(x)
      BY DEF OutcomeRead, OutcomeStore, DropIngested
    <2>6. QED
      BY <2>1, <2>2, <2>3, <2>4, <2>5 DEF Next
  <1>3. TypeOK /\ FlushSoFar /\ [Next]_vars => FlushSoFar'
    BY FlushSoFarStep
  <1>4. Spec => [][A]_vars
    BY <1>1, <1>2, <1>3, TypeCorrect, PTL DEF Spec
  <1>5. QED
    BY <1>4 DEF FlushForgets

-----------------------------------------------------------------------------
(* An event is what its sample says.                                       *)

(* Multiplication by a constant keeps an order. *)
LEMMA ProductGrows ==
    ASSUME NEW a \in Nat, NEW b \in Nat, NEW c \in Nat, a <= b
    PROVE  a * c \in Nat /\ b * c \in Nat /\ a * c <= b * c
  OBVIOUS

(* Integer division, by what it is to be. *)
LEMMA QuotientOf ==
    ASSUME NEW t \in Nat, NEW b \in Nat \ {0}, NEW m \in Nat,
           m * b <= t, t < (m + 1) * b
    PROVE  t \div b = m
  <1>1. /\ t \div b \in Nat
        /\ (t \div b) * b <= t /\ t < (t \div b + 1) * b
    OBVIOUS
  <1> DEFINE q == t \div b
  <1> HIDE DEF q
  <1>2. q \in Nat /\ q * b <= t /\ t < (q + 1) * b
    BY <1>1 DEF q
  <1>3. CASE q < m
    <2>1. (q + 1) * b <= m * b
      BY <1>2, <1>3, ProductGrows
    <2>2. QED
      BY <1>2, <2>1, ProductGrows
  <1>4. CASE m < q
    <2>1. (m + 1) * b <= q * b
      BY <1>2, <1>4, ProductGrows
    <2>2. QED
      BY <1>2, <2>1, ProductGrows
  <1>5. QED
    BY <1>2, <1>3, <1>4 DEF q

(* A stamp lies in the second it is meant to be, in either unit.            *)
LEMMA MeansSeconds ==
    ASSUME NEW t \in Nat, NEW m \in Nat, Means(t, m)
    PROVE  Seconds(t) = m
  <1>1. Epoch \in Nat /\ Milli \in Nat \ {0} /\ Nano \in Nat /\ Milli <= Nano
    BY StampsAssumption
  <1>2. CASE t > Epoch * Nano /\ m * Nano <= t /\ t < (m + 1) * Nano
    <2>1. t \div Nano = m
      BY <1>1, <1>2, QuotientOf
    <2>2. QED
      BY <1>2, <2>1 DEF Seconds
  <1>3. CASE m < Epoch /\ m * Milli <= t /\ t < (m + 1) * Milli
    <2>1. t \div Milli = m
      BY <1>1, <1>3, QuotientOf
    <2>2. (m + 1) * Milli <= Epoch * Milli
      BY <1>1, <1>3, ProductGrows
    <2>3. Epoch * Milli <= Epoch * Nano /\ Epoch * Nano \in Nat /\ Epoch * Milli \in Nat
      <3>1. /\ Milli * Epoch \in Nat /\ Nano * Epoch \in Nat
            /\ Milli * Epoch <= Nano * Epoch
        BY <1>1, ProductGrows
      <3>2. Milli * Epoch = Epoch * Milli /\ Nano * Epoch = Epoch * Nano
        BY <1>1
      <3>3. QED
        BY <3>1, <3>2
    <2>4. ~(t > Epoch * Nano)
      <3>1. (m + 1) * Milli \in Nat
        BY <1>1
      <3>2. QED
        BY <1>3, <2>2, <2>3, <3>1
    <2>5. QED
      BY <2>1, <2>4 DEF Seconds
  <1>4. QED
    BY <1>2, <1>3 DEF Means

(* The seconds of a sample's events are those its stamps are meant to be;   *)
(* the current time is taken for milliseconds.                              *)
LEMMA TimesMeant ==
    ASSUME NEW r \in Requests, NEW i \in DOMAIN Carried[r].samples, NEW now \in Nows
    PROVE  LET s == Carried[r].samples[i]
           IN  Times(s, now) = IF s.stamps = <<>> THEN {now \div Milli} ELSE s.meant
  <1> DEFINE s == Carried[r].samples[i]
  <1>1. /\ \A n \in DOMAIN s.stamps :
              s.stamps[n] \in Nat /\ \E m \in s.meant : Means(s.stamps[n], m)
        /\ \A m \in s.meant :
              m \in Nat /\ \E n \in DOMAIN s.stamps : Means(s.stamps[n], m)
    BY StampsAssumption
  <1> HIDE DEF s
  <1>2. CASE s.stamps = <<>>
    <2>1. now \in Nat /\ now <= Epoch * Nano /\ Epoch * Nano \in Nat
      BY StampsAssumption
    <2>2. Seconds(now) = now \div Milli
      BY <2>1 DEF Seconds
    <2>3. QED
      BY <1>2, <2>2 DEF Times, s
  <1>3. CASE s.stamps # <<>>
    <2>1. Times(s, now) = {Seconds(s.stamps[n]) : n \in DOMAIN s.stamps}
      BY <1>3 DEF Times
    <2>2. ASSUME NEW n \in DOMAIN s.stamps PROVE Seconds(s.stamps[n]) \in s.meant
      <3>1. PICK m \in s.meant : Means(s.stamps[n], m)
        BY <1>1
      <3>2. Seconds(s.stamps[n]) = m
        BY <1>1, <3>1, MeansSeconds
      <3>3. QED
        BY <3>2
    <2>3. ASSUME NEW m \in s.meant PROVE \E n \in DOMAIN s.stamps : Seconds(s.stamps[n]) = m
      <3>1. PICK n \in DOMAIN s.stamps : Means(s.stamps[n], m)
        BY <1>1
      <3>2. Seconds(s.stamps[n]) = m
        BY <1>1, <3>1, MeansSeconds
      <3>3. QED
        BY <3>2
    <2>4. Times(s, now) = s.meant
      BY <2>1, <2>2, <2>3
    <2>5. QED
      BY <1>3, <2>4 DEF s
  <1>4. QED
    BY <1>2, <1>3

(* The first of a set of places in a sequence. *)
LEMMA FirstPlace ==
    ASSUME NEW S \in SUBSET Nat, S # {}
    PROVE  \E n \in S : \A m \in S : n <= m
  <1> DEFINE R == OpToRel(<, Nat)
  <1>1. IsWellFoundedOn(R, Nat)
    BY NatLessThanWellFounded
  <1>2. R = {ss \in Nat \X Nat : ss[1] < ss[2]}
    BY DEF OpToRel
  <1> HIDE DEF R
  <1>3. PICK n \in S : \A m \in S : <<m, n>> \notin R
    BY <1>1, WFMin
  <1>4. \A k, m \in Nat : k < m => <<k, m>> \in R
    BY <1>2
  <1>5. \A m \in S : ~(m < n)
    BY <1>3, <1>4
  <1>6. QED
    BY <1>5

(* What get_attr returns is the value of an attribute of that name.         *)
LEMMA AttrFound ==
    ASSUME NEW r, NEW indices, IsSequence(indices), NEW field,
           GetAttr(r, indices, field) # NoText
    PROVE  \E n \in DOMAIN indices :
              /\ r.attributes[indices[n]].key = field
              /\ r.attributes[indices[n]].value = GetAttr(r, indices, field)
  <1> DEFINE valid(n) == indices[n] \in DOMAIN r.attributes
             key(n) == r.attributes[indices[n]].key
             stops == {n \in DOMAIN indices :
                          valid(n) => key(n) = field \/ ~Present(key(n))}
             first == CHOOSE n \in stops : \A m \in stops : n <= m
  <1>1. GetAttr(r, indices, field) =
           IF stops # {} /\ valid(first) /\ key(first) = field
           THEN r.attributes[indices[first]].value ELSE NoText
    BY DEF GetAttr
  <1>2. stops \in SUBSET Nat
    BY DEF IsSequence
  <1>3. stops # {} /\ valid(first) /\ key(first) = field
    BY <1>1
  <1>4. first \in stops
    <2> HIDE DEF stops
    <2>1. QED
      BY <1>2, <1>3, FirstPlace
  <1>5. QED
    BY <1>1, <1>3, <1>4

(* What the frame of a location has in common with it.                      *)
Says(r, f, loc) ==
    \/ f = Dummy /\ loc = r.locations[1]
    \/ /\ f.address = loc.address
       /\ \E n \in DOMAIN loc.attrs :
             LET a == r.attributes[loc.attrs[n]]
             IN  a.key = "profile.frame.type" /\ a.value = f.kind

(* What a location says of its frame.                                       *)
LEMMA FrameSays ==
    ASSUME NEW name \in Requests, NEW n \in DOMAIN Carried[name].locations,
           FrameOf(Carried[name], Carried[name].locations[n]) # BadFrame
    PROVE  Says(Carried[name], FrameOf(Carried[name], Carried[name].locations[n]),
                Carried[name].locations[n])
  <1> DEFINE r == Carried[name]
             loc == Carried[name].locations[n]
             kind == GetAttr(r, loc.attrs, "profile.frame.type")
             f == FrameOf(r, loc)
  <1>1. IsSequence(loc.attrs)
    BY IngestAssumption
  <1> HIDE DEF r, loc
  <1>2. CASE kind = NoText
    BY <1>2 DEF FrameOf, Says, r, loc
  <1>3. CASE kind # NoText
    <2>1. \E file : f = [kind |-> kind, file |-> file, address |-> loc.address]
      <3>1. f # BadFrame
        BY DEF r, loc
      <3> HIDE DEF kind
      <3>2. QED
        BY <1>3, <3>1 DEF FrameOf, kind
    <2>2. f.kind = kind /\ f.address = loc.address
      <3> HIDE DEF kind, f
      <3>1. QED
        BY <2>1
    <2>3. \E k \in DOMAIN loc.attrs :
             /\ r.attributes[loc.attrs[k]].key = "profile.frame.type"
             /\ r.attributes[loc.attrs[k]].value = kind
      BY <1>1, <1>3, AttrFound
    <2> HIDE DEF kind, f
    <2>4. Says(r, f, loc)
      BY <2>2, <2>3 DEF Says
    <2>5. QED
      BY <2>4 DEF r, loc, f
  <1>4. QED
    BY <1>2, <1>3

NoneBad(e) == BadFrame \notin FramesOf(Locs(e))
SecondsOf(v) == {x[2] : x \in {y \in stamped : y[1] = v}}

(* A handler has refused no location so far, and no sample that it has      *)
(* stored; ...                                                              *)
HandlerSound ==
    \A e \in Exports :
       /\ pc[e] = "location" => \A i \in 1 .. at[e] - 1 : Locs(e)[i] # BadFrame
       /\ pc[e] \in {"sample", "event"} => NoneBad(e)
       /\ pc[e] = "event" => Samples(e)[at[e]].flaw # "location"

(* ... an event is one of a sample that is well-formed, with its seconds;   *)
(* ...                                                                      *)
EventSound(v) ==
    /\ pc[v[1]] # "new"
    /\ v[2] \in 1 .. Len(Samples(v[1]))
    /\ Samples(v[1])[v[2]].flaw = "none"
    /\ NoneBad(v[1])
    /\ \E now \in Nows : SecondsOf(v) = Times(Carried[req[v[1]]].samples[v[2]], now)

(* ... and a handler stores the events of each sample once.                 *)
StampedOnce ==
    \A x \in stamped :
       /\ x[1][1] \in Exports /\ x[1][2] \in Nat
       /\ pc[x[1][1]] \notin {"new", "location"}
       /\ pc[x[1][1]] \in {"sample", "event"} => x[1][2] < at[x[1][1]]

EventInv == HandlerSound /\ (\A v \in traceEvents : EventSound(v)) /\ StampedOnce

(* A step that stores no event and gives no handler another request.        *)
LEMMA EventKept ==
    ASSUME EventInv, TypeOK, traceEvents' \subseteq traceEvents, UNCHANGED <<req, stamped>>,
           \A d \in Exports : pc[d] # "new" => pc'[d] # "new"
    PROVE  \A v \in traceEvents' : EventSound(v)'
  <1> SUFFICES ASSUME NEW v \in traceEvents' PROVE EventSound(v)'
    OBVIOUS
  <1>1. v \in traceEvents /\ v[1] \in Exports /\ EventSound(v)
    BY DEF EventInv, TypeOK
  <1>2. /\ SecondsOf(v)' = SecondsOf(v) /\ Samples(v[1])' = Samples(v[1])
        /\ NoneBad(v[1])' = NoneBad(v[1])
    BY DEF SecondsOf, Samples, NoneBad, Locs
  <1>3. QED
    BY <1>1, <1>2 DEF EventSound

(* Steps that are not a handler's. *)
LEMMA EventOutside ==
    ASSUME EventInv, TypeOK, traceEvents' \subseteq traceEvents, UNCHANGED <<req, at, stamped>>,
           \/ UNCHANGED pc
           \/ pc' = [e \in Exports |-> IF pc[e] \in Busy THEN "lost" ELSE pc[e]]
    PROVE  EventInv'
  <1>1. \A d \in Exports : pc'[d] = pc[d] \/ (pc[d] \in Busy /\ pc'[d] = "lost")
    OBVIOUS
  <1>2. \A v \in traceEvents' : EventSound(v)'
    BY <1>1, EventKept DEF Busy
  <1>3. HandlerSound'
    BY <1>1 DEF EventInv, HandlerSound, NoneBad, Locs, Samples
  <1>4. StampedOnce'
    BY <1>1 DEF EventInv, StampedOnce, Busy
  <1>5. QED
    BY <1>2, <1>3, <1>4 DEF EventInv

(* Every step keeps the invariant about the events of a report.             *)
LEMMA EventInvStep ==
    ASSUME TypeOK, EventInv, [Next]_vars
    PROVE  EventInv'
  <1> USE DEF tables, handlers, flusher, reader
  <1>0. HandlerSound /\ StampedOnce
    BY DEF EventInv
  <1>1. ASSUME NEW e \in Exports, NEW r \in Requests, Start(e, r)
        PROVE  EventInv'
    <2>1. /\ pc[e] = "new" /\ pc'[e] = "location" /\ at[e] = 1 /\ at' = at
          /\ \A d \in Exports : d # e => pc'[d] = pc[d] /\ req'[d] = req[d]
          /\ traceEvents' = traceEvents /\ stamped' = stamped
      BY <1>1 DEF Start, Goto, TypeOK
    <2>2. HandlerSound'
      <3>1. ASSUME NEW d \in Exports, d # e
            PROVE  /\ Locs(d)' = Locs(d) /\ Samples(d)' = Samples(d)
                   /\ NoneBad(d)' = NoneBad(d)
        BY <2>1, <3>1 DEF Locs, Samples, NoneBad
      <3>2. 1 .. at'[e] - 1 = {}
        BY <2>1
      <3>3. QED
        BY <1>0, <2>1, <3>1, <3>2 DEF HandlerSound
    <2>3. ASSUME NEW v \in traceEvents PROVE EventSound(v)'
      <3>1. EventSound(v) /\ v[1] \in Exports /\ v[1] # e
        BY <2>1 DEF EventInv, EventSound, TypeOK
      <3>2. /\ Samples(v[1])' = Samples(v[1]) /\ NoneBad(v[1])' = NoneBad(v[1])
            /\ SecondsOf(v)' = SecondsOf(v) /\ req'[v[1]] = req[v[1]] /\ pc'[v[1]] = pc[v[1]]
        BY <2>1, <3>1 DEF Samples, NoneBad, Locs, SecondsOf
      <3>3. QED
        BY <3>1, <3>2 DEF EventSound
    <2>4. StampedOnce'
      BY <1>0, <2>1 DEF StampedOnce
    <2>5. QED
      BY <2>1, <2>2, <2>3, <2>4 DEF EventInv
  <1>2. ASSUME NEW e \in Exports, ReadLocation(e) PROVE EventInv'
    <2>1. /\ pc[e] = "location" /\ pc' = pc /\ req' = req /\ at[e] \in Nat \ {0}
          /\ at'[e] = at[e] + 1 /\ Locs(e)[at[e]] # BadFrame
          /\ \A d \in Exports : d # e => at'[d] = at[d]
          /\ traceEvents' = traceEvents /\ stamped' = stamped
      BY <1>2 DEF ReadLocation, TypeOK
    <2>2. \A i \in 1 .. at'[e] - 1 : i = at[e] \/ i \in 1 .. at[e] - 1
      BY <2>1
    <2>3. HandlerSound'
      BY <1>0, <2>1, <2>2 DEF HandlerSound, Locs, Samples, NoneBad
    <2>4. StampedOnce'
      BY <1>0, <2>1 DEF StampedOnce
    <2>5. QED
      BY <2>1, <2>3, <2>4, EventKept DEF EventInv
  <1>3. ASSUME NEW e \in Exports, CommitFrames(e) PROVE EventInv'
    <2>1. /\ pc[e] = "location" /\ pc'[e] = "sample" /\ req' = req
          /\ at[e] \in Nat \ {0} /\ at[e] > Len(Locs(e))
          /\ \A d \in Exports : d # e => at'[d] = at[d] /\ pc'[d] = pc[d]
          /\ traceEvents' = traceEvents /\ stamped' = stamped
      BY <1>3 DEF CommitFrames, Goto, TypeOK
    <2>2. NoneBad(e)
      <3>1. DOMAIN Locs(e) = 1 .. Len(Locs(e)) /\ Len(Locs(e)) \in Nat
        BY RequestParts DEF Locs, TypeOK
      <3>2. \A i \in DOMAIN Locs(e) : Locs(e)[i] # BadFrame
        BY <1>0, <2>1, <3>1 DEF HandlerSound
      <3>3. QED
        BY <3>2 DEF NoneBad, FramesOf
    <2>3. HandlerSound'
      BY <1>0, <2>1, <2>2 DEF HandlerSound, Locs, Samples, NoneBad
    <2>4. StampedOnce'
      BY <1>0, <2>1 DEF StampedOnce
    <2>5. QED
      BY <2>1, <2>3, <2>4, EventKept DEF EventInv
  <1>4. ASSUME NEW e \in Exports, StoreTrace(e) PROVE EventInv'
    <2>1. /\ pc[e] = "sample" /\ pc'[e] = "event" /\ req' = req /\ at' = at
          /\ Samples(e)[at[e]].flaw # "location"
          /\ \A d \in Exports : d # e => pc'[d] = pc[d]
          /\ traceEvents' = traceEvents /\ stamped' = stamped
      BY <1>4 DEF StoreTrace, Goto, TypeOK
    <2>2. HandlerSound'
      BY <1>0, <2>1 DEF HandlerSound, Locs, Samples, NoneBad
    <2>3. StampedOnce'
      BY <1>0, <2>1 DEF StampedOnce
    <2>4. QED
      BY <2>1, <2>2, <2>3, EventKept DEF EventInv
  <1>5. ASSUME NEW e \in Exports, StoreEvents(e) PROVE EventInv'
    <2>0. PICK k : k = <<e, at[e]>>
      OBVIOUS
    <2>1. PICK now \in Nows :
             stamped' = stamped \cup
                {<<k, t>> : t \in Times(Carried[req[e]].samples[at[e]], now)}
      BY <1>5, <2>0 DEF StoreEvents
    <2>2. /\ pc[e] = "event" /\ pc'[e] = "sample" /\ req' = req
          /\ at[e] \in Nat \ {0} /\ at'[e] = at[e] + 1
          /\ at[e] <= Len(Samples(e)) /\ Samples(e)[at[e]].flaw # "type"
          /\ \A d \in Exports : d # e => pc'[d] = pc[d] /\ at'[d] = at[d]
          /\ traceEvents' = traceEvents \cup {k}
      BY <1>5, <2>0 DEF StoreEvents, Goto, TypeOK
    <2>3. Samples(e)[at[e]].flaw = "none"
      <3>1. at[e] \in DOMAIN Carried[req[e]].samples /\ req[e] \in Requests
        <4>1. DOMAIN Samples(e) = 1 .. Len(Samples(e)) /\ Len(Samples(e)) \in Nat
          BY RequestParts DEF Samples, TypeOK
        <4>2. DOMAIN Samples(e) = DOMAIN Carried[req[e]].samples /\ req[e] \in Requests
          BY DEF Samples, Decoded, TypeOK
        <4>3. QED
          BY <2>2, <4>1, <4>2
      <3>2. Samples(e)[at[e]].flaw = Flaw(Carried[req[e]], Carried[req[e]].samples[at[e]])
        BY <3>1 DEF Samples, Decoded
      <3>3. Samples(e)[at[e]].flaw \in {"location", "type", "none"}
        BY <3>2 DEF Flaw, BadLocation
      <3>4. Samples(e)[at[e]].flaw # "location"
        BY <1>0, <2>2 DEF HandlerSound
      <3>5. QED
        BY <2>2, <3>3, <3>4
    <2>4. SecondsOf(k) = {}
      <3>1. ASSUME NEW x \in stamped, x[1] = k PROVE FALSE
        <4>1. x[1][1] = e /\ x[1][2] = at[e]
          BY <2>0, <3>1
        <4>2. at[e] < at[e]
          BY <1>0, <2>2, <4>1 DEF StampedOnce
        <4>3. QED
          BY <2>2, <4>2
      <3>2. QED
        BY <3>1 DEF SecondsOf
    <2> DEFINE T == Times(Carried[req[e]].samples[at[e]], now)
    <2>5. SecondsOf(k)' = T /\ \A v : v # k => SecondsOf(v)' = SecondsOf(v)
      <3> HIDE DEF T
      <3>1. stamped' = stamped \cup {<<k, t>> : t \in T}
        BY <2>1 DEF T
      <3>2. ASSUME NEW v, v # k PROVE SecondsOf(v)' = SecondsOf(v)
        <4>1. {y \in stamped' : y[1] = v} = {y \in stamped : y[1] = v}
          BY <3>1, <3>2
        <4>2. QED
          BY <4>1 DEF SecondsOf
      <3>3. SecondsOf(k)' = T
        <4>1. {y \in stamped' : y[1] = k} = {y \in stamped : y[1] = k} \cup {<<k, t>> : t \in T}
          BY <3>1
        <4>2. {y \in stamped : y[1] = k} = {}
          BY <2>4 DEF SecondsOf
        <4>3. {y \in stamped' : y[1] = k} = {<<k, t>> : t \in T}
          BY <4>1, <4>2
        <4>4. SecondsOf(k)' = {x[2] : x \in {y \in stamped' : y[1] = k}}
          BY DEF SecondsOf
        <4>5. SecondsOf(k)' = {x[2] : x \in {<<k, t>> : t \in T}}
          BY <4>3, <4>4
        <4>6. {x[2] : x \in {<<k, t>> : t \in T}} = T
          <5>1. \A t : <<k, t>>[2] = t
            OBVIOUS
          <5>2. ASSUME NEW t \in T PROVE t \in {x[2] : x \in {<<k, u>> : u \in T}}
            BY <5>1
          <5>3. QED
            BY <5>1, <5>2
        <4>7. QED
          BY <4>5, <4>6
      <3>4. QED
        BY <3>2, <3>3
    <2>6. HandlerSound'
      BY <1>0, <2>2 DEF HandlerSound, Locs, Samples, NoneBad
    <2>7. \A d \in Exports : Samples(d)' = Samples(d) /\ NoneBad(d)' = NoneBad(d)
      BY <2>2 DEF Samples, NoneBad, Locs
    <2>8. ASSUME NEW v \in traceEvents' PROVE EventSound(v)'
      <3>1. CASE v = k
        <4>1. v[1] = e /\ v[2] = at[e]
          BY <2>0, <3>1
        <4>2. NoneBad(e)
          BY <1>0, <2>2 DEF HandlerSound
        <4>3. at[e] \in 1 .. Len(Samples(e))
          BY <2>2, RequestParts DEF Samples, TypeOK
        <4>4. SecondsOf(v)' = Times(Carried[req'[e]].samples[at[e]], now)
          <5>1. {y \in stamped' : y[1] = v} = {y \in stamped' : y[1] = k}
            BY <3>1
          <5>2. SecondsOf(v)' = SecondsOf(k)'
            BY <5>1 DEF SecondsOf
          <5>3. SecondsOf(k)' = T
            BY <2>5
          <5>4. T = Times(Carried[req'[e]].samples[at[e]], now)
            BY <2>2
          <5> HIDE DEF T
          <5>5. QED
            BY <5>2, <5>3, <5>4
        <4> HIDE DEF T
        <4>5. QED
          BY <2>2, <2>3, <2>7, <4>1, <4>2, <4>3, <4>4 DEF EventSound
      <3>2. CASE v # k
        <4>1. v \in traceEvents /\ v[1] \in Exports /\ EventSound(v)
          BY <2>2, <3>2 DEF EventInv, TypeOK
        <4>2. SecondsOf(v)' = SecondsOf(v) /\ pc'[v[1]] # "new"
          BY <2>2, <2>5, <3>2, <4>1 DEF EventSound
        <4>3. QED
          BY <2>2, <2>7, <4>1, <4>2 DEF EventSound
      <3>3. QED
        BY <3>1, <3>2
    <2>9. StampedOnce'
      <3>1. ASSUME NEW x \in stamped'
            PROVE  /\ x[1][1] \in Exports /\ x[1][2] \in Nat
                   /\ pc'[x[1][1]] \notin {"new", "location"}
                   /\ pc'[x[1][1]] \in {"sample", "event"} => x[1][2] < at'[x[1][1]]
        <4>1. CASE x \in stamped
          BY <1>0, <2>2, <4>1 DEF StampedOnce
        <4>2. CASE x \notin stamped
          <5>1. x[1] = k
            BY <2>1, <4>2
          <5>2. x[1][1] = e /\ x[1][2] = at[e]
            BY <2>0, <5>1
          <5>3. QED
            BY <2>2, <5>2
        <4>3. QED
          BY <4>1, <4>2
      <3>2. QED
        BY <3>1 DEF StampedOnce
    <2>10. QED
      BY <2>6, <2>8, <2>9 DEF EventInv
  <1>6. ASSUME NEW e \in Exports, Reject(e) \/ Accept(e) PROVE EventInv'
    <2>1. /\ pc[e] \in Busy /\ pc'[e] \in {"rejected", "ok"} /\ req' = req /\ at' = at
          /\ \A d \in Exports : d # e => pc'[d] = pc[d]
          /\ traceEvents' = traceEvents /\ stamped' = stamped
      BY <1>6 DEF Reject, Malformed, Accept, Goto, TypeOK, Busy
    <2>2. HandlerSound'
      BY <1>0, <2>1 DEF HandlerSound, Locs, Samples, NoneBad
    <2>3. StampedOnce'
      BY <1>0, <2>1 DEF StampedOnce, Busy
    <2>4. QED
      BY <2>1, <2>2, <2>3, EventKept DEF EventInv, Busy
  <1>7. CASE FlushKey
    <2>1. traceEvents' \subseteq traceEvents /\ UNCHANGED <<req, at, stamped, pc>>
      BY <1>7 DEF FlushKey
    <2>2. QED
      BY <2>1, EventOutside
  <1>8. CASE FlushStart \/ FlushTable \/ SampleStart \/ SampleEvent
    BY <1>8, EventOutside DEF FlushStart, FlushTable, SampleStart, SampleEvent
  <1>9. CASE Restart
    BY <1>9, EventOutside DEF Restart
  <1>10. CASE UNCHANGED vars
    BY <1>10, EventOutside DEF vars
  <1>11. ASSUME NEW x, OutcomeRead(x) \/ OutcomeStore \/ DropIngested(x) PROVE EventInv'
    BY <1>11, EventOutside DEF OutcomeRead, OutcomeStore, DropIngested
  <1>12. QED
    BY <1>1, <1>2, <1>3, <1>4, <1>5, <1>6, <1>7, <1>8, <1>9, <1>10, <1>11
       DEF Next, Handle

(* process_sample stores, for every sample of every request and whatever    *)
(* runs or fails in between, events in the seconds its stamps mean, and a   *)
(* trace made, frame by frame, of the locations its stack names.            *)
THEOREM EventsAlwaysExact == Spec => []EventsExact
  <1>1. Init => EventInv
    <2> SUFFICES ASSUME Init PROVE EventInv
      OBVIOUS
    <2>1. \A e \in Exports : pc[e] = "new"
      BY DEF Init
    <2>2. QED
      BY <2>1 DEF Init, EventInv, HandlerSound, StampedOnce
  <1>2. TypeOK /\ EventInv => EventsExact
    <2> SUFFICES ASSUME TypeOK, EventInv, NEW v \in traceEvents
                 PROVE  LET r == Carried[req[v[1]]]
                            s == r.samples[v[2]]
                            locs == [n \in DOMAIN r.stacks[s.stack] |->
                                       r.locations[r.stacks[s.stack][n]]]
                        IN  /\ IF s.stamps = <<>> THEN \E now \in Nows : SecondsOf(v) = {now \div Milli}
                               ELSE SecondsOf(v) = s.meant
                            /\ DOMAIN TraceOf(v) = DOMAIN locs
                            /\ \A n \in DOMAIN locs : Says(r, TraceOf(v)[n], locs[n])
      BY DEF EventsExact, SecondsOf, Says
    <2> DEFINE e == v[1]
               i == v[2]
               name == req[e]
               r == Carried[name]
               s == r.samples[i]
               stack == r.stacks[s.stack]
               frames == FramesOfLocations(r)
    <2>1. /\ e \in Exports /\ name \in Requests /\ i \in 1 .. Len(Samples(e))
          /\ Samples(e)[i].flaw = "none" /\ NoneBad(e)
          /\ \E now \in Nows : SecondsOf(v) = Times(s, now)
      BY DEF EventInv, EventSound, TypeOK
    <2>2. i \in DOMAIN r.samples
      <3>1. DOMAIN Samples(e) = 1 .. Len(Samples(e))
        BY <2>1, RequestParts DEF Samples
      <3>2. DOMAIN Samples(e) = DOMAIN r.samples
        BY <2>1 DEF Samples, Decoded
      <3>3. QED
        BY <2>1, <3>1, <3>2
    <2>3. IF s.stamps = <<>> THEN \E now \in Nows : SecondsOf(v) = {now \div Milli}
          ELSE SecondsOf(v) = s.meant
      <3>1. PICK now \in Nows : SecondsOf(v) = Times(s, now)
        BY <2>1
      <3>2. Times(s, now) = IF s.stamps = <<>> THEN {now \div Milli} ELSE s.meant
        BY <2>1, <2>2, TimesMeant
      <3> HIDE DEF s
      <3>3. QED
        BY <3>1, <3>2
    <2>4. Flaw(r, s) = "none" /\ Locs(e) = frames /\ BadFrame \notin FramesOf(frames)
      <3>1. Samples(e)[i].flaw = Flaw(r, s) /\ Locs(e) = frames
        BY <2>1, <2>2 DEF Samples, Locs, Decoded
      <3>2. QED
        BY <2>1, <3>1 DEF NoneBad
    <2>5. TraceOf(v) = FrameList(r, s)
      BY <2>1, <2>2, <2>4 DEF TraceOf, Samples, Decoded
    <2>6. \A n \in DOMAIN stack : stack[n] \in DOMAIN frames
      BY <2>4 DEF Flaw, BadLocation
    <2>7. DOMAIN frames = DOMAIN r.locations
          /\ \A n \in DOMAIN frames : frames[n] = FrameOf(r, r.locations[n])
      <3>1. DOMAIN r.locations = 1 .. Len(r.locations)
        BY <2>1, IngestAssumption DEF IsSequence
      <3>2. QED
        BY <3>1 DEF FramesOfLocations
    <2>8. DOMAIN TraceOf(v) = DOMAIN stack /\ \A n \in DOMAIN stack : TraceOf(v)[n] = frames[stack[n]]
      BY <2>5 DEF FrameList
    <2>9. ASSUME NEW n \in DOMAIN stack
          PROVE  Says(r, TraceOf(v)[n], r.locations[stack[n]])
      <3>1. stack[n] \in DOMAIN r.locations /\ TraceOf(v)[n] = FrameOf(r, r.locations[stack[n]])
        <4> HIDE DEF frames, stack, r
        <4>1. QED
          BY <2>6, <2>7, <2>8
      <3>2. FrameOf(r, r.locations[stack[n]]) # BadFrame
        <4>1. frames[stack[n]] \in FramesOf(frames)
          <5> HIDE DEF frames, stack
          <5>1. QED
            BY <2>6 DEF FramesOf
        <4> HIDE DEF frames, stack, r
        <4>2. QED
          BY <2>4, <2>8, <3>1, <4>1
      <3> HIDE DEF stack
      <3>3. QED
        BY <2>1, <3>1, <3>2, FrameSays
    <2> HIDE DEF stack
    <2>10. QED
      BY <2>3, <2>8, <2>9 DEF stack
  <1>3. Spec => []EventInv
    BY <1>1, EventInvStep, TypeCorrect, PTL DEF Spec
  <1>4. QED
    BY <1>2, <1>3, TypeCorrect, PTL
=============================================================================
