-------------------------- MODULE SymbolizerProofs --------------------------
(***************************************************************************)
(* Proofs about Symbolizer, for every set of files, collectors and slots,  *)
(* every channel capacity and retry time.                                  *)
(***************************************************************************)
EXTENDS SymbolStore, SequenceTheorems, TLAPS

(* Setting a status keeps the table of executables one.                     *)
LEMMA SetStatusType ==
    ASSUME TypeOK, NEW f \in Files, NEW st \in Statuses \cup {"absent"},
           SetStatus(f, st)
    PROVE  /\ exe' \in [Files -> Statuses \cup {"absent"}]
           /\ age' \in [Files -> 0 .. RetryTicks + 1]
  BY SymbolizerAssumption DEF SetStatus, TypeOK

(* The initial state is well typed.                                         *)
LEMMA TypeInit == Init => TypeOK
  <1> USE DEF Outcomes, Running
  <1> SUFFICES ASSUME Init PROVE TypeOK
    OBVIOUS
  <1>1. age \in [Files -> 0 .. RetryTicks + 1] /\ 0 \in 0 .. MaxFaults
    BY SymbolizerAssumption DEF Init
  <1>2. chan \in Seq(Files) /\ pending \in Seq(Files) /\ Len(chan) <= ChanCap
    BY SymbolizerAssumption DEF Init
  <1>3. endpoint \in BOOLEAN
    BY SymbolizerAssumption DEF Init
  <1>4. QED
    BY <1>1, <1>2, <1>3 DEF Init, TypeOK, Statuses

(* Every step keeps the types.                                              *)
LEMMA TypeStep == TypeOK /\ [Next]_vars => TypeOK'
  <1> USE DEF Outcomes, Running
  <1>n. NoFile \notin Files
    BY SymbolizerAssumption
  <1> SUFFICES ASSUME TypeOK, [Next]_vars PROVE TypeOK'
    OBVIOUS
  <1> USE DEF table, monitor, controller, tasks, others, Finished
  <1>1. CASE Tick
    <2>1. age' \in [Files -> 0 .. RetryTicks + 1]
      BY <1>1, SymbolizerAssumption DEF Tick, TypeOK
    <2>2. QED
      BY <1>1, <2>1 DEF Tick, TypeOK
  <1>2. CASE MonitorScan
    BY <1>2 DEF MonitorScan, TypeOK
  <1>3. CASE MonitorSend
    <2>1. chan' \in Seq(Files) /\ Len(chan') <= ChanCap /\ todo' \subseteq Files
      BY <1>3, SymbolizerAssumption DEF MonitorSend, TypeOK
    <2>2. QED
      BY <1>3, <2>1 DEF MonitorSend, TypeOK
  <1>4. CASE MonitorBreak
    BY <1>4 DEF MonitorBreak, TypeOK
  <1>5. CASE Recv
    <2>1. Head(chan) \in Files /\ chan' \in Seq(Files) /\ Len(chan') <= ChanCap
      BY <1>5, SymbolizerAssumption DEF Recv, TypeOK
    <2>2. pending' \in Seq(Files)
      BY <1>5, <2>1 DEF Recv, TypeOK
    <2>3. QED
      BY <1>5, <2>1, <2>2 DEF Recv, TypeOK
  <1>6. ASSUME NEW s \in Slots, Join(s) PROVE TypeOK'
    <2>1. job[s] \in Files /\ stage[s] \in Outcomes
      BY <1>6, <1>n DEF Join, TypeOK
    <2>2. QED
      BY <1>6, <2>1, <1>n DEF Join, TypeOK
  <1>7. ASSUME NEW s \in Slots, Panic(s) PROVE TypeOK'
    <2>1. detached' \subseteq Files
      BY <1>7 DEF Panic, TypeOK
    <2>2. chan' \in Seq(Files) /\ Len(chan') <= ChanCap /\ pending' \in Seq(Files)
      BY <1>7, SymbolizerAssumption DEF Panic
    <2>3. QED
      BY <1>7, <2>1, <2>2 DEF Panic, TypeOK
  <1>8. CASE Store
    <2>1. cur \in Files /\ outcome \in Statuses
      BY <1>8 DEF Store, TypeOK, Statuses
    <2>2. /\ exe' \in [Files -> Statuses \cup {"absent"}]
          /\ age' \in [Files -> 0 .. RetryTicks + 1]
      BY <1>8, <2>1, SetStatusType DEF Store
    <2>3. QED
      BY <1>8, <2>2 DEF Store, TypeOK
  <1>9. CASE Spawn
    <2>1. /\ pending[Len(pending)] \in Files
          /\ pending' \in Seq(Files)
      BY <1>9 DEF Spawn, TypeOK
    <2>2. CASE endpoint
      BY <1>9, <2>1, <2>2, <1>n DEF Spawn, TypeOK
    <2>3. CASE ~endpoint
      BY <1>9, <2>1, <2>3 DEF Spawn, TypeOK
    <2>4. QED
      BY <2>2, <2>3
  <1>10. CASE SpawnDone
    BY <1>10 DEF SpawnDone, TypeOK
  <1>11. ASSUME NEW s \in Slots, FetchDbgFileId(s) \/ FetchSymbols(s)
         PROVE  TypeOK'
    <2>1. faults' \in 0 .. MaxFaults
      BY <1>11, SymbolizerAssumption
         DEF FetchDbgFileId, FetchSymbols, Fault, TypeOK
    <2>2. /\ stage' \in [Slots -> Outcomes \cup {"free", "fetch", "ranges",
                                                "insert"}]
          /\ \A t \in Slots : Running(t)' <=> job'[t] # NoFile
      <3>1. CASE FetchDbgFileId(s)
        BY <3>1 DEF FetchDbgFileId, Advance, Running, Outcomes, TypeOK
      <3>2. CASE FetchSymbols(s)
        BY <3>2 DEF FetchSymbols, Advance, Running, Outcomes, TypeOK
      <3>3. QED
        BY <1>11, <3>1, <3>2
    <2>3. QED
      BY <1>11, <2>1, <2>2 DEF FetchDbgFileId, FetchSymbols, TypeOK
  <1>12. ASSUME NEW s \in Slots, FetchInsert(s) PROVE TypeOK'
    <2>1. faults' \in 0 .. MaxFaults
      BY <1>12, SymbolizerAssumption DEF FetchInsert, Fault, TypeOK
    <2>2. /\ stage' \in [Slots -> Outcomes \cup {"free", "fetch", "ranges",
                                                "insert"}]
          /\ \A t \in Slots : Running(t)' <=> job'[t] # NoFile
      BY <1>12 DEF FetchInsert, Advance, TypeOK
    <2>3. QED
      BY <1>12, <2>1, <2>2 DEF FetchInsert, TypeOK
  <1>13. ASSUME NEW c \in Collectors, NEW f \in Files, CollectorMiss(c, f)
         PROVE  TypeOK'
    BY <1>13 DEF CollectorMiss, TypeOK
  <1>14. ASSUME NEW c \in Collectors, CollectorInsert(c) PROVE TypeOK'
    <2>1. col[c] \in Files
      BY <1>14 DEF CollectorInsert, TypeOK
    <2>2. /\ exe' \in [Files -> Statuses \cup {"absent"}]
          /\ age' \in [Files -> 0 .. RetryTicks + 1]
      BY <1>14, <2>1, SetStatusType DEF CollectorInsert, Statuses
    <2>3. QED
      BY <1>14, <2>2 DEF CollectorInsert, TypeOK
  <1>15. CASE DropInsert \/ DropFail
    <2>1. CASE DropInsert
      BY <2>1 DEF DropInsert, TypeOK
    <2>2. CASE DropFail
      BY <2>2 DEF DropFail, TypeOK
    <2>3. QED
      BY <1>15, <2>1, <2>2
  <1>16. CASE DropStore
    <2>1. drop \in Files
      BY <1>16 DEF DropStore, TypeOK
    <2>2. /\ exe' \in [Files -> Statuses \cup {"absent"}]
          /\ age' \in [Files -> 0 .. RetryTicks + 1]
      BY <1>16, <2>1, SetStatusType DEF DropStore, Statuses
    <2>3. QED
      BY <1>16, <2>2 DEF DropStore, TypeOK
  <1>17. ASSUME NEW f \in Files, DropStart(f) \/ DetachedInsert(f)
         PROVE  TypeOK'
    <2>1. CASE DropStart(f)
      BY <2>1, <1>n DEF DropStart, TypeOK
    <2>2. CASE DetachedInsert(f)
      <3>1. PICK got \in {"partial", "whole", symbols[f]} :
               symbols' = [symbols EXCEPT ![f] = got]
        BY <2>2 DEF DetachedInsert
      <3>2. got \in {"none", "partial", "whole"}
        BY DEF TypeOK
      <3>3. symbols' \in [Files -> {"none", "partial", "whole"}]
        BY <3>1, <3>2 DEF TypeOK
      <3>4. QED
        BY <2>2, <3>3 DEF DetachedInsert, TypeOK
    <2>3. QED
      BY <1>17, <2>1, <2>2
  <1>18. ASSUME NEW f \in Files, FlushRecord(f) PROVE TypeOK'
    <2>1. /\ exe' \in [Files -> Statuses \cup {"absent"}]
          /\ age' \in [Files -> 0 .. RetryTicks + 1]
      BY <1>18, SetStatusType DEF FlushRecord
    <2>2. QED
      BY <1>18, <2>1 DEF FlushRecord, TypeOK
  <1>19. ASSUME Reset, faults' \in 0 .. MaxFaults PROVE TypeOK'
    <2>1. chan' \in Seq(Files) /\ Len(chan') <= ChanCap /\ pending' \in Seq(Files)
      BY <1>19, SymbolizerAssumption DEF Reset
    <2>2. endpoint' \in BOOLEAN
      BY <1>19, SymbolizerAssumption DEF Reset
    <2>3. QED
      BY <1>19, <2>1, <2>2 DEF Reset, TypeOK
  <1>a. CASE Restart
    <2>1. faults' \in 0 .. MaxFaults
      BY <1>a, SymbolizerAssumption DEF Restart, Fault, TypeOK
    <2>2. QED
      BY <1>a, <1>19, <2>1 DEF Restart
  <1>b. ASSUME NEW s \in Slots, Abort(s) PROVE TypeOK'
    BY <1>b, <1>19 DEF Abort, TypeOK
  <1>20. CASE UNCHANGED vars
    BY <1>20 DEF vars, TypeOK
  <1>21. QED
    BY <1>1, <1>2, <1>3, <1>4, <1>5, <1>6, <1>7, <1>8, <1>9, <1>10, <1>11,
       <1>12, <1>13, <1>14, <1>15, <1>16, <1>17, <1>18, <1>20, <1>a, <1>b
       DEF Next, MonitorStep, JoinStep, StoreStep, FetchStep, CollectorStep,
           DropStep

(* Type correctness; in particular the channel never exceeds its capacity  *)
(* and a slot holds a file exactly while its task is there.                *)
THEOREM TypeCorrect == Spec => []TypeOK
  BY TypeInit, TypeStep, PTL DEF Spec

-----------------------------------------------------------------------------
(* A record that says Complete has symbols, although the table and the     *)
(* symbol files are written by several tasks that share no lock.           *)
THEOREM StatusBacked == Spec => []CompleteHasSymbols
  <1>n. NoFile \notin Files
    BY SymbolizerAssumption
  <1>1. Init => CompleteHasSymbols
    BY DEF Init, CompleteHasSymbols
  <1>2. TypeOK /\ CompleteHasSymbols /\ [Next]_vars => CompleteHasSymbols'
    <2> SUFFICES ASSUME TypeOK, CompleteHasSymbols, [Next]_vars
                 PROVE  CompleteHasSymbols'
      OBVIOUS
    <2> USE <1>n DEF table, monitor, controller, tasks, others, CompleteHasSymbols,
               Backed
    <2>1. CASE Tick \/ MonitorStep
      BY <2>1 DEF Tick, MonitorStep, MonitorScan, MonitorSend, MonitorBreak
    <2>2. CASE Recv
      BY <2>2 DEF Recv
    <2>3. ASSUME NEW s \in Slots, Join(s) PROVE CompleteHasSymbols'
      BY <2>3 DEF Join, Finished, Outcomes, TypeOK
    <2>4. ASSUME NEW s \in Slots, Panic(s) PROVE CompleteHasSymbols'
      BY <2>4 DEF Panic
    <2>5. CASE Store
      BY <2>5 DEF Store, SetStatus, TypeOK
    <2>6. CASE Spawn
      BY <2>6 DEF Spawn, Running, TypeOK
    <2>7. CASE SpawnDone
      BY <2>7 DEF SpawnDone
    <2>8. ASSUME NEW s \in Slots, FetchDbgFileId(s) \/ FetchSymbols(s)
          PROVE  CompleteHasSymbols'
      BY <2>8 DEF FetchDbgFileId, FetchSymbols, Advance, TypeOK
    <2>9. ASSUME NEW s \in Slots, FetchInsert(s) PROVE CompleteHasSymbols'
      <3>1. job[s] \in Files
        BY <2>9 DEF FetchInsert, Running, TypeOK
      <3>2. CASE stage' = [stage EXCEPT ![s] = "Complete"]
                 /\ symbols' = [symbols EXCEPT ![job[s]] = "whole"]
        BY <2>9, <3>1, <3>2 DEF FetchInsert, TypeOK
      <3>3. CASE stage' = [stage EXCEPT ![s] = "TempError"]
                 /\ symbols' = symbols
        BY <2>9, <3>3 DEF FetchInsert, TypeOK
      <3>4. QED
        BY <2>9, <3>2, <3>3 DEF FetchInsert, Advance
    <2>10. ASSUME NEW c \in Collectors, CollectorStep(c)
           PROVE  CompleteHasSymbols'
      BY <2>10 DEF CollectorStep, CollectorMiss, CollectorInsert, SetStatus, TypeOK
    <2>11. CASE DropInsert
      BY <2>11 DEF DropInsert, TypeOK
    <2>12. CASE DropFail
      BY <2>12 DEF DropFail
    <2>13. CASE DropStore
      BY <2>13 DEF DropStore, SetStatus, TypeOK
    <2>14. ASSUME NEW f \in Files, DropStart(f) PROVE CompleteHasSymbols'
      BY <2>14 DEF DropStart, TypeOK
    <2>15. ASSUME NEW f \in Files, DetachedInsert(f) PROVE CompleteHasSymbols'
      BY <2>15 DEF DetachedInsert, TypeOK
    <2>16. ASSUME NEW f \in Files, FlushRecord(f) PROVE CompleteHasSymbols'
      BY <2>16 DEF FlushRecord, SetStatus, TypeOK
    <2>17. CASE Restart
      BY <2>17 DEF Restart, Reset
    <2>a. ASSUME NEW s \in Slots, Abort(s) PROVE CompleteHasSymbols'
      BY <2>a DEF Abort, Reset
    <2>18. CASE UNCHANGED vars
      BY <2>18 DEF vars
    <2>19. QED
      BY <2>1, <2>2, <2>3, <2>4, <2>5, <2>6, <2>7, <2>8, <2>9, <2>10, <2>11,
         <2>12, <2>13, <2>14, <2>15, <2>16, <2>17, <2>18, <2>a
         DEF Next, JoinStep, StoreStep, FetchStep, DropStep
  <1>3. QED
    BY <1>1, <1>2, TypeCorrect, PTL DEF Spec

-----------------------------------------------------------------------------
(* The controller's bookkeeping: one fetch per file, and the set of active *)
(* files exact.  Neither part is preserved without the others: Spawn takes *)
(* a file that is not active, Recv queues only such files, and Store may   *)
(* remove a file from the set because no task has it.                      *)
Bookkeeping == OneFetchPerFile /\ ActiveExact /\ PendingFresh

(* Every step keeps the queue, the active set and the slots in agreement.   *)
LEMMA BookkeepingStep ==
    ASSUME TypeOK, Bookkeeping, [Next]_vars
    PROVE  Bookkeeping'
  <1>n. NoFile \notin Files
    BY SymbolizerAssumption
  <1> USE <1>n DEF table, monitor, controller, tasks, others, Bookkeeping,
                   OneFetchPerFile, ActiveExact, PendingFresh, Running
  <1>1. ASSUME UNCHANGED <<controller, tasks>> PROVE Bookkeeping'
    BY <1>1
  <1>2. CASE Recv
    <2>1. /\ ctrl = "select" /\ ctrl' = "spawn"
          /\ UNCHANGED <<active, cur, outcome, tasks>>
      BY <1>2 DEF Recv
    <2>2. OneFetchPerFile' /\ ActiveExact'
      BY <2>1
    <2>3. CASE Head(chan) \in active \/ InPending(Head(chan))
      BY <1>2, <2>2, <2>3 DEF Recv
    <2>4. CASE ~(Head(chan) \in active \/ InPending(Head(chan)))
      <3>1. /\ pending' = Append(pending, Head(chan))
            /\ active' = active
        BY <1>2, <2>4 DEF Recv
      <3>2. /\ Len(pending') = Len(pending) + 1
            /\ pending'[Len(pending) + 1] = Head(chan)
            /\ \A i \in 1 .. Len(pending) : pending'[i] = pending[i]
        BY <3>1, <1>2 DEF TypeOK, Recv
      <3>3. Len(pending) \in Nat
        BY DEF TypeOK
      <3>4. PendingFresh'
        BY <3>1, <3>2, <3>3, <2>4 DEF InPending
      <3>5. QED
        BY <2>2, <3>4
    <2>5. QED
      BY <2>3, <2>4
  <1>3. ASSUME NEW s \in Slots, Join(s) PROVE Bookkeeping'
    <2>1. stage[s] # "free" /\ job[s] \in Files
      BY <1>3 DEF Join, Finished, Outcomes, TypeOK
    <2>2. /\ ctrl' = "store" /\ cur' = job[s] /\ ctrl = "select"
          /\ job' = [job EXCEPT ![s] = NoFile]
          /\ stage' = [stage EXCEPT ![s] = "free"]
          /\ UNCHANGED <<pending, active>>
      BY <1>3 DEF Join
    <2>3. OneFetchPerFile'
      BY <2>1, <2>2 DEF TypeOK
    <2>4. ActiveExact'
      BY <2>1, <2>2 DEF TypeOK
    <2>5. QED
      BY <2>2, <2>3, <2>4
  <1>4. ASSUME NEW s \in Slots, Panic(s) PROVE Bookkeeping'
    <2>1. /\ ctrl' = "dead" /\ pending' = <<>> /\ active' = {}
          /\ stage' = [t \in Slots |-> "free"]
      BY <1>4 DEF Panic
    <2>2. QED
      BY <2>1
  <1>5. CASE Store
    <2>1. /\ ctrl = "store" /\ ctrl' = "spawn" /\ active' = active \ {cur}
          /\ UNCHANGED <<pending, tasks>>
      BY <1>5 DEF Store
    <2>2. QED
      BY <2>1
  <1>6. CASE Spawn
    <2> DEFINE f == pending[Len(pending)]
    <2>2. /\ pending \in Seq(Files) /\ Len(pending) \in Nat
          /\ Len(pending) # 0
          /\ pending' = SubSeq(pending, 1, Len(pending) - 1)
      BY <1>6 DEF Spawn, TypeOK
    <2>a. Len(pending) \in 1 .. Len(pending)
      BY <2>2
    <2>b. f \in Files /\ f \notin active
      BY <2>2, <2>a
    <2>3. /\ Len(pending') = Len(pending) - 1
          /\ \A i \in 1 .. Len(pending) - 1 : pending'[i] = pending[i]
      <3>1. /\ Len(pending) - 1 \in Int
            /\ \A i \in 1 .. Len(pending) - 1 : pending[i] \in Files
        BY <2>2
      <3>2. /\ Len(pending') = IF 1 <= Len(pending) - 1
                               THEN Len(pending) - 1 - 1 + 1 ELSE 0
            /\ \A i \in 1 .. Len(pending) - 1 - 1 + 1 :
                  pending'[i] = pending[1 + i - 1]
        BY <2>2, <3>1, SubSeqProperties
      <3>3. Len(pending') = Len(pending) - 1
        <4>1. \A n \in Nat \ {0} :
                (IF 1 <= n - 1 THEN n - 1 - 1 + 1 ELSE 0) = n - 1
          OBVIOUS
        <4>2. QED
          BY <2>2, <3>2, <4>1
      <3>4. ASSUME NEW i \in 1 .. Len(pending) - 1
            PROVE  pending'[i] = pending[i]
        <4>1. i \in 1 .. Len(pending) - 1 - 1 + 1 /\ 1 + i - 1 = i
          BY <2>2
        <4>2. QED
          BY <3>2, <4>1
      <3>5. QED
        BY <3>3, <3>4
    <2>4. ctrl = "spawn" /\ ctrl' = "spawn"
      BY <1>6 DEF Spawn
    <2>5. \A t \in Slots : job[t] # f
      BY <2>b, <2>4 DEF TypeOK
    <2>6. \A i \in 1 .. Len(pending) - 1 :
             i \in 1 .. Len(pending) /\ i # Len(pending)
      BY <2>2
    <2>7. CASE ~endpoint
      <3>1. UNCHANGED <<tasks, active, cur, ctrl>>
        BY <1>6, <2>7 DEF Spawn
      <3>2. OneFetchPerFile' /\ ActiveExact'
        BY <3>1
      <3>3. PendingFresh'
        BY <2>3, <2>6, <3>1
      <3>4. QED
        BY <3>2, <3>3
    <2>8. CASE endpoint
      <3>1. PICK s \in Slots :
              /\ stage[s] = "free"
              /\ job' = [job EXCEPT ![s] = f]
              /\ stage' = [stage EXCEPT ![s] = "fetch"]
              /\ active' = active \cup {f}
        BY <1>6, <2>8 DEF Spawn
      <3>2. OneFetchPerFile'
        <4>1. \A t \in Slots : /\ job'[t] = IF t = s THEN f ELSE job[t]
                               /\ t # s => stage'[t] = stage[t]
          BY <3>1 DEF TypeOK
        <4> HIDE DEF f
        <4>2. QED
          BY <2>4, <2>5, <4>1
      <3>3. ActiveExact'
        BY <3>1, <2>4 DEF TypeOK
      <3>4. PendingFresh'
        BY <3>1, <2>3, <2>a, <2>6
      <3>5. QED
        BY <3>2, <3>3, <3>4
    <2>9. QED
      BY <2>7, <2>8
  <1>7. CASE SpawnDone
    BY <1>7 DEF SpawnDone
  <1>8. ASSUME NEW s \in Slots, FetchStep(s) PROVE Bookkeeping'
    <2>1. stage[s] # "free" /\ UNCHANGED <<controller, job>>
      BY <1>8 DEF FetchStep, FetchDbgFileId, FetchSymbols, FetchInsert
    <2>2. PICK to \in Outcomes \cup {"ranges", "insert"} : Advance(s, to)
      BY <1>8 DEF FetchStep, FetchDbgFileId, FetchSymbols, FetchInsert, Outcomes
    <2>3. \A t \in Slots : stage'[t] # "free" <=> stage[t] # "free"
      BY <2>1, <2>2 DEF Advance, Outcomes, TypeOK
    <2>4. QED
      BY <2>1, <2>3
  <1>9. ASSUME Reset PROVE Bookkeeping'
    <2>1. /\ ctrl' = "select" /\ pending' = <<>> /\ active' = {}
          /\ stage' = [t \in Slots |-> "free"]
      BY <1>9 DEF Reset
    <2>2. QED
      BY <2>1
  <1>10. QED
    BY <1>1, <1>2, <1>3, <1>4, <1>5, <1>6, <1>7, <1>8, <1>9
       DEF Next, Restart, Abort, MonitorStep, JoinStep, StoreStep,
           CollectorStep, DropStep, Tick, MonitorScan, MonitorSend,
           MonitorBreak, CollectorMiss, CollectorInsert, DropStart, DropInsert, DropFail, DropStore,
           DetachedInsert, FlushRecord, vars

(* At most one fetch per file runs at a time, so the two symbol writers of *)
(* one file that SymDb cannot bear never come from the controller; and the *)
(* active set and the queue agree with the tasks there are.                *)
THEOREM FetchesExclusive ==
    Spec => [](OneFetchPerFile /\ ActiveExact /\ PendingFresh)
  <1>1. Init => Bookkeeping
    BY SymbolizerAssumption
       DEF Init, Bookkeeping, OneFetchPerFile, ActiveExact, PendingFresh, Running
  <1>2. QED
    BY <1>1, BookkeepingStep, TypeCorrect, PTL DEF Spec, Bookkeeping

(* A file is in the active set exactly while it is being fetched or its      *)
(* outcome written back, so that none is left in it for good.               *)
THEOREM ActiveSetExact == Spec => []ActiveExact
  BY FetchesExclusive, PTL
-----------------------------------------------------------------------------
(* The symbolizer together with its store: what each takes of the other    *)
(* for granted is there.                                                   *)
DbP == INSTANCE SymDbProofs WITH Clients <- Readers \cup Slots,
                                 MayInsert <- [f \in Files |-> Slots]

(* The store's assumptions hold of its clients here.                        *)
LEMMA StoreAssumed == Db!SymDbAssumption
  BY SymbolStoreAssumption DEF Db!SymDbAssumption

(* The steps and predicates the proofs about the store speak of are those   *)
(* that SymbolStore takes its steps from.                                   *)
LEMMA SameClientStep ==
    ASSUME NEW c \in Readers \cup Slots
    PROVE  Db!Step(c) <=> DbP!Step(c)
  <1> USE DEF Db!Goto, DbP!Goto, Db!NoReader, DbP!NoReader, Db!paths, DbP!paths,
              Db!Writing, DbP!Writing
  <1>1. \A i : Db!OtherWriters(c, i) = DbP!OtherWriters(c, i)
    BY DEF Db!OtherWriters, DbP!OtherWriters
  <1>2. \A i : Db!Spoil(c, i) = DbP!Spoil(c, i)
    <2> SUFFICES ASSUME NEW i PROVE Db!Spoil(c, i) = DbP!Spoil(c, i)
      OBVIOUS
    <2>1. Db!OtherWriters(c, i) = DbP!OtherWriters(c, i)
      BY <1>1
    <2>2. QED
      BY <2>1 DEF Db!Spoil, DbP!Spoil
  <1>3. \A i : Db!Free(i) <=> DbP!Free(i)
    BY DEF Db!Free, DbP!Free
  <1>4. \A f : (Db!GetHit(c, f) <=> DbP!GetHit(c, f))
    BY DEF Db!GetHit, DbP!GetHit
  <1>5. \A f : (Db!GetMiss(c, f) <=> DbP!GetMiss(c, f))
    BY DEF Db!GetMiss, DbP!GetMiss
  <1>6. Db!GetOpen(c) <=> DbP!GetOpen(c)
    BY DEF Db!GetOpen, DbP!GetOpen
  <1>7. Db!GetError(c) <=> DbP!GetError(c)
    BY DEF Db!GetError, DbP!GetError
  <1>8. Db!GetCache(c) <=> DbP!GetCache(c)
    BY DEF Db!GetCache, DbP!GetCache
  <1>9. \A f, t : (Db!InsertUnlink(c, f, t) <=> DbP!InsertUnlink(c, f, t))
    BY DEF Db!InsertUnlink, DbP!InsertUnlink
  <1>10. Db!InsertCreate(c) <=> DbP!InsertCreate(c)
    BY <1>2, <1>3 DEF Db!InsertCreate, DbP!InsertCreate
  <1>11. Db!InsertWrite(c) <=> DbP!InsertWrite(c)
    BY <1>2 DEF Db!InsertWrite, DbP!InsertWrite
  <1>12. Db!InsertFlush(c) <=> DbP!InsertFlush(c)
    BY <1>2 DEF Db!InsertFlush, DbP!InsertFlush
  <1>13. Db!InsertError(c) <=> DbP!InsertError(c)
    BY DEF Db!InsertError, DbP!InsertError
  <1>14. Db!InsertRename(c) <=> DbP!InsertRename(c)
    BY DEF Db!InsertRename, DbP!InsertRename
  <1>15. Db!InsertForget(c) <=> DbP!InsertForget(c)
    BY DEF Db!InsertForget, DbP!InsertForget
  <1>16. QED
    BY <1>4, <1>5, <1>6, <1>7, <1>8, <1>9, <1>10, <1>11, <1>12, <1>13, <1>14, <1>15
       DEF Db!Step, DbP!Step, Db!Continue, DbP!Continue

(* So both mean the same specification.                                     *)
LEMMA SameStore == Db!Spec <=> DbP!Spec
  <1>1. Db!Init <=> DbP!Init
    BY DEF Db!Init, DbP!Init
  <1>2. Db!Next <=> DbP!Next
    <2>1. Db!Restart <=> DbP!Restart
      BY DEF Db!Restart, DbP!Restart, Db!paths, DbP!paths
    <2>2. QED
      BY <2>1, SameClientStep DEF Db!Next, DbP!Next
  <1>3. [Db!Next]_(Db!vars) <=> [DbP!Next]_(DbP!vars)
    BY <1>2 DEF Db!vars, DbP!vars
  <1>4. QED
    BY <1>1, <1>3, PTL DEF Db!Spec, DbP!Spec

(* The proved predicates, too, are those of SymbolStore.                    *)
LEMMA SamePredicates ==
    /\ DbP!TypeOK <=> Db!TypeOK
    /\ DbP!SingleInserter <=> OneInserter
    /\ DbP!TreesWhole <=> SystemTreesWhole
  <1>1. DbP!TypeOK <=> Db!TypeOK
    BY DEF Db!TypeOK, DbP!TypeOK, Db!MaybeInode, DbP!MaybeInode, Db!Writing, DbP!Writing
  <1>2. DbP!SingleInserter <=> OneInserter
    BY DEF OneInserter, Db!SingleInserter, DbP!SingleInserter, Db!Inserting,
           DbP!Inserting, Db!Writing, DbP!Writing
  <1>3. \A i : (Db!Mapped(i) <=> DbP!Mapped(i))
    BY DEF Db!Mapped, DbP!Mapped
  <1>4. DbP!TreesWhole <=> SystemTreesWhole
    BY <1>3 DEF SystemTreesWhole, Db!TreesWhole, DbP!TreesWhole, Db!FinalComplete,
           DbP!FinalComplete, Db!MappedComplete, DbP!MappedComplete
  <1>5. QED
    BY <1>1, <1>2, <1>4

(* Every step of the whole is a step of the symbolizer or leaves it alone.  *)
LEMMA FetchesStep == TypeOK /\ [SystemNext]_system => [Next]_vars
  <1> SUFFICES ASSUME TypeOK, [SystemNext]_system PROVE [Next]_vars
    OBVIOUS
  <1>1. CASE SymbolizerStep
    BY <1>1 DEF SymbolizerStep, Next, JoinStep, FetchStep
  <1>2. CASE EndOfProcess
    BY <1>2 DEF EndOfProcess, Next, JoinStep
  <1>3. ASSUME NEW s \in Slots, StartThread(s) PROVE Next
    BY <1>3 DEF StartThread, Next, FetchStep
  <1>4. ASSUME NEW s \in Slots, NEW ok, Finish(s, ok) PROVE Next
    <2>1. CASE FetchInsert(s)
      BY <2>1 DEF Next, FetchStep
    <2>2. CASE DetachedInsert(thread[s])
      <3>1. thread[s] \in Files
        BY <1>4, <2>2 DEF DetachedInsert, TypeOK
      <3>2. QED
        BY <2>2, <3>1 DEF Next
    <2>3. QED
      BY <1>4, <2>1, <2>2 DEF Finish
  <1>5. ASSUME NEW s \in Slots, ThreadSteps(s) PROVE Next \/ UNCHANGED vars
    BY <1>4, <1>5 DEF ThreadSteps, ThreadBegin, ThreadFail, ThreadStep, ThreadError,
         ThreadDone
  <1>6. ASSUME NEW r \in Readers, ReaderStep(r) PROVE UNCHANGED vars
    BY <1>6 DEF ReaderStep
  <1>7. CASE UNCHANGED system
    BY <1>7 DEF system
  <1>8. QED
    BY <1>1, <1>2, <1>3, <1>5, <1>6, <1>7 DEF SystemNext

(* The whole has the types of the symbolizer, and a thread has a file.      *)
ThreadType == thread \in [Slots -> Files \cup {NoFile}]

LEMMA SystemTyped == SystemSpec => [](TypeOK /\ ThreadType)
  <1>1. SystemInit => TypeOK /\ ThreadType
    BY TypeInit DEF SystemInit, ThreadType
  <1>2. TypeOK /\ [SystemNext]_system => TypeOK'
    BY FetchesStep, TypeStep
  <1>3. ASSUME TypeOK, ThreadType, [SystemNext]_system PROVE ThreadType'
    <2> USE <1>3 DEF ThreadType
    <2>1. CASE SymbolizerStep
      BY <2>1 DEF SymbolizerStep
    <2>2. CASE EndOfProcess
      BY <2>2 DEF EndOfProcess
    <2>3. ASSUME NEW s \in Slots, StartThread(s) PROVE ThreadType'
      BY <2>3 DEF StartThread, TypeOK
    <2>4. ASSUME NEW s \in Slots, ThreadSteps(s) PROVE ThreadType'
      BY <2>4 DEF ThreadSteps, ThreadBegin, ThreadFail, ThreadStep, ThreadError,
           ThreadDone, Finish
    <2>5. ASSUME NEW r \in Readers, ReaderStep(r) PROVE ThreadType'
      BY <2>5 DEF ReaderStep
    <2>6. CASE UNCHANGED system
      BY <2>6 DEF system
    <2>7. QED
      BY <2>1, <2>2, <2>3, <2>4, <2>5, <2>6 DEF SystemNext
  <1>4. QED
    <2>1. TypeOK /\ ThreadType /\ [SystemNext]_system => TypeOK' /\ ThreadType'
      BY <1>2, <1>3
    <2>2. QED
      BY <1>1, <2>1, PTL DEF SystemSpec

(* With the store under it, whose inserts take many steps and fail in the   *)
(* middle, the symbolizer still behaves as Symbolizer says.                 *)
THEOREM FetchesImplemented == SystemSpec => Spec
  <1>1. SystemInit => Init
    BY DEF SystemInit
  <1>2. QED
    BY <1>1, SystemTyped, FetchesStep, PTL DEF SystemSpec, Spec

(* And the store sees no more than the calls SymDb allows its clients.      *)
THEOREM StoreImplemented == SystemSpec => Db!Spec
  <1>1. SystemInit => Db!Init
    BY DEF SystemInit
  <1>2. ASSUME TypeOK, ThreadType, [SystemNext]_system
        PROVE  [Db!Next]_(Db!vars)
    <2> USE DEF Db!Step, Db!Continue, Db!Next
    <2>1. CASE UNCHANGED store
      BY <2>1 DEF store, Db!vars
    <2>2. CASE EndOfProcess
      BY <2>2 DEF EndOfProcess
    <2>3. ASSUME NEW s \in Slots, ThreadBegin(s) PROVE Db!Next
      <3>1. thread[s] \in Files
        BY <1>2, <2>3 DEF ThreadBegin, ThreadType
      <3>2. QED
        BY <2>3, <3>1 DEF ThreadBegin
    <2>4. ASSUME NEW s \in Slots, ThreadStep(s) \/ ThreadError(s) \/ ThreadDone(s)
          PROVE  Db!Next
      BY <2>4 DEF ThreadStep, ThreadError, ThreadDone
    <2>5. ASSUME NEW s \in Slots, ThreadFail(s) PROVE UNCHANGED store
      BY <2>5 DEF ThreadFail
    <2>6. ASSUME NEW r \in Readers, ReaderStep(r) PROVE Db!Next
      BY <2>6 DEF ReaderStep
    <2>7. CASE SymbolizerStep \/ \E s \in Slots : StartThread(s)
      BY <2>1, <2>7 DEF SymbolizerStep, StartThread
    <2>8. CASE UNCHANGED system
      BY <2>1, <2>8 DEF system
    <2>9. QED
      BY <1>2, <2>1, <2>2, <2>3, <2>4, <2>5, <2>6, <2>7, <2>8
         DEF SystemNext, ThreadSteps
  <1>3. TypeOK /\ ThreadType /\ [SystemNext]_system => [Db!Next]_(Db!vars)
    BY <1>2
  <1>4. QED
    BY <1>1, <1>3, SystemTyped, PTL DEF SystemSpec, Db!Spec

DeadIdle == ctrl = "dead" => \A s \in Slots : stage[s] = "free"

(* A controller that died has no tasks any more.                            *)
LEMMA DeadIsIdle == Spec => []DeadIdle
  <1>1. Init => DeadIdle
    BY DEF Init, DeadIdle
  <1>2. ASSUME TypeOK, DeadIdle, [Next]_vars PROVE DeadIdle'
    <2> USE <1>2 DEF DeadIdle, controller, tasks
    <2>1. CASE UNCHANGED <<ctrl, stage>>
      BY <2>1
    <2>2. CASE ctrl # "dead" /\ ctrl' # "dead"
      BY <2>2
    <2>3. ASSUME NEW s \in Slots, Panic(s) PROVE DeadIdle'
      BY <2>3 DEF Panic
    <2>4. ASSUME NEW s \in Slots, Join(s) PROVE ctrl # "dead" /\ ctrl' # "dead"
      BY <2>4 DEF Join
    <2>5. ASSUME NEW s \in Slots, FetchStep(s) PROVE ctrl' = ctrl /\ ctrl # "dead"
      BY <2>5 DEF FetchStep, FetchDbgFileId, FetchSymbols, FetchInsert
    <2>6. CASE Recv \/ StoreStep
      BY <2>6, <2>2 DEF Recv, StoreStep, Store, Spawn, SpawnDone
    <2>7. ASSUME Reset PROVE ctrl' # "dead"
      BY <2>7 DEF Reset
    <2>8. QED
      BY <2>1, <2>2, <2>3, <2>4, <2>5, <2>6, <2>7
         DEF Next, Restart, Abort, MonitorStep, JoinStep, CollectorStep, DropStep, Tick,
             MonitorScan, MonitorSend, MonitorBreak, CollectorMiss, CollectorInsert,
             DropStart, DropInsert, DropFail, DropStore, DetachedInsert, FlushRecord, vars
  <1>3. TypeOK /\ DeadIdle /\ [Next]_vars => DeadIdle'
    BY <1>2
  <1>4. QED
    BY <1>1, <1>3, TypeCorrect, PTL DEF Spec

PartsInv == TypeOK /\ Bookkeeping /\ DeadIdle /\ ThreadType /\ Db!TypeOK

(* What the composition rests on of each of the two alone.                  *)
LEMMA PartsHold == SystemSpec => []PartsInv
  <1>1. DbP!Spec => []DbP!TypeOK
    BY StoreAssumed, DbP!TypeCorrect
  <1>2. QED
    BY <1>1, SameStore, SamePredicates, StoreImplemented, FetchesImplemented,
       SystemTyped, FetchesExclusive, DeadIsIdle, PTL DEF PartsInv, Bookkeeping

(* A step of the symbolizer alone keeps the threads known: only a panic     *)
(* leaves threads without a task.                                           *)
LEMMA KnownSymbolizer ==
    ASSUME PartsInv, ThreadsKnown, SymbolizerStep
    PROVE  ThreadsKnown'
  <1> USE DEF PartsInv, table, monitor, controller, tasks, others
  <1>1. /\ UNCHANGED <<thread, store>>
        /\ NoFile \notin Files
    BY SymbolizerAssumption DEF SymbolizerStep
  <1>2. /\ \A s, t \in Slots : thread'[s] = thread'[t] /\ thread'[s] # NoFile => s = t
        /\ \A s \in Slots : pc'[s] # "idle" => thread'[s] = file'[s] /\ Db!Inserting(s)'
        /\ \A r \in Readers : ~Db!Inserting(r)'
    BY <1>1 DEF ThreadsKnown, store, Db!Inserting
  <1>3. SUFFICES /\ \A s \in Slots : stage'[s] = "insert" => thread[s] = job'[s]
                 /\ \A s \in Slots : Orphaned(s)' =>
                                        ctrl' = "dead" /\ thread[s] \in detached'
    BY <1>1, <1>2 DEF ThreadsKnown
  <1>4. CASE UNCHANGED <<ctrl, tasks, detached>>
    BY <1>1, <1>4 DEF ThreadsKnown, Orphaned
  <1>5. CASE Recv \/ Store \/ SpawnDone
    BY <1>1, <1>5 DEF Recv, Store, SpawnDone, ThreadsKnown, Orphaned
  <1>6. CASE Spawn
    <2>1. CASE ~endpoint
      BY <1>4, <1>6, <2>1 DEF Spawn
    <2>2. CASE endpoint
      <3>1. PICK s \in Slots :
               /\ stage[s] = "free" /\ ctrl # "dead" /\ UNCHANGED <<ctrl, detached>>
               /\ job' = [job EXCEPT ![s] = pending[Len(pending)]]
               /\ stage' = [stage EXCEPT ![s] = "fetch"]
        BY <1>6, <2>2 DEF Spawn, Running, TypeOK
      <3>2. QED
        BY <1>1, <3>1 DEF ThreadsKnown, Orphaned, TypeOK
    <2>3. QED
      BY <2>1, <2>2
  <1>7. ASSUME NEW s \in Slots, Join(s)
        PROVE  /\ \A t \in Slots : stage'[t] = "insert" => thread[t] = job'[t]
               /\ \A t \in Slots : Orphaned(t)' =>
                                      ctrl' = "dead" /\ thread[t] \in detached'
    BY <1>1, <1>7 DEF Join, Finished, Outcomes, ThreadsKnown, Orphaned, TypeOK
  <1>8. ASSUME NEW s \in Slots, Panic(s)
        PROVE  /\ \A t \in Slots : stage'[t] = "insert" => thread[t] = job'[t]
               /\ \A t \in Slots : Orphaned(t)' =>
                                      ctrl' = "dead" /\ thread[t] \in detached'
    <2>1. /\ ctrl = "select" /\ ctrl' = "dead" /\ stage' = [t \in Slots |-> "free"]
          /\ \A t \in Slots : stage[t] = "insert" => job[t] \in detached'
      BY <1>8 DEF Panic
    <2>2. QED
      BY <1>1, <2>1 DEF ThreadsKnown, Orphaned
  <1>9. ASSUME NEW s \in Slots, FetchDbgFileId(s)
        PROVE  /\ \A t \in Slots : stage'[t] = "insert" => thread[t] = job'[t]
               /\ \A t \in Slots : Orphaned(t)' =>
                                      ctrl' = "dead" /\ thread[t] \in detached'
    BY <1>1, <1>9 DEF FetchDbgFileId, Advance, ThreadsKnown, Orphaned, TypeOK
  <1>10. QED
    BY <1>4, <1>5, <1>6, <1>7, <1>8, <1>9
       DEF SymbolizerStep, Tick, MonitorStep, MonitorScan, MonitorSend, MonitorBreak,
           StoreStep, CollectorStep, CollectorMiss, CollectorInsert, FlushRecord

(* The thread that returns is the only one of its file.                     *)
LEMMA KnownFinish ==
    ASSUME PartsInv, ThreadsKnown, NEW s \in Slots, NEW ok \in BOOLEAN, Finish(s, ok),
           pc'[s] = "idle", UNCHANGED file,
           \A c \in Readers \cup Slots : c # s => pc'[c] = pc[c]
    PROVE  ThreadsKnown'
  <1> USE DEF PartsInv, table, monitor, controller, tasks, others
  <1>1. /\ thread[s] # NoFile /\ thread' = [thread EXCEPT ![s] = NoFile]
        /\ UNCHANGED <<ctrl, job>>
        /\ \A t \in Slots \ {s} : stage'[t] = stage[t]
        /\ stage'[s] # "insert"
        /\ detached \ {thread[s]} \subseteq detached'
    BY DEF Finish, FetchInsert, DetachedInsert, Advance, TypeOK
  <1>2. s \notin Readers
    BY SymbolStoreAssumption
  <1>3. \A t \in Slots : thread'[t] = IF t = s THEN NoFile ELSE thread[t]
    BY <1>1 DEF ThreadType
  <1>4. \A t \in Slots \ {s} : thread[t] # NoFile => thread[t] # thread[s]
    BY <1>1 DEF ThreadsKnown
  <1>5. \A t \in Slots : stage'[t] = "insert" => thread'[t] = job'[t]
    BY <1>1, <1>3 DEF ThreadsKnown
  <1>6. \A t \in Slots : Orphaned(t)' => ctrl' = "dead" /\ thread'[t] \in detached'
    BY <1>1, <1>3, <1>4 DEF ThreadsKnown, Orphaned
  <1>7. \A t, u \in Slots : thread'[t] = thread'[u] /\ thread'[t] # NoFile => t = u
    BY <1>3 DEF ThreadsKnown
  <1>8. \A t \in Slots : pc'[t] # "idle" => thread'[t] = file'[t] /\ Db!Inserting(t)'
    BY <1>3 DEF ThreadsKnown, Db!Inserting
  <1>9. \A r \in Readers : ~Db!Inserting(r)'
    BY <1>2 DEF ThreadsKnown, Db!Inserting
  <1>10. QED
    BY <1>5, <1>6, <1>7, <1>8, <1>9 DEF ThreadsKnown

(* Threads are known in every state: in particular two threads never insert *)
(* symbols of one file, with or without tasks that wait for them.           *)
THEOREM ThreadsAlwaysKnown == SystemSpec => []ThreadsKnown
  <1>n. NoFile \notin Files
    BY SymbolizerAssumption
  <1>1. SystemInit => ThreadsKnown
    BY SymbolStoreAssumption
       DEF SystemInit, Init, Db!Init, ThreadsKnown, Orphaned, Db!Inserting, Db!Writing
  <1>2. ASSUME PartsInv, ThreadsKnown, [SystemNext]_system PROVE ThreadsKnown'
    <2> USE <1>2 DEF Db!Goto, Db!Writing
    <2>0. \A c \in Readers : c \notin Slots
      BY SymbolStoreAssumption
    <2>1. CASE SymbolizerStep
      BY <2>1, KnownSymbolizer
    <2>2. CASE EndOfProcess
      BY <2>2 DEF EndOfProcess, Restart, Abort, Reset, Db!Restart, ThreadsKnown,
         Orphaned, Db!Inserting
    <2>3. ASSUME NEW s \in Slots, StartThread(s) PROVE ThreadsKnown'
      <3>1. /\ stage[s] = "ranges" /\ UNCHANGED <<ctrl, job, detached, store>>
            /\ job[s] \in Files
        BY <2>3 DEF StartThread, FetchSymbols, controller, Running, PartsInv, TypeOK
      <3>2. ctrl # "dead"
        BY <3>1 DEF PartsInv, DeadIdle
      <3>3. \A t \in Slots : ~Orphaned(t)
        BY <3>2 DEF ThreadsKnown
      <3>4. thread[s] = NoFile /\ pc[s] = "idle"
        BY <3>1, <3>3, <1>n DEF Orphaned, ThreadsKnown, PartsInv, Db!TypeOK
      <3>5. ASSUME NEW t \in Slots, t # s PROVE thread[t] # job[s]
        <4>1. CASE stage[t] = "insert"
          BY <3>1, <3>5, <4>1
             DEF ThreadsKnown, PartsInv, Bookkeeping, OneFetchPerFile, Running
        <4>2. CASE stage[t] # "insert"
          BY <3>1, <3>3, <4>2, <1>n DEF Orphaned
        <4>3. QED
          BY <4>1, <4>2
      <3>6. CASE stage' = [stage EXCEPT ![s] = "insert"]
        <4>1. /\ \A t \in Slots : stage'[t] = IF t = s THEN "insert" ELSE stage[t]
              /\ \A t \in Slots : thread'[t] = IF t = s THEN job[s] ELSE thread[t]
          BY <2>3, <3>6 DEF StartThread, PartsInv, TypeOK, ThreadType
        <4>2. QED
          BY <3>1, <3>3, <3>4, <3>5, <4>1
             DEF ThreadsKnown, Orphaned, store, Db!Inserting
      <3>7. CASE stage' = [stage EXCEPT ![s] = "TempError"]
        <4>1. /\ \A t \in Slots : stage'[t] = IF t = s THEN "TempError" ELSE stage[t]
              /\ thread' = thread
          BY <2>3, <3>7 DEF StartThread, PartsInv, TypeOK
        <4>2. QED
          BY <3>1, <3>3, <3>4, <4>1 DEF ThreadsKnown, Orphaned, store, Db!Inserting
      <3>8. QED
        BY <2>3, <3>6, <3>7 DEF StartThread, FetchSymbols, Advance
    <2>4. ASSUME NEW s \in Slots, ThreadBegin(s) PROVE ThreadsKnown'
      <3>1. /\ UNCHANGED <<vars, thread>>
            /\ pc' = [pc EXCEPT ![s] = "create"]
            /\ file' = [file EXCEPT ![s] = thread[s]]
        BY <2>4 DEF ThreadBegin, Db!InsertUnlink
      <3>2. \A c \in Readers \cup Slots :
               /\ pc'[c] = IF c = s THEN "create" ELSE pc[c]
               /\ file'[c] = IF c = s THEN thread[s] ELSE file[c]
        BY <3>1 DEF PartsInv, Db!TypeOK
      <3>3. QED
        BY <2>0, <3>1, <3>2
           DEF ThreadsKnown, Orphaned, Db!Inserting, vars, tasks, controller
    <2>5. ASSUME NEW s \in Slots, ThreadFail(s) PROVE ThreadsKnown'
      BY <2>5, KnownFinish DEF ThreadFail, store
    <2>6. ASSUME NEW s \in Slots, ThreadStep(s) PROVE ThreadsKnown'
      <3>1. PICK to \in {"write", "rename", "forget"} :
               pc[s] # "idle" /\ pc' = [pc EXCEPT ![s] = to]
        BY <2>6 DEF ThreadStep, Db!InsertCreate, Db!InsertWrite, Db!InsertFlush,
             Db!InsertRename, PartsInv, Db!TypeOK
      <3>2. UNCHANGED <<vars, thread, file>>
        BY <2>6 DEF ThreadStep, Db!InsertCreate, Db!InsertWrite, Db!InsertFlush,
             Db!InsertRename
      <3>3. \A c \in Readers \cup Slots : pc'[c] = IF c = s THEN to ELSE pc[c]
        BY <3>1 DEF PartsInv, Db!TypeOK
      <3>4. QED
        BY <2>0, <3>1, <3>2, <3>3
           DEF ThreadsKnown, Orphaned, Db!Inserting, vars, tasks, controller
    <2>7. ASSUME NEW s \in Slots, ThreadError(s) PROVE ThreadsKnown'
      <3>1. /\ pc'[s] = "idle" /\ UNCHANGED file
            /\ \A c \in Readers \cup Slots : c # s => pc'[c] = pc[c]
        BY <2>7 DEF ThreadError, Db!InsertError, PartsInv, Db!TypeOK
      <3>2. QED
        BY <2>7, <3>1, KnownFinish DEF ThreadError
    <2>8. ASSUME NEW s \in Slots, ThreadDone(s) PROVE ThreadsKnown'
      <3>1. /\ pc'[s] = "idle" /\ UNCHANGED file
            /\ \A c \in Readers \cup Slots : c # s => pc'[c] = pc[c]
        BY <2>8 DEF ThreadDone, Db!InsertForget, PartsInv, Db!TypeOK
      <3>2. QED
        BY <2>8, <3>1, KnownFinish DEF ThreadDone
    <2>9. ASSUME NEW r \in Readers, ReaderStep(r) PROVE ThreadsKnown'
      <3>1. /\ UNCHANGED <<vars, thread>>
            /\ pc'[r] \in {"idle", "open", "escalate"} \/ pc'[r] = pc[r]
            /\ \A c \in Readers \cup Slots :
                  c # r => pc'[c] = pc[c] /\ file'[c] = file[c]
        BY <2>9 DEF ReaderStep, Db!GetHit, Db!GetMiss, Db!GetOpen, Db!GetError,
             Db!GetCache, PartsInv, Db!TypeOK
      <3>2. QED
        BY <2>0, <3>1 DEF ThreadsKnown, Orphaned, Db!Inserting, vars, tasks, controller
    <2>10. CASE UNCHANGED system
      BY <2>10 DEF system, vars, store, tasks, controller, ThreadsKnown, Orphaned,
         Db!Inserting
    <2>11. QED
      BY <2>1, <2>2, <2>3, <2>4, <2>5, <2>6, <2>7, <2>8, <2>9, <2>10
         DEF SystemNext, ThreadSteps
  <1>3. PartsInv /\ ThreadsKnown /\ [SystemNext]_system => ThreadsKnown'
    BY <1>2
  <1>4. QED
    BY <1>1, <1>3, PartsHold, PTL DEF SystemSpec

(* The discipline SymDb asks of its callers is kept: one inserter for each  *)
(* file at a time.                                                          *)
THEOREM OneInserterAlways == SystemSpec => []OneInserter
  <1>1. ASSUME PartsInv, ThreadsKnown PROVE OneInserter
    <2> SUFFICES ASSUME NEW c \in Readers \cup Slots, NEW d \in Readers \cup Slots,
                        Db!Inserting(c), Db!Inserting(d), file[c] = file[d]
                 PROVE  c = d
      BY DEF OneInserter, Db!SingleInserter
    <2>1. c \in Slots /\ d \in Slots
      BY <1>1 DEF ThreadsKnown
    <2>2. pc[c] # "idle" /\ pc[d] # "idle"
      BY DEF Db!Inserting, Db!Writing
    <2>3. thread[c] = file[c] /\ thread[d] = file[d] /\ file[c] # NoFile
      BY <1>1, <2>1, <2>2, SymbolizerAssumption DEF ThreadsKnown, PartsInv, Db!TypeOK
    <2>4. QED
      BY <1>1, <2>1, <2>3 DEF ThreadsKnown
  <1>2. PartsInv /\ ThreadsKnown => OneInserter
    BY <1>1
  <1>3. QED
    BY <1>2, PartsHold, ThreadsAlwaysKnown, PTL

(* So what SymDb promises such callers holds: nothing but whole trees in    *)
(* place or mapped, ...                                                     *)
THEOREM SystemTreesAlwaysWhole == SystemSpec => []SystemTreesWhole
  <1>1. DbP!Spec /\ []DbP!SingleInserter => []DbP!TreesWhole
    BY StoreAssumed, DbP!TreesAlwaysWhole
  <1>2. QED
    BY <1>1, SameStore, SamePredicates, StoreImplemented, OneInserterAlways, PTL

(* ... and what is mapped never changes.                                    *)
THEOREM SystemMappingsStable == SystemSpec => SystemMappedStable
  <1>1. DbP!Spec /\ []DbP!SingleInserter => DbP!MappedStable
    BY StoreAssumed, DbP!MappingsStable
  <1>2. [\A i \in Inodes : DbP!Mapped(i) => content'[i] = content[i]]_(DbP!vars)
        <=> [\A i \in Inodes : Db!Mapped(i) => content'[i] = content[i]]_(Db!vars)
    BY DEF DbP!Mapped, Db!Mapped, DbP!vars, Db!vars
  <1>3. QED
    BY <1>1, <1>2, SameStore, SamePredicates, StoreImplemented, OneInserterAlways, PTL
       DEF SystemMappedStable, Db!MappedStable, DbP!MappedStable

(* Symbols an insert has reported are in place, and those of a thread that  *)
(* has only the cache left to invalidate.                                   *)
InPlace ==
    /\ \A f \in Files : symbols[f] # "none" => final[f] # None
    /\ \A s \in Slots : pc[s] = "forget" => final[file[s]] # None

(* A thread that returns leaves what is in place there. *)
LEMMA InPlaceFinish ==
    ASSUME PartsInv, ThreadsKnown, InPlace, NEW s \in Slots, NEW ok \in BOOLEAN,
           Finish(s, ok), ok => pc[s] = "forget",
           UNCHANGED <<final, file>>,
           \A t \in Slots : pc'[t] = "forget" => pc[t] = "forget"
    PROVE  InPlace'
  <1>1. thread[s] \in Files
    BY DEF Finish, PartsInv, ThreadType
  <1>2. \A f \in Files :
           symbols'[f] # "none" => symbols[f] # "none" \/ (ok /\ f = thread[s])
    <2>1. CASE FetchInsert(s) /\ stage'[s] = IF ok THEN "Complete" ELSE "TempError"
      <3>1. /\ job[s] = thread[s]
            /\ stage \in [Slots -> Outcomes \cup
                                   {"free", "fetch", "ranges", "insert"}]
        BY <2>1 DEF FetchInsert, ThreadsKnown, PartsInv, TypeOK
      <3>2. CASE Advance(s, "Complete") /\ symbols' = [symbols EXCEPT ![job[s]] = "whole"]
        <4>1. ok
          BY <2>1, <3>1, <3>2 DEF Advance
        <4>2. QED
          BY <3>1, <3>2, <4>1 DEF PartsInv, TypeOK
      <3>3. CASE symbols' = symbols
        BY <3>3
      <3>4. QED
        BY <2>1, <3>2, <3>3 DEF FetchInsert
    <2>2. CASE /\ DetachedInsert(thread[s])
               /\ symbols'[thread[s]] = IF ok THEN "whole" ELSE symbols[thread[s]]
      <3>1. PICK got : symbols' = [symbols EXCEPT ![thread[s]] = got]
        BY <2>2 DEF DetachedInsert
      <3>2. \A f \in Files : f # thread[s] => symbols'[f] = symbols[f]
        BY <3>1 DEF PartsInv, TypeOK
      <3>3. QED
        BY <2>2, <3>2
    <2>3. QED
      BY <2>1, <2>2 DEF Finish
  <1>3. ok => final[thread[s]] # None
    BY DEF InPlace, ThreadsKnown
  <1>4. QED
    BY <1>2, <1>3 DEF InPlace

(* Every step keeps what is in place.                                       *)
LEMMA InPlaceStep ==
    ASSUME PartsInv, ThreadsKnown, InPlace, [SystemNext]_system
    PROVE  InPlace'
  <1> USE DEF Db!Goto, PartsInv
  <1>1. ASSUME UNCHANGED <<symbols, store>> PROVE InPlace'
    BY <1>1 DEF InPlace, store
  <1>2. CASE SymbolizerStep \/ \E s \in Slots : StartThread(s)
    <2>1. UNCHANGED symbols
      BY <1>2 DEF SymbolizerStep, StartThread, Tick, MonitorStep, MonitorScan,
           MonitorSend, MonitorBreak, Recv, StoreStep, Store, Spawn, SpawnDone, Join,
           Panic, FetchDbgFileId, FetchSymbols, CollectorStep, CollectorMiss,
           CollectorInsert, FlushRecord
    <2>2. QED
      BY <1>1, <1>2, <2>1 DEF SymbolizerStep, StartThread
  <1>3. CASE EndOfProcess
    <2>1. UNCHANGED <<symbols, final>> /\ \A s \in Slots : pc'[s] = "idle"
      BY <1>3 DEF EndOfProcess, Restart, Abort, Reset, Db!Restart, Db!paths
    <2>2. QED
      BY <2>1 DEF InPlace
  <1>4. ASSUME NEW s \in Slots, ThreadBegin(s) PROVE InPlace'
    <2>1. /\ UNCHANGED <<symbols, final>> /\ pc'[s] = "create"
          /\ \A t \in Slots \ {s} : pc'[t] = pc[t] /\ file'[t] = file[t]
      BY <1>4 DEF ThreadBegin, Db!InsertUnlink, vars, Db!TypeOK
    <2>2. QED
      BY <2>1 DEF InPlace
  <1>5. ASSUME NEW s \in Slots, ThreadFail(s) PROVE InPlace'
    BY <1>5, InPlaceFinish DEF ThreadFail, store
  <1>6. ASSUME NEW s \in Slots, ThreadStep(s) PROVE InPlace'
    <2>1. CASE Db!InsertRename(s)
      <3>1. /\ file' = file /\ file[s] \in Files /\ temp[file[s]] # None
            /\ final' = [final EXCEPT ![file[s]] = temp[file[s]]]
            /\ pc' = [pc EXCEPT ![s] = "forget"]
        BY <2>1 DEF Db!InsertRename, Db!TypeOK
      <3>2. symbols' = symbols
        BY <1>6 DEF ThreadStep, vars
      <3>3. \A f \in Files : final'[f] = IF f = file[s] THEN temp[f] ELSE final[f]
        BY <3>1 DEF Db!TypeOK
      <3>4. \A t \in Slots : pc'[t] = IF t = s THEN "forget" ELSE pc[t]
        BY <3>1 DEF Db!TypeOK
      <3>5. \A t \in Slots : file[t] \in Files
        BY DEF Db!TypeOK
      <3>6. QED
        BY <3>1, <3>2, <3>3, <3>4, <3>5 DEF InPlace
    <2>2. CASE Db!InsertCreate(s) \/ Db!InsertWrite(s) \/ Db!InsertFlush(s)
      <3>1. PICK to \in {"write", "rename"} : pc' = [pc EXCEPT ![s] = to]
        BY <2>2 DEF Db!InsertCreate, Db!InsertWrite, Db!InsertFlush,
             Db!TypeOK
      <3>2. UNCHANGED <<symbols, final, file>>
        BY <1>6, <2>2 DEF ThreadStep, Db!InsertCreate, Db!InsertWrite, Db!InsertFlush,
             Db!paths, vars
      <3>3. QED
        BY <3>1, <3>2 DEF InPlace, Db!TypeOK
    <2>3. QED
      BY <1>6, <2>1, <2>2 DEF ThreadStep
  <1>7. ASSUME NEW s \in Slots, ThreadError(s) PROVE InPlace'
    <2>1. /\ UNCHANGED <<final, file>> /\ pc'[s] = "idle"
          /\ \A t \in Slots : pc'[t] = "forget" => pc[t] = "forget"
      BY <1>7 DEF ThreadError, Db!InsertError, Db!paths, Db!TypeOK
    <2>2. QED
      BY <1>7, <2>1, InPlaceFinish DEF ThreadError
  <1>8. ASSUME NEW s \in Slots, ThreadDone(s) PROVE InPlace'
    <2>1. /\ UNCHANGED <<final, file>> /\ pc[s] = "forget"
          /\ \A t \in Slots : pc'[t] = "forget" => pc[t] = "forget"
      BY <1>8 DEF ThreadDone, Db!InsertForget, Db!paths, Db!TypeOK
    <2>2. QED
      BY <1>8, <2>1, InPlaceFinish DEF ThreadDone
  <1>9. ASSUME NEW r \in Readers, ReaderStep(r) PROVE InPlace'
    <2>1. r \notin Slots
      BY SymbolStoreAssumption
    <2>2. /\ UNCHANGED <<symbols, final>>
          /\ \A t \in Slots : pc'[t] = pc[t] /\ file'[t] = file[t]
      BY <1>9, <2>1 DEF ReaderStep, Db!GetHit, Db!GetMiss, Db!GetOpen, Db!GetError,
           Db!GetCache, Db!paths, vars, Db!TypeOK
    <2>3. QED
      BY <2>2 DEF InPlace
  <1>10. CASE UNCHANGED system
    BY <1>1, <1>10 DEF system, vars
  <1>11. QED
    BY <1>2, <1>3, <1>4, <1>5, <1>6, <1>7, <1>8, <1>9, <1>10 DEF SystemNext, ThreadSteps

(* A file whose record says Complete has a whole tree in place, whatever    *)
(* failed, was cancelled, flushed or died meanwhile.                        *)
THEOREM CompleteAlwaysStored == SystemSpec => []CompleteStored
  <1>1. SystemInit => InPlace
    BY DEF SystemInit, Init, Db!Init, InPlace
  <1>2. PartsInv /\ ThreadsKnown /\ InPlace /\ [SystemNext]_system => InPlace'
    BY InPlaceStep
  <1>3. ASSUME PartsInv, InPlace, CompleteHasSymbols, SystemTreesWhole
        PROVE  CompleteStored
    <2> SUFFICES ASSUME NEW f \in Files, exe[f] = "Complete"
                 PROVE  final[f] # None /\ content[final[f]] \in Trees
      BY DEF CompleteStored
    <2>1. final[f] # None
      BY <1>3 DEF CompleteHasSymbols, Backed, InPlace
    <2>2. content[final[f]] # Partial
      BY <1>3, <2>1 DEF SystemTreesWhole, Db!TreesWhole, Db!FinalComplete
    <2>3. final[f] \in Inodes
      BY <1>3, <2>1 DEF PartsInv, Db!TypeOK, Db!MaybeInode
    <2>4. QED
      BY <1>3, <2>1, <2>2, <2>3 DEF PartsInv, Db!TypeOK
  <1>4. PartsInv /\ InPlace /\ CompleteHasSymbols /\ SystemTreesWhole => CompleteStored
    BY <1>3
  <1>5. QED
    BY <1>1, <1>2, <1>4, PartsHold, ThreadsAlwaysKnown, SystemTreesAlwaysWhole,
       FetchesImplemented, StatusBacked, PTL DEF SystemSpec
=============================================================================
