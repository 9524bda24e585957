-------------------------- MODULE CachedTableProofs --------------------------
(***************************************************************************)
(* Proofs about CachedTable, for every set of clients, keys and values and *)
(* every cache size.                                                       *)
(***************************************************************************)
EXTENDS CachedTable, FiniteSetTheorems, TLAPS

(* What cache.put leaves: a map again, in which the key has the new value  *)
(* (or is not cached, with CACHE_SIZE = 0) and every other key has its old *)
(* value or none.                                                          *)
LEMMA CachePutEffect ==
    ASSUME TypeOK, NEW k \in Keys, NEW v \in Values, CachePut(k, v)
    PROVE  /\ cache' \in [Keys -> Maybe]
           /\ cache'[k] \in {v, cache[k]}
           /\ \A j \in Keys : j # k => cache'[j] \in {cache[j], NoVal}
           /\ IF Capacity = 0 THEN cache' = cache ELSE cache'[k] = v
  <1>1. CASE Capacity = 0
    BY <1>1 DEF CachePut, TypeOK
  <1>2. CASE Capacity # 0
    <2>1. PICK out \in Victims(k) :
             cache' = [j \in Keys |-> IF j = k THEN v
                                      ELSE IF j \in out THEN NoVal
                                      ELSE cache[j]]
      BY <1>2 DEF CachePut
    <2>2. QED
      BY <1>2, <2>1 DEF TypeOK, Maybe
  <1>3. QED
    BY <1>1, <1>2

(* Type correctness, with what a program counter says about the locals: no *)
(* operation, restart or interleaving of them carries "no value" to the    *)
(* cache or the database, or leaves a flush with nothing to remove.        *)
THEOREM TypeCorrect == Spec => []TypeOK
  <1>1. Init => TypeOK
    <2> SUFFICES ASSUME Init PROVE TypeOK
      OBVIOUS
    <2>1. (CHOOSE k \in Keys : TRUE) \in Keys
      BY TableAssumption
    <2>2. QED
      BY <2>1 DEF Init, TypeOK, Empty, Maybe
  <1>2. TypeOK /\ [Next]_vars => TypeOK'
    <2> SUFFICES ASSUME TypeOK, [Next]_vars PROVE TypeOK'
      OBVIOUS
    <2> USE DEF Goto, Maybe, local
    <2>1. CASE Restart
      BY <2>1 DEF Restart, TypeOK, Empty
    <2>2. ASSUME NEW c \in Clients, Step(c) PROVE TypeOK'
      <3>1. ASSUME NEW k \in Keys, NEW v \in Values, InsertCache(c, k, v)
            PROVE  TypeOK'
        <4>1. cache' \in [Keys -> Maybe]
          BY <3>1, CachePutEffect DEF InsertCache
        <4>2. QED
          BY <3>1, <4>1, TableAssumption DEF InsertCache, TypeOK
      <3>2. CASE InsertDb(c)
        BY <3>2 DEF InsertDb, TypeOK
      <3>3. ASSUME NEW k \in Keys, GetHit(c, k) PROVE TypeOK'
        BY <3>3 DEF GetHit, TypeOK
      <3>4. ASSUME NEW k \in Keys, GetMiss(c, k) PROVE TypeOK'
        BY <3>4 DEF GetMiss, TypeOK
      <3>5. CASE GetRead(c)
        <4>1. CASE db[key[c]] = NoVal
          BY <3>5, <4>1 DEF GetRead, TypeOK
        <4>2. CASE db[key[c]] # NoVal
          BY <3>5, <4>2 DEF GetRead, TypeOK
        <4>3. QED
          BY <4>1, <4>2
      <3>6. CASE GetFill(c)
        <4>1. key[c] \in Keys /\ val[c] \in Values
          BY <3>6 DEF GetFill, TypeOK
        <4>2. cache' \in [Keys -> Maybe]
          BY <3>6, <4>1, CachePutEffect DEF GetFill
        <4>3. QED
          BY <3>6, <4>1, <4>2 DEF GetFill, TypeOK
      <3>7. ASSUME NEW k \in Keys, Remove(c, k) PROVE TypeOK'
        BY <3>7 DEF Remove, RemoveCache, TypeOK
      <3>8. CASE RemoveDb(c)
        BY <3>8 DEF RemoveDb, TypeOK
      <3>9. CASE FlushStart(c)
        <4>1. {k \in Keys : db[k] # NoVal} # {}
          BY <3>9 DEF FlushStart, Empty, TypeOK
        <4>2. QED
          BY <3>9, <4>1 DEF FlushStart, TypeOK
      <3>10. CASE FlushNext(c)
        BY <3>10 DEF FlushNext, RemoveCache, TypeOK
      <3>11. ASSUME NEW b \in [Keys -> Maybe], CommitDb(c, b) PROVE TypeOK'
        BY <3>11, TableAssumption DEF CommitDb, TypeOK
      <3>12. CASE CommitClear(c)
        BY <3>12 DEF CommitClear, TypeOK, Empty
      <3>13. QED
        BY <2>2, <3>1, <3>2, <3>3, <3>4, <3>5, <3>6, <3>7, <3>8, <3>9,
           <3>10, <3>11, <3>12 DEF Step
    <2>3. CASE UNCHANGED vars
      BY <2>3 DEF vars, TypeOK
    <2>4. QED
      BY <2>1, <2>2, <2>3 DEF Next
  <1>3. QED
    BY <1>1, <1>2, PTL DEF Spec

-----------------------------------------------------------------------------
(* The size of the cache.                                                  *)

(* Any step that only empties cache slots keeps the bound.                 *)
LEMMA FewerCached ==
    ASSUME CacheBound, \A k \in Keys : cache[k] = NoVal => cache'[k] = NoVal
    PROVE  CacheBound'
  <1>1. Cached' \subseteq Cached
    BY DEF Cached
  <1>2. IsFiniteSet(Cached)
    BY FS_Subset, TableAssumption DEF Cached
  <1>3. /\ Cardinality(Cached') <= Cardinality(Cached)
        /\ Cardinality(Cached') \in Nat /\ Cardinality(Cached) \in Nat
    BY <1>1, <1>2, FS_Subset, FS_CardinalityType
  <1>4. QED
    BY <1>3, TableAssumption DEF CacheBound

(* cache.put keeps it: it adds one key at most, and only with room for it  *)
(* or in exchange for another.                                             *)
LEMMA PutWithinBound ==
    ASSUME TypeOK, CacheBound, NEW k \in Keys, NEW v \in Values, CachePut(k, v)
    PROVE  CacheBound'
  <1>0. IsFiniteSet(Cached) /\ Cardinality(Cached) \in Nat
    BY FS_Subset, FS_CardinalityType, TableAssumption DEF Cached
  <1>1. CASE Capacity = 0 \/ k \in Cached
    BY <1>1, CachePutEffect, FewerCached DEF Cached
  <1>2. CASE Capacity # 0 /\ k \notin Cached
    <2>1. PICK out \in Victims(k) :
             cache' = [j \in Keys |-> IF j = k THEN v
                                      ELSE IF j \in out THEN NoVal
                                      ELSE cache[j]]
      BY <1>2 DEF CachePut
    <2>2. Cached' \subseteq (Cached \ out) \cup {k}
      BY <2>1 DEF Cached
    <2>3. /\ IsFiniteSet(Cached \ out)
          /\ Cardinality(Cached \ out) \in Nat
          /\ Cardinality(Cached \ out) + 1 <= Capacity
      <3>1. CASE Cardinality(Cached) < Capacity
        <4>1. Cached \ out \subseteq Cached
          OBVIOUS
        <4>2. QED
          BY <1>0, <3>1, <4>1, FS_Subset, FS_CardinalityType, TableAssumption
      <3>2. CASE ~(Cardinality(Cached) < Capacity)
        <4>1. PICK j \in Cached : out = {j}
          BY <1>2, <2>1, <3>2 DEF Victims
        <4>2. /\ IsFiniteSet(Cached \ {j})
              /\ Cardinality(Cached \ {j}) = Cardinality(Cached) - 1
          BY <1>0, <4>1, FS_RemoveElement
        <4>3. Cardinality(Cached \ {j}) \in Nat
          BY <4>2, FS_CardinalityType
        <4>4. QED
          BY <1>0, <4>1, <4>2, <4>3, TableAssumption DEF CacheBound
      <3>3. QED
        BY <3>1, <3>2
    <2>4. /\ IsFiniteSet((Cached \ out) \cup {k})
          /\ Cardinality((Cached \ out) \cup {k}) <= Cardinality(Cached \ out) + 1
      <3>1. k \notin Cached \ out
        BY <1>2
      <3>2. /\ IsFiniteSet((Cached \ out) \cup {k})
            /\ Cardinality((Cached \ out) \cup {k}) =
                  IF k \in Cached \ out THEN Cardinality(Cached \ out)
                  ELSE Cardinality(Cached \ out) + 1
        BY ONLY <2>3, FS_AddElement, Zenon
      <3>3. QED
        BY <2>3, <3>1, <3>2
    <2>5. /\ Cardinality(Cached') <= Cardinality((Cached \ out) \cup {k})
          /\ Cardinality(Cached') \in Nat
          /\ Cardinality((Cached \ out) \cup {k}) \in Nat
      BY <2>2, <2>4, FS_Subset, FS_CardinalityType
    <2>6. QED
      BY <2>3, <2>4, <2>5, TableAssumption DEF CacheBound
  <1>3. QED
    BY <1>1, <1>2

(* However many threads fill it, the cache never holds more than           *)
(* CACHE_SIZE entries.                                                     *)
THEOREM CacheBounded == Spec => []CacheBound
  <1>1. Init => CacheBound
    <2>1. Init => Cached = {}
      BY DEF Init, Cached, Empty
    <2>2. QED
      BY <2>1, FS_EmptySet, TableAssumption DEF CacheBound
  <1>2. TypeOK /\ CacheBound /\ [Next]_vars => CacheBound'
    <2> SUFFICES ASSUME TypeOK, CacheBound, [Next]_vars PROVE CacheBound'
      OBVIOUS
    <2>1. ASSUME cache' = cache PROVE CacheBound'
      BY <2>1, FewerCached
    <2>2. CASE Restart
      BY <2>2, FewerCached DEF Restart, Empty
    <2>3. ASSUME NEW c \in Clients, Step(c) PROVE CacheBound'
      <3>1. ASSUME NEW k \in Keys, NEW v \in Values, InsertCache(c, k, v)
            PROVE  CacheBound'
        BY <3>1, PutWithinBound DEF InsertCache
      <3>2. CASE GetFill(c)
        BY <3>2, PutWithinBound DEF GetFill, TypeOK, Maybe
      <3>3. ASSUME NEW k \in Keys, RemoveCache(c, k) PROVE CacheBound'
        BY <3>3, FewerCached DEF RemoveCache, TypeOK
      <3>4. CASE CommitClear(c)
        BY <3>4, FewerCached DEF CommitClear, Empty
      <3>5. ASSUME NEW k \in Keys, GetHit(c, k) \/ GetMiss(c, k)
            PROVE  cache' = cache
        BY <3>5 DEF GetHit, GetMiss
      <3>6. ASSUME NEW b \in [Keys -> Maybe], CommitDb(c, b)
            PROVE  cache' = cache
        BY <3>6 DEF CommitDb
      <3>7. CASE InsertDb(c) \/ GetRead(c) \/ RemoveDb(c) \/ FlushStart(c)
        BY <2>1, <3>7 DEF InsertDb, GetRead, RemoveDb, FlushStart
      <3>8. FlushNext(c) => \E k \in Keys : RemoveCache(c, k)
        BY DEF FlushNext, TypeOK
      <3>9. QED
        BY <2>1, <2>3, <3>1, <3>2, <3>3, <3>4, <3>5, <3>6, <3>7, <3>8
           DEF Step, Remove
    <2>4. CASE UNCHANGED vars
      BY <2>1, <2>4 DEF vars
    <2>5. QED
      BY <2>2, <2>3, <2>4 DEF Next
  <1>3. QED
    BY <1>1, <1>2, TypeCorrect, PTL DEF Spec

-----------------------------------------------------------------------------
(* Append-only tables.                                                     *)

(* One step of the table, whichever it is.                                 *)
LEMMA CacheBackedStep ==
    ASSUME AppendOnly, TypeOK, TypeOK', CacheBacked, [Next]_vars
    PROVE  CacheBacked'
  <1> USE DEF Goto, local, Allowed, StoredAllowed, CarriedCurrent
  <1>w. \A k \in Keys : Writable[k] \subseteq Values
    BY TableAssumption
  <1>1. CASE Restart
    BY <1>1 DEF Restart, CacheBacked, CachedStored, Empty
  <1>2. ASSUME NEW c \in Clients, Step(c) PROVE CacheBacked'
    <2>1. ASSUME NEW k \in Keys, NEW v \in Values, InsertCache(c, k, v)
          PROVE  CacheBacked'
      <3>1. /\ cache'[k] \in {v, cache[k]}
            /\ \A j \in Keys : j # k => cache'[j] \in {cache[j], NoVal}
        BY <2>1, CachePutEffect DEF InsertCache
      <3>2. /\ v \in Writable[k]
            /\ db' = db
            /\ pc[c] = "idle"
            /\ pc' = [pc EXCEPT ![c] = "put"]
            /\ key' = [key EXCEPT ![c] = k]
            /\ val' = [val EXCEPT ![c] = v]
        BY <2>1 DEF InsertCache
      <3>3. pc'[c] = "put" /\ key'[c] = k /\ val'[c] = v
        BY <3>2 DEF TypeOK
      <3>4. \A d \in Clients \ {c} :
              pc'[d] = pc[d] /\ key'[d] = key[d] /\ val'[d] = val[d]
        BY <3>2 DEF TypeOK
      <3>5. StoredAllowed'
        BY <3>1, <3>2 DEF CacheBacked
      <3>6. CachedStored'
        <4> SUFFICES ASSUME NEW j \in Keys, cache'[j] # NoVal, db'[j] = NoVal
                     PROVE  \E d \in Clients : pc'[d] = "put" /\ key'[d] = j
          BY DEF CachedStored
        <4>1. CASE j = k
          BY <4>1, <3>3
        <4>2. CASE j # k
          <5>1. PICK d \in Clients : pc[d] = "put" /\ key[d] = j
            BY <4>2, <3>1, <3>2 DEF CacheBacked, CachedStored
          <5>2. d # c
            BY <5>1, <3>2
          <5>3. QED
            BY <5>1, <5>2, <3>4
        <4>3. QED
          BY <4>1, <4>2
      <3>7. CarriedCurrent'
        BY <3>2, <3>3, <3>4 DEF CacheBacked
      <3>8. QED
        BY <3>5, <3>6, <3>7 DEF CacheBacked
    <2>2. CASE InsertDb(c)
      <3>1. /\ key[c] \in Keys
            /\ val[c] \in Writable[key[c]]
            /\ val[c] # NoVal
        BY <2>2 DEF InsertDb, TypeOK, CacheBacked
      <3>2. \A k \in Keys : db'[k] = IF k = key[c] THEN val[c] ELSE db[k]
        BY <2>2 DEF InsertDb, TypeOK
      <3>3. \A k \in Keys : db[k] # NoVal => db'[k] = db[k]
        BY <3>1, <3>2 DEF CacheBacked, AppendOnly
      <3>4. \A d \in Clients \ {c} : pc'[d] = pc[d]
        BY <2>2 DEF InsertDb, TypeOK
      <3>5. pc'[c] = "idle" /\ cache' = cache /\ key' = key /\ val' = val
        BY <2>2 DEF InsertDb, TypeOK
      <3>6. CachedStored'
        <4> SUFFICES ASSUME NEW j \in Keys, cache'[j] # NoVal, db'[j] = NoVal
                     PROVE  \E d \in Clients : pc'[d] = "put" /\ key'[d] = j
          BY DEF CachedStored
        <4>1. db[j] = NoVal /\ j # key[c]
          BY <3>1, <3>2
        <4>2. PICK d \in Clients : pc[d] = "put" /\ key[d] = j
          BY <4>1, <3>5 DEF CacheBacked, CachedStored
        <4>3. QED
          BY <4>1, <4>2, <3>4, <3>5
      <3>7. CarriedCurrent'
        <4>1. ASSUME NEW d \in Clients, pc'[d] = "fill"
              PROVE  db'[key[d]] = db[key[d]]
          <5>1. pc[d] = "fill" /\ key[d] \in Keys
            BY <4>1, <3>4, <3>5 DEF TypeOK
          <5>2. db[key[d]] # NoVal
            BY <5>1 DEF CacheBacked, TypeOK
          <5>3. QED
            BY <5>1, <5>2, <3>3
        <4>2. QED
          BY <4>1, <3>4, <3>5 DEF CacheBacked
      <3>8. StoredAllowed'
        BY <3>1, <3>2, <3>5 DEF CacheBacked
      <3>9. QED
        BY <3>6, <3>7, <3>8 DEF CacheBacked
    <2>3. ASSUME NEW k \in Keys, GetHit(c, k) PROVE CacheBacked'
      BY <2>3 DEF GetHit, CacheBacked, CachedStored
    <2>4. ASSUME NEW k \in Keys, GetMiss(c, k) PROVE CacheBacked'
      BY <2>4 DEF GetMiss, CacheBacked, CachedStored, TypeOK
    <2>5. CASE GetRead(c)
      <3>1. CASE db[key[c]] = NoVal
        BY <2>5, <3>1 DEF GetRead, CacheBacked, CachedStored, TypeOK
      <3>2. CASE db[key[c]] # NoVal
        BY <2>5, <3>2 DEF GetRead, CacheBacked, CachedStored, TypeOK
      <3>3. QED
        BY <3>1, <3>2
    <2>6. CASE GetFill(c)
      <3>1. key[c] \in Keys /\ val[c] \in Values /\ val[c] = db[key[c]]
        BY <2>6 DEF GetFill, TypeOK, Maybe, CacheBacked
      <3>2. /\ cache'[key[c]] \in {val[c], cache[key[c]]}
            /\ \A j \in Keys : j # key[c] => cache'[j] \in {cache[j], NoVal}
        BY <2>6, <3>1, CachePutEffect DEF GetFill
      <3>3. /\ db' = db /\ key' = key /\ val' = val
            /\ pc[c] = "fill"
            /\ pc' = [pc EXCEPT ![c] = "idle"]
        BY <2>6 DEF GetFill
      <3>4. CachedStored'
        <4> SUFFICES ASSUME NEW j \in Keys, cache'[j] # NoVal, db'[j] = NoVal
                     PROVE  \E d \in Clients : pc'[d] = "put" /\ key'[d] = j
          BY DEF CachedStored
        <4>1. db[j] = NoVal /\ cache[j] # NoVal
          BY <3>1, <3>2, <3>3, TableAssumption
        <4>2. PICK d \in Clients : pc[d] = "put" /\ key[d] = j
          BY <4>1 DEF CacheBacked, CachedStored
        <4>3. QED
          BY <4>2, <3>3 DEF TypeOK
      <3>5. StoredAllowed'
        BY <3>1, <3>2, <3>3 DEF CacheBacked
      <3>6. CarriedCurrent'
        BY <3>3 DEF CacheBacked, TypeOK
      <3>7. QED
        BY <3>4, <3>5, <3>6 DEF CacheBacked
    <2>7. ASSUME NEW k \in Keys, Remove(c, k) PROVE CacheBacked'
      BY <2>7 DEF Remove, AppendOnly
    <2>8. CASE RemoveDb(c) \/ FlushStart(c) \/ FlushNext(c)
      BY <2>8 DEF RemoveDb, FlushStart, FlushNext, CacheBacked, CachedStored, AppendOnly
    <2>9. ASSUME NEW b \in [Keys -> Maybe], CommitDb(c, b) PROVE CacheBacked'
      <3>1. \A k \in Keys : /\ db[k] # NoVal => db'[k] = db[k]
                            /\ db'[k] \in Allowed(k)
        BY <2>9 DEF CommitDb, CacheBacked, AppendOnly
      <3>2. /\ cache' = cache /\ key' = key /\ val' = val
            /\ pc[c] = "idle"
            /\ pc' = [pc EXCEPT ![c] = "clear"]
        BY <2>9 DEF CommitDb
      <3>3. CachedStored'
        <4> SUFFICES ASSUME NEW j \in Keys, cache'[j] # NoVal, db'[j] = NoVal
                     PROVE  \E d \in Clients : pc'[d] = "put" /\ key'[d] = j
          BY DEF CachedStored
        <4>1. PICK d \in Clients : pc[d] = "put" /\ key[d] = j
          BY <3>1, <3>2 DEF CacheBacked, CachedStored
        <4>2. QED
          BY <4>1, <3>2 DEF TypeOK
      <3>4. CarriedCurrent'
        <4>1. ASSUME NEW d \in Clients, pc'[d] = "fill"
              PROVE  db'[key[d]] = db[key[d]]
          <5>1. pc[d] = "fill" /\ key[d] \in Keys
            BY <4>1, <3>2 DEF TypeOK
          <5>2. db[key[d]] # NoVal
            BY <5>1 DEF CacheBacked, TypeOK
          <5>3. QED
            BY <5>1, <5>2, <3>1
        <4>2. QED
          BY <4>1, <3>2 DEF CacheBacked, TypeOK
      <3>5. StoredAllowed'
        BY <3>1, <3>2 DEF CacheBacked
      <3>6. QED
        BY <3>3, <3>4, <3>5 DEF CacheBacked
    <2>10. CASE CommitClear(c)
      BY <2>10 DEF CommitClear, CacheBacked, CachedStored, TypeOK, Empty
    <2>11. QED
      BY <1>2, <2>1, <2>2, <2>3, <2>4, <2>5, <2>6, <2>7, <2>8, <2>9,
         <2>10 DEF Step
  <1>3. CASE UNCHANGED vars
    BY <1>3 DEF vars, CacheBacked, CachedStored
  <1>4. QED
    BY <1>1, <1>2, <1>3 DEF Next

(* In an append-only table a cached value is the stored one, or an insert  *)
(* of it is on its way to the database, whatever the interleaving of       *)
(* inserts, lookups, batch commits, evictions and restarts.                *)
THEOREM AppendOnlyBacked == AppendOnly /\ Spec => []CacheBacked
  <1> SUFFICES ASSUME AppendOnly PROVE Spec => []CacheBacked
    OBVIOUS
  <1>1. Init => CacheBacked
    BY DEF Init, CacheBacked, StoredAllowed, CachedStored, CarriedCurrent,
           Allowed, Empty
  <1>2. TypeOK /\ TypeOK' /\ CacheBacked /\ [Next]_vars => CacheBacked'
    BY CacheBackedStep
  <1>3. QED
    BY <1>1, <1>2, TypeCorrect, PTL DEF Spec

(* The point of it: with no operation half way on a key the cache of an    *)
(* append-only table answers what the database holds.                      *)
THEOREM AppendOnlyCoherent == AppendOnly /\ Spec => []CoherentAtRest
  <1> SUFFICES ASSUME AppendOnly PROVE Spec => []CoherentAtRest
    OBVIOUS
  <1>1. ASSUME TypeOK, CacheBacked
        PROVE  CoherentAtRest
    <2> SUFFICES ASSUME NEW k \in Cached, ~InProgress(k)
                 PROVE  cache[k] = db[k]
      BY DEF CoherentAtRest
    <2>1. k \in Keys /\ cache[k] # NoVal
      BY DEF Cached
    <2>2. db[k] # NoVal
      BY <1>1, <2>1 DEF CacheBacked, CachedStored, InProgress
    <2>3. QED
      BY <1>1, <2>1, <2>2 DEF CacheBacked, StoredAllowed, AppendOnly, Allowed
  <1>2. QED
    BY <1>1, TypeCorrect, AppendOnlyBacked, PTL

-----------------------------------------------------------------------------
(* A lone thread.                                                          *)

(* What the second half of a get brings to the cache is what the database  *)
(* holds: nobody else wrote the key in between.                            *)
LEMMA SerialCoherentStep ==
    ASSUME Serial, TypeOK, TypeOK', SerialCoherent, [Next]_vars
    PROVE  SerialCoherent'
  <1> USE DEF Goto, local
  <1>1. CASE Restart
    BY <1>1 DEF Restart, SerialCoherent, Empty, TypeOK
  <1>2. ASSUME NEW c \in Clients, Step(c) PROVE SerialCoherent'
    <2>s. \A d \in Clients : d = c
      BY DEF Serial
    <2>c. pc[c] \in {"idle", "read"} => \A k \in Keys : cache[k] \in {NoVal, db[k]}
      BY <2>s DEF SerialCoherent
    <2>1. ASSUME NEW k \in Keys, NEW v \in Values, InsertCache(c, k, v)
          PROVE  SerialCoherent'
      <3>1. /\ cache'[k] \in {v, cache[k]}
            /\ \A j \in Keys : j # k => cache'[j] \in {cache[j], NoVal}
        BY <2>1, CachePutEffect DEF InsertCache
      <3>2. pc'[c] = "put" /\ key'[c] = k /\ val'[c] = v /\ db' = db
        BY <2>1 DEF InsertCache, TypeOK
      <3>3. \A j \in Keys : cache[j] \in {NoVal, db[j]}
        BY <2>1, <2>c DEF InsertCache
      <3>4. ASSUME NEW j \in Keys, cache'[j] \notin {NoVal, db'[j]}
            PROVE  key'[c] = j /\ val'[c] = cache'[j]
        <4>1. j = k
          BY <3>1, <3>2, <3>3, <3>4
        <4>2. QED
          BY <3>1, <3>2, <3>3, <3>4, <4>1
      <3>5. /\ cache'[k] \in {NoVal, v}
            /\ Capacity = 0 => cache' = Empty
        BY <2>1, CachePutEffect DEF InsertCache, SerialCoherent, Empty
      <3>6. QED
        BY <2>s, <3>2, <3>4, <3>5 DEF SerialCoherent, Empty
    <2>2. CASE InsertDb(c)
      <3>1. \A k \in Keys : /\ db'[k] = IF k = key[c] THEN val[c] ELSE db[k]
                            /\ cache[k] \in IF k = key[c] THEN {NoVal, db[k], val[c]}
                                            ELSE {NoVal, db[k]}
        BY <2>2, <2>s DEF InsertDb, TypeOK, SerialCoherent
      <3>2. pc[c] = "put" /\ pc'[c] = "idle" /\ cache' = cache
        BY <2>2 DEF InsertDb, TypeOK
      <3>3. cache[key[c]] \in {NoVal, val[c]}
        BY <3>2, <2>s DEF SerialCoherent, TypeOK
      <3>4. \A k \in Keys : cache'[k] \in {NoVal, db'[k]}
        BY <3>1, <3>2, <3>3
      <3>5. QED
        BY <2>s, <3>2, <3>4 DEF SerialCoherent, Empty
    <2>3. ASSUME NEW k \in Keys, GetHit(c, k) PROVE SerialCoherent'
      BY <2>3 DEF GetHit, SerialCoherent, Empty
    <2>4. ASSUME NEW k \in Keys, GetMiss(c, k) PROVE SerialCoherent'
      BY <2>4, <2>c, <2>s DEF GetMiss, SerialCoherent, TypeOK, Empty
    <2>5. CASE GetRead(c)
      BY <2>5, <2>c, <2>s DEF GetRead, SerialCoherent, TypeOK, Empty
    <2>6. CASE GetFill(c)
      <3>1. key[c] \in Keys /\ val[c] \in Values /\ val[c] = db[key[c]]
        BY <2>6 DEF GetFill, TypeOK, Maybe, SerialCoherent
      <3>2. /\ cache'[key[c]] \in {val[c], cache[key[c]]}
            /\ \A j \in Keys : j # key[c] => cache'[j] \in {cache[j], NoVal}
        BY <2>6, <3>1, CachePutEffect DEF GetFill
      <3>3. /\ pc[c] = "fill" /\ pc'[c] = "idle" /\ db' = db
        BY <2>6 DEF GetFill, TypeOK
      <3>4. \A k \in Keys : cache[k] \in {NoVal, db[k]}
        BY <2>s, <3>3 DEF SerialCoherent
      <3>5. \A k \in Keys : cache'[k] \in {NoVal, db'[k]}
        BY <3>1, <3>2, <3>3, <3>4
      <3>6. Capacity = 0 => cache' = Empty
        BY <2>6, <3>1, CachePutEffect DEF GetFill, SerialCoherent
      <3>7. QED
        BY <2>s, <3>3, <3>5, <3>6 DEF SerialCoherent, Empty
    <2>p. ASSUME NEW k \in Keys, RemoveCache(c, k), pc[c] \in {"idle", "flush"}
          PROVE  SerialCoherent'
      <3>1. \A j \in Keys : cache[j] \in {NoVal, db[j]}
        BY <2>p, <2>s DEF SerialCoherent
      <3>2. /\ pc'[c] = "delete" /\ key'[c] = k /\ db' = db
            /\ cache' = [cache EXCEPT ![k] = NoVal]
        BY <2>p DEF RemoveCache, TypeOK
      <3>3. cache'[k] = NoVal /\ \A j \in Keys : cache'[j] \in {NoVal, db'[j]}
        BY <3>1, <3>2 DEF TypeOK
      <3>4. cache = Empty => cache' = Empty
        BY <3>2 DEF Empty
      <3>5. QED
        BY <2>s, <3>2, <3>3, <3>4 DEF SerialCoherent, Empty
    <2>7. ASSUME NEW k \in Keys, Remove(c, k) PROVE SerialCoherent'
      BY <2>7, <2>p DEF Remove
    <2>8. CASE RemoveDb(c)
      <3>1. \A k \in Keys : cache[k] \in {NoVal, db[k]}
        BY <2>8, <2>s DEF RemoveDb, SerialCoherent
      <3>2. key[c] \in Keys /\ cache[key[c]] = NoVal /\ pc[c] = "delete"
        BY <2>8 DEF RemoveDb, SerialCoherent, TypeOK
      <3>3. /\ cache' = cache /\ pc'[c] \in {"idle", "flush"}
            /\ \A k \in Keys : k # key[c] => db'[k] = db[k]
        BY <2>8 DEF RemoveDb, TypeOK
      <3>4. \A k \in Keys : cache'[k] \in {NoVal, db'[k]}
        BY <3>1, <3>2, <3>3
      <3>5. QED
        BY <2>s, <3>3, <3>4 DEF SerialCoherent, Empty
    <2>9. CASE FlushStart(c)
      BY <2>9, <2>c, <2>s DEF FlushStart, SerialCoherent, TypeOK, Empty
    <2>10. CASE FlushNext(c)
      BY <2>10, <2>p DEF FlushNext, TypeOK
    <2>11. ASSUME NEW b \in [Keys -> Maybe], CommitDb(c, b)
           PROVE  SerialCoherent'
      <3>1. pc'[c] = "clear" /\ cache' = cache
        BY <2>11 DEF CommitDb, TypeOK
      <3>2. QED
        BY <2>s, <3>1 DEF SerialCoherent, Empty
    <2>12. CASE CommitClear(c)
      BY <2>12, <2>s DEF CommitClear, SerialCoherent, TypeOK, Empty
    <2>13. QED
      BY <1>2, <2>1, <2>2, <2>3, <2>4, <2>5, <2>6, <2>7, <2>8, <2>9, <2>10,
         <2>11, <2>12 DEF Step
  <1>3. CASE UNCHANGED vars
    BY <1>3 DEF vars, SerialCoherent, Empty
  <1>4. QED
    BY <1>1, <1>2, <1>3 DEF Next

(* A thread that has the table for itself: cache and database differ only  *)
(* in the middle of its own insert or commit.                              *)
THEOREM SerialTableCoherent == Serial /\ Spec => []SerialCoherent
  <1> SUFFICES ASSUME Serial PROVE Spec => []SerialCoherent
    OBVIOUS
  <1>1. Init => SerialCoherent
    BY DEF Init, SerialCoherent, Empty
  <1>2. TypeOK /\ TypeOK' /\ SerialCoherent /\ [Next]_vars => SerialCoherent'
    BY SerialCoherentStep
  <1>3. QED
    BY <1>1, <1>2, TypeCorrect, PTL DEF Spec

(* Every step of the two-layer table, run by one thread, is one operation  *)
(* of the plain map or leaves the map alone.                               *)
LEMMA SerialStepIsMapStep ==
    ASSUME Serial, TypeOK, SerialCoherent, [Next]_vars
    PROVE  [Map!Next]_(Map!mapVars)
  <1> USE DEF Map!mapVars, local
  <1>1. CASE Restart
    BY <1>1 DEF Restart
  <1>2. ASSUME NEW c \in Clients, Step(c) PROVE [Map!Next]_(Map!mapVars)
    <2>s. \A d \in Clients : d = c
      BY DEF Serial
    <2>1. CASE InsertDb(c)
      <3>1. key[c] \in Keys /\ val[c] \in Values
        BY <2>1 DEF InsertDb, TypeOK, Maybe
      <3>2. Map!Insert(key[c], val[c])
        BY <2>1 DEF InsertDb, Map!Insert
      <3>3. QED
        BY <3>1, <3>2 DEF Map!Next
    <2>2. ASSUME NEW k \in Keys, GetHit(c, k) PROVE [Map!Next]_(Map!mapVars)
      <3>1. cache[k] = db[k]
        BY <2>s, <2>2 DEF GetHit, Cached, SerialCoherent
      <3>2. Map!Get(c, k)
        BY <2>2, <3>1 DEF GetHit, Map!Get
      <3>3. QED
        BY <3>2 DEF Map!Next
    <2>3. CASE GetRead(c)
      <3>1. key[c] \in Keys
        BY DEF TypeOK
      <3>2. CASE db[key[c]] = NoVal
        <4>1. Map!Get(c, key[c])
          BY <2>3, <3>2 DEF GetRead, Map!Get
        <4>2. QED
          BY <3>1, <4>1 DEF Map!Next
      <3>3. CASE db[key[c]] # NoVal
        BY <2>3, <3>3 DEF GetRead
      <3>4. QED
        BY <3>2, <3>3
    <2>4. CASE GetFill(c)
      <3>1. key[c] \in Keys /\ val[c] = db[key[c]]
        BY <2>4 DEF GetFill, TypeOK, SerialCoherent
      <3>2. Map!Get(c, key[c])
        BY <2>4, <3>1 DEF GetFill, Map!Get
      <3>3. QED
        BY <3>1, <3>2 DEF Map!Next
    <2>5. CASE RemoveDb(c)
      <3>1. key[c] \in Keys
        BY DEF TypeOK
      <3>2. Map!Remove(key[c])
        BY <2>5 DEF RemoveDb, Map!Remove
      <3>3. QED
        BY <3>1, <3>2 DEF Map!Next
    <2>6. ASSUME NEW b \in [Keys -> Maybe], CommitDb(c, b)
          PROVE  [Map!Next]_(Map!mapVars)
      <3>1. Map!InsertBatch(b)
        BY <2>6 DEF CommitDb, Map!InsertBatch
      <3>2. QED
        BY <3>1 DEF Map!Next, Maybe
    <2>7. ASSUME NEW k \in Keys, NEW v \in Values, InsertCache(c, k, v)
          PROVE  UNCHANGED Map!mapVars
      BY <2>7 DEF InsertCache
    <2>8. ASSUME NEW k \in Keys, GetMiss(c, k) \/ Remove(c, k)
          PROVE  UNCHANGED Map!mapVars
      BY <2>8 DEF GetMiss, Remove, RemoveCache
    <2>9. CASE FlushStart(c) \/ FlushNext(c) \/ CommitClear(c)
      BY <2>9 DEF FlushStart, FlushNext, RemoveCache, CommitClear
    <2>10. QED
      BY <1>2, <2>1, <2>2, <2>3, <2>4, <2>5, <2>6, <2>7, <2>8, <2>9 DEF Step
  <1>3. CASE UNCHANGED vars
    BY <1>3 DEF vars
  <1>4. QED
    BY <1>1, <1>2, <1>3 DEF Next

(* The refinement: to one thread, cache and database together are the map  *)
(* the doc comments of Table describe, restarts included.                  *)
THEOREM SerialTableIsMap == Serial /\ Spec => IsMap
  <1> SUFFICES ASSUME Serial PROVE Spec => IsMap
    OBVIOUS
  <1>1. Init => Map!Init
    BY DEF Init, Map!Init, Empty
  <1>2. TypeOK /\ SerialCoherent /\ [Next]_vars => [Map!Next]_(Map!mapVars)
    BY SerialStepIsMapStep
  <1>3. QED
    BY <1>1, <1>2, TypeCorrect, SerialTableCoherent, PTL
       DEF Spec, IsMap, Map!Spec
=============================================================================
